------------------------ MODULE InboundPollingProofs ------------------------
(***************************************************************************)
(* What the polls of the mailbox and the webhook guarantee for any number  *)
(* of polls, mails, renumberings and repeated deliveries, checked by       *)
(* TLAPS.  Every theorem rests on one inductive invariant, MInv.           *)
(***************************************************************************)
EXTENDS InboundPolling, TLAPS

\* Every renumbering is a fault.
EpochBounded == epoch <= faults + 1

\* A poll at work reads the mailbox as it is numbered, and the next mail is the one
\* behind the highest it has been through.
PollShape ==
    \A p \in Pollers :
        /\ poll[p].at # "idle" => poll[p].epoch = epoch /\ poll[p].next > 0
        /\ poll[p].at = "fetching" => poll[p].next = poll[p].max + 1

\* What a poll would save as its cursor has been looked at.
PollCovers ==
    \A p \in Pollers : poll[p].at = "fetching" =>
        \A i \in 1..poll[p].max : box[i] \in looked \cup passed

\* A deal is at its meeting only while its business is, or asked to be left alone.
DealKept == \A b \in Businesses : deal[b] = "meeting" => status[b] \in Preserved

MInv ==
    /\ TypeOK
    /\ EpochBounded
    /\ PollShape
    /\ PollCovers
    /\ CursorCovers
    /\ CountedOnce
    /\ DealKept

LEMMA InitInv == Init => MInv
<1> SUFFICES ASSUME Init PROVE MInv
  OBVIOUS
<1>1. box \in Seq(Mails) /\ Len(box) \in Nat
  <2>1. Old \in Seq(Mails) /\ <<>> \in Seq(Mails)
    BY PollingConstants
  <2>2. box = <<>> \/ box = Old
    BY DEF Init
  <2>3. box \in Seq(Mails)
    BY <2>1, <2>2
  <2> QED
    BY <2>3
<1>2. 0 \in Uid /\ 0 \in 0..(Len(box) + 1) /\ 0 \in 0..MaxPerPoll
  BY <1>1, PollingConstants DEF Uid
<1>3. /\ epoch = 1 /\ faults = 0 /\ moves = 0 /\ looked = {} /\ passed = {}
      /\ cursor = [epoch |-> 0, uid |-> 0]
      /\ \A p \in Pollers : poll[p] = Idle
  BY DEF Init, NoCursor
<1>4. TypeOK
  <2>1. epoch \in 1..(MaxFaults + 1) /\ faults \in 0..MaxFaults /\ moves \in 0..MaxMoves
    BY <1>3, PollingConstants
  <2>2. cursor \in [epoch : 0..epoch, uid : Uid]
    BY <1>2, <1>3
  <2>3. poll \in [Pollers -> [at : {"idle", "opened", "fetching"}, epoch : 0..epoch,
                              next : 0..(Len(box) + 1), last : Uid, max : Uid,
                              count : 0..MaxPerPoll]]
    BY <1>2, <1>3 DEF Init, Idle
  <2>4. /\ calls \in [Calls -> 0..MaxCalls]
        /\ events \in [Messages -> 0..2] /\ notices \in [Messages -> 0..2]
        /\ status \in [Businesses -> Statuses]
        /\ deal \in [Businesses -> {"contacted", "replied", "meeting"}]
        /\ dnc \subseteq Businesses /\ followups \subseteq Businesses
        /\ thread \in [Businesses -> {"delivered", "failed"}]
    BY PollingConstants DEF Init, Statuses
  <2> QED
    BY <1>1, <1>3, <2>1, <2>2, <2>3, <2>4 DEF TypeOK
<1>5. EpochBounded /\ PollShape /\ PollCovers /\ CursorCovers
  BY <1>3 DEF EpochBounded, PollShape, PollCovers, CursorCovers, Idle
<1>6. CountedOnce /\ DealKept
  BY PollingConstants DEF CountedOnce, DealKept, Init
<1> QED
  BY <1>4, <1>5, <1>6 DEF MInv

-----------------------------------------------------------------------------
(***************************************************************************)
(* The record of a message, which only the service writes.                 *)
(***************************************************************************)

RecordOK ==
    /\ events \in [Messages -> 0..2]
    /\ notices \in [Messages -> 0..2]
    /\ status \in [Businesses -> Statuses]
    /\ deal \in [Businesses -> {"contacted", "replied", "meeting"}]
    /\ dnc \subseteq Businesses
    /\ thread \in [Businesses -> {"delivered", "failed"}]
    /\ followups \subseteq Businesses
    /\ DealKept

LEMMA RecordStays ==
    ASSUME RecordOK, CountedOnce, UNCHANGED record
    PROVE  RecordOK' /\ CountedOnce'
BY DEF RecordOK, CountedOnce, DealKept, record, business

\* A message counts once whoever hands it to the service, and however often.
LEMMA ServiceKeeps ==
    ASSUME RecordOK, CountedOnce, NEW m \in Messages, ProcessOrLeave(m)
    PROVE  RecordOK' /\ CountedOnce'
<1>1. CASE UNCHANGED record
  BY <1>1, RecordStays
<1>2. CASE ~UNCHANGED record
  <2> DEFINE b == BizOf[m]
  <2>1. b \in Businesses /\ KindOf[m] \in Kinds
    BY PollingConstants
  <2>2. /\ KindOf[m] \in {"replied", "opted_out", "bounced"}
        /\ Claims(m)
        /\ events' = [events EXCEPT ![m] = OneMore(@)]
        /\ followups' = followups \ {b}
        /\ KindOf[m] = "replied" => Replied(m)
        /\ KindOf[m] = "opted_out" => OptedOut(m)
        /\ KindOf[m] = "bounced" => Bounced(m)
    BY <1>2, <2>1 DEF ProcessOrLeave, Process, Kinds
  <2>3. /\ events' \in [Messages -> 0..2]
        /\ events'[m] = OneMore(events[m])
        /\ \A n \in Messages : n # m => events'[n] = events[n]
        /\ events'[m] \in 1..2
    BY <2>2 DEF RecordOK, OneMore
  <2>4. /\ notices' \in [Messages -> 0..2]
        /\ \A n \in Messages : n # m => notices'[n] = notices[n]
        /\ notices'[m] = notices[m] \/ notices'[m] = OneMore(notices[m])
    BY <2>2 DEF RecordOK, OneMore, Replied, OptedOut, Bounced
  <2>5. /\ status' \in [Businesses -> Statuses]
        /\ deal' \in [Businesses -> {"contacted", "replied", "meeting"}]
        /\ \A c \in Businesses : status[c] # "contacted" => status'[c] # "contacted"
        /\ KindOf[m] = "replied" => status'[b] # "contacted"
    BY <2>1, <2>2 DEF RecordOK, Replied, OptedOut, Bounced, Preserves, Preserved, Statuses
  <2>6. /\ dnc' \subseteq Businesses /\ dnc \subseteq dnc'
        /\ KindOf[m] = "opted_out" => b \in dnc'
    BY <2>1, <2>2 DEF RecordOK, Replied, OptedOut, Bounced
  <2>7. /\ thread' \in [Businesses -> {"delivered", "failed"}]
        /\ \A c \in Businesses : thread[c] = "failed" => thread'[c] = "failed"
        /\ KindOf[m] = "bounced" => thread'[b] = "failed"
    BY <2>1, <2>2 DEF RecordOK, Replied, OptedOut, Bounced
  <2>k. DealKept'
    <3>1. DealKept
      BY DEF RecordOK
    <3>2. CASE Replied(m)
      BY <2>1, <3>1, <3>2 DEF RecordOK, DealKept, Replied, Preserves
    <3>3. CASE OptedOut(m)
      BY <2>1, <3>1, <3>3 DEF RecordOK, DealKept, OptedOut, Preserved
    <3>4. CASE Bounced(m)
      BY <3>1, <3>4 DEF DealKept, Bounced
    <3> QED
      BY <2>2, <3>2, <3>3, <3>4
  <2>8. RecordOK'
    BY <2>2, <2>3, <2>4, <2>5, <2>6, <2>7, <2>k DEF RecordOK
  <2>9. ASSUME NEW n \in Keyed
        PROVE  events'[n] <= 1 /\ notices'[n] <= events'[n]
    <3>1. n \in Messages /\ events[n] <= 1 /\ notices[n] <= events[n]
      BY PollingConstants DEF CountedOnce
    <3>2. CASE n # m
      BY <2>3, <2>4, <3>1, <3>2
    <3>3. CASE n = m
      <4>1. events[m] = 0 /\ notices[m] = 0
        BY <2>2, <3>1, <3>3 DEF Claims, RecordOK
      <4> QED
        BY <2>3, <2>4, <3>3, <4>1 DEF OneMore
    <3> QED
      BY <3>2, <3>3
  <2>10. ASSUME NEW n \in Messages, events'[n] > 0
         PROVE  /\ BizOf[n] \notin followups'
                /\ KindOf[n] = "replied" => status'[BizOf[n]] # "contacted"
                /\ KindOf[n] = "opted_out" => BizOf[n] \in dnc'
                /\ KindOf[n] = "bounced" => thread'[BizOf[n]] = "failed"
    <3>1. BizOf[n] \in Businesses
      BY PollingConstants
    <3>2. CASE n = m
      BY <2>2, <2>5, <2>6, <2>7, <3>2
    <3>3. CASE n # m
      <4>1. events[n] > 0
        BY <2>3, <2>10, <3>3
      <4> QED
        BY <2>2, <2>5, <2>6, <2>7, <3>1, <4>1 DEF CountedOnce
    <3> QED
      BY <3>2, <3>3
  <2> QED
    BY <2>8, <2>9, <2>10 DEF CountedOnce
<1> QED
  BY <1>1, <1>2
-----------------------------------------------------------------------------
(***************************************************************************)
(* The steps.                                                              *)
(***************************************************************************)

\* The part of the type that is about the mailbox and the polls.
MailType ==
    /\ box \in Seq(Mails)
    /\ epoch \in 1..(MaxFaults + 1)
    /\ cursor \in [epoch : 0..epoch, uid : Uid]
    /\ poll \in [Pollers -> [at : {"idle", "opened", "fetching"}, epoch : 0..epoch,
                             next : 0..(Len(box) + 1), last : Uid, max : Uid,
                             count : 0..MaxPerPoll]]
    /\ faults \in 0..MaxFaults
    /\ looked \subseteq Mails
    /\ passed \subseteq Mails

RestType == calls \in [Calls -> 0..MaxCalls] /\ moves \in 0..MaxMoves

\* The invariant in its three independent parts.
LEMMA InvariantParts ==
    /\ MInv <=> /\ MailType /\ EpochBounded /\ PollShape /\ PollCovers /\ CursorCovers
                /\ RecordOK /\ CountedOnce
                /\ RestType
    /\ MInv' <=> /\ MailType' /\ EpochBounded' /\ PollShape' /\ PollCovers' /\ CursorCovers'
                 /\ RecordOK' /\ CountedOnce'
                 /\ RestType'
BY DEF MInv, TypeOK, MailType, RecordOK, RestType, Uid

MailInv == MailType /\ EpochBounded /\ PollShape /\ PollCovers /\ CursorCovers

LEMMA MailStays ==
    ASSUME MailInv, UNCHANGED <<mailbox, cursor, poll, faults, history>>
    PROVE  MailInv'
BY DEF MailInv, MailType, EpochBounded, PollShape, PollCovers, CursorCovers, Uid, mailbox, history

\* What a poller p has in memory is what it had, or the given record.
LEMMA PollType ==
    ASSUME MailType, NEW p \in Pollers, NEW q, poll' = [poll EXCEPT ![p] = q]
    PROVE  poll'[p] = q /\ \A r \in Pollers : r # p => poll'[r] = poll[r]
BY DEF MailType

LEMMA OpenKeeps ==
    ASSUME MailInv, NEW p \in Pollers, Open(p)
    PROVE  MailInv'
<1> DEFINE q == [Idle EXCEPT !.at = "opened", !.epoch = epoch, !.next = Len(box) + 1]
<1>1. /\ poll' = [poll EXCEPT ![p] = q]
      /\ UNCHANGED <<box, epoch, cursor, faults, looked, passed>>
  BY DEF Open, mailbox, history
<1>2. q.at = "opened" /\ q.epoch = epoch /\ q.next = Len(box) + 1
  BY DEF Idle
<1>3. Len(box) \in Nat /\ epoch \in Nat /\ MailType
  BY PollingConstants DEF MailInv, MailType
<1>q. q \in [at : {"idle", "opened", "fetching"}, epoch : 0..epoch,
             next : 0..(Len(box) + 1), last : Uid, max : Uid, count : 0..MaxPerPoll]
  <2>1. Idle \in [at : {"idle", "opened", "fetching"}, epoch : 0..epoch,
                  next : 0..(Len(box) + 1), last : Uid, max : Uid, count : 0..MaxPerPoll]
    BY <1>3, PollingConstants DEF Idle, Uid
  <2>2. epoch \in 0..epoch /\ Len(box) + 1 \in 0..(Len(box) + 1)
    BY <1>3
  <2> QED
    BY <2>1, <2>2
<1> HIDE DEF q
<1>4. poll'[p] = q /\ \A r \in Pollers : r # p => poll'[r] = poll[r]
  BY <1>1, <1>3, PollType
<1>5. MailType'
  BY <1>1, <1>3, <1>q DEF MailType, Uid
<1>6. PollShape' /\ PollCovers'
  BY <1>1, <1>2, <1>3, <1>4 DEF MailInv, PollShape, PollCovers
<1>7. EpochBounded' /\ CursorCovers'
  BY <1>1 DEF MailInv, EpochBounded, CursorCovers
<1> QED
  BY <1>5, <1>6, <1>7 DEF MailInv

LEMMA BeginKeeps ==
    ASSUME MailInv, NEW p \in Pollers, Begin(p)
    PROVE  MailInv'
<1> DEFINE start == IF SameEpoch(p) THEN cursor.uid + 1 ELSE poll[p].next
           q == [poll[p] EXCEPT !.at = "fetching", !.next = start,
                                !.max = start - 1, !.last = Len(box)]
<1>1. /\ poll[p].at = "opened"
      /\ poll' = [poll EXCEPT ![p] = q]
      /\ passed' = IF SameEpoch(p) THEN passed
                   ELSE passed \cup ({box[i] : i \in 1..(start - 1)} \ looked)
      /\ UNCHANGED <<box, epoch, cursor, faults, looked>>
  BY DEF Begin, mailbox
<1>2. /\ Len(box) \in Nat /\ epoch \in Nat /\ MailType /\ box \in Seq(Mails)
      /\ poll[p] \in [at : {"idle", "opened", "fetching"}, epoch : 0..epoch,
                      next : 0..(Len(box) + 1), last : Uid, max : Uid, count : 0..MaxPerPoll]
      /\ cursor.uid \in 0..Len(box)
  <2>1. /\ Len(box) \in Nat /\ epoch \in Nat /\ MailType /\ box \in Seq(Mails)
        /\ cursor.uid \in Uid
    BY PollingConstants DEF MailInv, MailType
  <2>2. poll[p] \in [at : {"idle", "opened", "fetching"}, epoch : 0..epoch,
                     next : 0..(Len(box) + 1), last : Uid, max : Uid, count : 0..MaxPerPoll]
    BY <2>1 DEF MailType
  <2> QED
    BY <2>1, <2>2 DEF Uid
<1>3. poll[p].epoch = epoch /\ poll[p].next > 0
  BY <1>1 DEF MailInv, PollShape
<1>4. start \in 1..(Len(box) + 1)
  BY <1>2, <1>3
<1>5. q.at = "fetching" /\ q.epoch = epoch /\ q.next = start /\ q.max = start - 1
  BY <1>2, <1>3
<1>6. q \in [at : {"idle", "opened", "fetching"}, epoch : 0..epoch,
             next : 0..(Len(box) + 1), last : Uid, max : Uid, count : 0..MaxPerPoll]
  <2> HIDE DEF start
  <2>0. Len(box) \in Nat
    BY <1>2
  <2>1. start \in 0..(Len(box) + 1) /\ start - 1 \in Uid /\ Len(box) \in Uid
    BY <1>4, <2>0 DEF Uid
  <2> QED
    BY <1>2, <2>1
<1>7. \A i \in 1..(start - 1) : box[i] \in Mails /\ box[i] \in looked \cup passed'
  <2> SUFFICES ASSUME NEW i \in 1..(start - 1)
               PROVE  box[i] \in Mails /\ box[i] \in looked \cup passed'
    OBVIOUS
  <2>1. i \in 1..Len(box)
    BY <1>2, <1>4
  <2>2. box[i] \in Mails
    BY <1>2, <2>1
  <2>3. CASE SameEpoch(p)
    <3>1. start - 1 = cursor.uid /\ cursor.epoch = epoch
      BY <1>2, <1>3, <2>3 DEF SameEpoch
    <3> QED
      BY <1>1, <2>2, <2>3, <3>1 DEF MailInv, CursorCovers
  <2>4. CASE ~SameEpoch(p)
    BY <1>1, <2>2, <2>4
  <2> QED
    BY <2>3, <2>4
<1>8. passed \subseteq passed' /\ passed' \subseteq Mails
  BY <1>1, <1>2, <1>7 DEF MailType
<1> HIDE DEF q, start
<1>9. poll'[p] = q /\ \A r \in Pollers : r # p => poll'[r] = poll[r]
  BY <1>1, <1>2, PollType
<1>10. MailType'
  BY <1>1, <1>2, <1>6, <1>8 DEF MailType, Uid
<1>11. PollShape'
  BY <1>1, <1>2, <1>4, <1>5, <1>9 DEF MailInv, PollShape
<1>12. PollCovers'
  BY <1>1, <1>5, <1>7, <1>8, <1>9 DEF MailInv, PollCovers
<1>13. EpochBounded' /\ CursorCovers'
  BY <1>1, <1>8 DEF MailInv, EpochBounded, CursorCovers
<1> QED
  BY <1>10, <1>11, <1>12, <1>13 DEF MailInv

LEMMA HandleKeeps ==
    ASSUME MailInv, RecordOK, CountedOnce, NEW p \in Pollers, Handle(p)
    PROVE  MailInv' /\ RecordOK' /\ CountedOnce'
<1> DEFINE n == poll[p].next
           q == [poll[p] EXCEPT !.next = @ + 1, !.max = n, !.count = @ + 1]
<1>1. /\ poll[p].at = "fetching" /\ n <= poll[p].last /\ ~(poll[p].count >= MaxPerPoll)
      /\ ProcessOrLeave(box[n])
      /\ looked' = looked \cup {box[n]}
      /\ poll' = [poll EXCEPT ![p] = q]
      /\ UNCHANGED <<box, epoch, cursor, faults, passed>>
  BY DEF Handle, Fetching, Full, MaxUid, mailbox
<1>2. /\ Len(box) \in Nat /\ epoch \in Nat /\ MailType /\ box \in Seq(Mails)
      /\ poll[p] \in [at : {"idle", "opened", "fetching"}, epoch : 0..epoch,
                      next : 0..(Len(box) + 1), last : Uid, max : Uid, count : 0..MaxPerPoll]
      /\ poll[p].last \in 0..Len(box)
      /\ poll[p].count \in 0..MaxPerPoll /\ MaxPerPoll \in Nat
  <2>1. Len(box) \in Nat /\ epoch \in Nat /\ MailType /\ box \in Seq(Mails)
    BY PollingConstants DEF MailInv, MailType
  <2>2. poll[p] \in [at : {"idle", "opened", "fetching"}, epoch : 0..epoch,
                     next : 0..(Len(box) + 1), last : Uid, max : Uid, count : 0..MaxPerPoll]
    BY <2>1 DEF MailType
  <2>3. poll[p].last \in Uid /\ poll[p].count \in 0..MaxPerPoll
    BY <2>2
  <2> QED
    BY <2>1, <2>2, <2>3, PollingConstants DEF Uid
<1>3. poll[p].epoch = epoch /\ n > 0 /\ n = poll[p].max + 1
  BY <1>1 DEF MailInv, PollShape
<1>4. n \in 1..Len(box) /\ box[n] \in Mails
  BY <1>1, <1>2, <1>3
<1>5. RecordOK' /\ CountedOnce'
  BY <1>1, <1>4, ServiceKeeps DEF Messages
<1>6. q.at = "fetching" /\ q.epoch = epoch /\ q.next = n + 1 /\ q.max = n
  BY <1>1, <1>2, <1>3
<1>7. q \in [at : {"idle", "opened", "fetching"}, epoch : 0..epoch,
             next : 0..(Len(box) + 1), last : Uid, max : Uid, count : 0..MaxPerPoll]
  <2>0. /\ Len(box) \in Nat /\ MaxPerPoll \in Nat
        /\ poll[p].count \in 0..MaxPerPoll /\ ~(poll[p].count >= MaxPerPoll)
    BY <1>1, <1>2
  <2>1. n + 1 \in 0..(Len(box) + 1) /\ n \in Uid /\ poll[p].count + 1 \in 0..MaxPerPoll
    BY <1>4, <2>0 DEF Uid
  <2> QED
    BY <1>2, <2>1
<1>8. \A i \in 1..n : box[i] \in looked' \cup passed
  BY <1>1, <1>2, <1>3, <1>4 DEF MailInv, PollCovers, Uid
<1> HIDE DEF q, n
<1>9. poll'[p] = q /\ \A r \in Pollers : r # p => poll'[r] = poll[r]
  BY <1>1, <1>2, PollType
<1>10. MailType'
  BY <1>1, <1>2, <1>4, <1>7 DEF MailType, Uid
<1>11. PollShape'
  BY <1>1, <1>2, <1>4, <1>6, <1>9 DEF MailInv, PollShape
<1>12. PollCovers'
  BY <1>1, <1>6, <1>8, <1>9 DEF MailInv, PollCovers
<1>13. EpochBounded' /\ CursorCovers'
  BY <1>1 DEF MailInv, EpochBounded, CursorCovers
<1> QED
  BY <1>5, <1>10, <1>11, <1>12, <1>13 DEF MailInv

LEMMA SaveKeeps ==
    ASSUME MailInv, NEW p \in Pollers, Save(p)
    PROVE  MailInv'
<1>1. /\ poll[p].at = "fetching"
      /\ cursor' = IF poll[p].max > 0 THEN [epoch |-> poll[p].epoch, uid |-> poll[p].max]
                   ELSE cursor
      /\ poll' = [poll EXCEPT ![p] = Idle]
      /\ UNCHANGED <<box, epoch, faults, looked, passed>>
  BY DEF Save, mailbox, history
<1>2. /\ Len(box) \in Nat /\ epoch \in Nat /\ MailType
      /\ poll[p] \in [at : {"idle", "opened", "fetching"}, epoch : 0..epoch,
                      next : 0..(Len(box) + 1), last : Uid, max : Uid, count : 0..MaxPerPoll]
  BY PollingConstants DEF MailInv, MailType
<1>3. poll'[p] = Idle /\ \A r \in Pollers : r # p => poll'[r] = poll[r]
  BY <1>1, <1>2, PollType
<1>4. MailType'
  <2>1. Idle \in [at : {"idle", "opened", "fetching"}, epoch : 0..epoch,
                  next : 0..(Len(box) + 1), last : Uid, max : Uid, count : 0..MaxPerPoll]
    BY <1>2, PollingConstants DEF Idle, Uid
  <2>2. cursor' \in [epoch : 0..epoch, uid : Uid]
    BY <1>1, <1>2 DEF MailType
  <2> QED
    BY <1>1, <1>2, <2>1, <2>2 DEF MailType, Uid
<1>5. PollShape' /\ PollCovers'
  BY <1>1, <1>3 DEF MailInv, PollShape, PollCovers, Idle
<1>6. EpochBounded' /\ CursorCovers'
  BY <1>1 DEF MailInv, EpochBounded, CursorCovers, PollCovers
<1> QED
  BY <1>4, <1>5, <1>6 DEF MailInv

LEMMA DiesKeeps ==
    ASSUME MailInv, NEW p \in Pollers, Dies(p)
    PROVE  MailInv'
<1>1. /\ faults < MaxFaults /\ faults' = faults + 1
      /\ poll' = [poll EXCEPT ![p] = Idle]
      /\ UNCHANGED <<box, epoch, cursor, looked, passed>>
  BY DEF Dies, mailbox, history
<1>2. Len(box) \in Nat /\ epoch \in Nat /\ faults \in Nat /\ MaxFaults \in Nat /\ MailType
  BY PollingConstants DEF MailInv, MailType
<1>3. poll'[p] = Idle /\ \A r \in Pollers : r # p => poll'[r] = poll[r]
  BY <1>1, <1>2, PollType
<1>4. MailType'
  <2>1. Idle \in [at : {"idle", "opened", "fetching"}, epoch : 0..epoch,
                  next : 0..(Len(box) + 1), last : Uid, max : Uid, count : 0..MaxPerPoll]
    BY <1>2, PollingConstants DEF Idle, Uid
  <2>2. faults' \in 0..MaxFaults
    BY <1>1, <1>2
  <2> QED
    BY <1>1, <1>2, <2>1, <2>2 DEF MailType, Uid
<1>5. PollShape' /\ PollCovers'
  BY <1>1, <1>3 DEF MailInv, PollShape, PollCovers, Idle
<1>6. EpochBounded' /\ CursorCovers'
  BY <1>1, <1>2 DEF MailInv, EpochBounded, CursorCovers
<1> QED
  BY <1>4, <1>5, <1>6 DEF MailInv

LEMMA ArrivesKeeps ==
    ASSUME MailInv, NEW m \in Mails, Arrives(m)
    PROVE  MailInv'
<1>1. /\ box' = Append(box, m)
      /\ UNCHANGED <<epoch, cursor, poll, faults, looked, passed>>
  BY DEF Arrives, history
<1>2. Len(box) \in Nat /\ box \in Seq(Mails) /\ MailType
  BY DEF MailInv, MailType
<1>3. /\ box' \in Seq(Mails)
      /\ Len(box') = Len(box) + 1
      /\ \A i \in 1..Len(box) : box'[i] = box[i]
  BY <1>1, <1>2
<1>4. Uid \subseteq Uid' /\ 0..(Len(box) + 1) \subseteq 0..(Len(box') + 1)
  BY <1>2, <1>3 DEF Uid
<1>5. MailType'
  <2>1. cursor' \in [epoch : 0..epoch', uid : Uid']
    BY <1>1, <1>4 DEF MailInv, MailType
  <2>2. \A p \in Pollers : poll[p] \in [at : {"idle", "opened", "fetching"}, epoch : 0..epoch,
              next : 0..(Len(box') + 1), last : Uid', max : Uid', count : 0..MaxPerPoll]
    <3> SUFFICES ASSUME NEW p \in Pollers
                 PROVE  poll[p] \in [at : {"idle", "opened", "fetching"}, epoch : 0..epoch,
              next : 0..(Len(box') + 1), last : Uid', max : Uid', count : 0..MaxPerPoll]
      OBVIOUS
    <3>1. poll[p] \in [at : {"idle", "opened", "fetching"}, epoch : 0..epoch,
              next : 0..(Len(box) + 1), last : Uid, max : Uid, count : 0..MaxPerPoll]
      BY <1>2 DEF MailType
    <3> QED
      BY <1>4, <3>1
  <2> QED
    BY <1>1, <1>2, <1>3, <2>1, <2>2 DEF MailType
<1>6. PollShape' /\ EpochBounded'
  BY <1>1 DEF MailInv, PollShape, EpochBounded
<1>7. PollCovers'
  <2>1. \A p \in Pollers : poll[p].max \in 0..Len(box)
    BY <1>2 DEF MailType, Uid
  <2> QED
    BY <1>1, <1>2, <1>3, <2>1 DEF MailInv, PollCovers
<1>8. CursorCovers'
  <2>1. cursor.uid \in 0..Len(box)
    BY <1>2 DEF MailType, Uid
  <2> QED
    BY <1>1, <1>2, <1>3, <2>1 DEF MailInv, CursorCovers
<1> QED
  BY <1>5, <1>6, <1>7, <1>8 DEF MailInv

LEMMA RenumberKeeps ==
    ASSUME MailInv, Renumber
    PROVE  MailInv'
<1>1. /\ faults < MaxFaults /\ faults' = faults + 1 /\ epoch' = epoch + 1
      /\ \A p \in Pollers : poll[p].at = "idle"
      /\ UNCHANGED <<box, cursor, poll, looked, passed>>
  BY DEF Renumber, history
<1>2. /\ epoch \in Nat /\ epoch <= faults + 1 /\ faults \in Nat /\ MaxFaults \in Nat
      /\ MailType /\ cursor.epoch \in 0..epoch
  BY PollingConstants DEF MailInv, MailType, EpochBounded
<1>3. epoch' \in 1..(MaxFaults + 1) /\ faults' \in 0..MaxFaults /\ 0..epoch \subseteq 0..epoch'
  BY <1>1, <1>2
<1>4. MailType'
  <2>1. cursor' \in [epoch : 0..epoch', uid : Uid']
    BY <1>1, <1>2, <1>3 DEF MailType, Uid
  <2>2. \A p \in Pollers : poll[p] \in [at : {"idle", "opened", "fetching"}, epoch : 0..epoch',
              next : 0..(Len(box) + 1), last : Uid, max : Uid, count : 0..MaxPerPoll]
    BY <1>2, <1>3 DEF MailType
  <2> QED
    BY <1>1, <1>2, <1>3, <2>1, <2>2 DEF MailType, Uid
<1>5. PollShape' /\ PollCovers'
  BY <1>1 DEF PollShape, PollCovers
<1>6. EpochBounded' /\ CursorCovers'
  BY <1>1, <1>2 DEF EpochBounded, CursorCovers
<1> QED
  BY <1>4, <1>5, <1>6 DEF MailInv

LEMMA MeetsKeeps ==
    ASSUME RecordOK, CountedOnce, RestType, NEW b \in Businesses, Meets(b)
    PROVE  RecordOK' /\ CountedOnce' /\ RestType'
<1>1. /\ moves < MaxMoves /\ moves' = moves + 1
      /\ status' = [status EXCEPT ![b] = "meeting"]
      /\ deal' = [deal EXCEPT ![b] = "meeting"]
      /\ UNCHANGED <<calls, events, notices, dnc, thread, followups>>
  BY DEF Meets
<1>2. /\ status' \in [Businesses -> Statuses]
      /\ \A c \in Businesses : status'[c] = status[c] \/ status'[c] = "meeting"
  BY <1>1 DEF RecordOK, Statuses, Preserved
<1>d. DealKept'
  BY <1>1 DEF RecordOK, DealKept, Preserved
<1>3. RecordOK' /\ RestType'
  BY <1>1, <1>2, <1>d, PollingConstants DEF RecordOK, RestType
<1>4. \A m \in Messages : BizOf[m] \in Businesses
  BY PollingConstants
<1>5. CountedOnce'
  BY <1>1, <1>2, <1>4 DEF CountedOnce
<1> QED
  BY <1>3, <1>5

LEMMA WebhookKeeps ==
    ASSUME RecordOK, CountedOnce, RestType, NEW c \in Calls, Webhook(c)
    PROVE  RecordOK' /\ CountedOnce' /\ RestType'
<1>1. /\ calls[c] < MaxCalls /\ calls' = [calls EXCEPT ![c] = @ + 1]
      /\ ProcessOrLeave(c) /\ moves' = moves
  BY DEF Webhook
<1>2. RecordOK' /\ CountedOnce'
  BY <1>1, ServiceKeeps DEF Messages
<1>3. RestType'
  BY <1>1, PollingConstants DEF RestType
<1> QED
  BY <1>2, <1>3

LEMMA NextInv == MInv /\ [Next]_vars => MInv'
<1> SUFFICES ASSUME MInv, [Next]_vars PROVE MInv'
  OBVIOUS
<1>0. MailInv /\ RecordOK /\ CountedOnce /\ RestType
  BY InvariantParts DEF MailInv
<1>m. UNCHANGED <<calls, moves>> => RestType'
  BY <1>0 DEF RestType
<1>f. MailInv' /\ RecordOK' /\ CountedOnce' /\ RestType' => MInv'
  BY InvariantParts DEF MailInv
<1>1. ASSUME NEW p \in Pollers, Poller(p) PROVE MInv'
  <2>1. CASE Open(p)
    BY <1>0, <1>m, <1>f, <2>1, OpenKeeps, RecordStays DEF Open
  <2>2. CASE Begin(p)
    BY <1>0, <1>m, <1>f, <2>2, BeginKeeps, RecordStays DEF Begin
  <2>3. CASE Handle(p)
    BY <1>0, <1>m, <1>f, <2>3, HandleKeeps DEF Handle
  <2>4. CASE Save(p)
    BY <1>0, <1>m, <1>f, <2>4, SaveKeeps, RecordStays DEF Save
  <2> QED
    BY <1>1, <2>1, <2>2, <2>3, <2>4 DEF Poller
<1>2. ASSUME NEW p \in Pollers, Dies(p) PROVE MInv'
  BY <1>0, <1>m, <1>f, <1>2, DiesKeeps, RecordStays DEF Dies
<1>3. ASSUME NEW m \in Mails, Arrives(m) PROVE MInv'
  BY <1>0, <1>m, <1>f, <1>3, ArrivesKeeps, RecordStays DEF Arrives
<1>4. ASSUME Renumber PROVE MInv'
  BY <1>0, <1>m, <1>f, <1>4, RenumberKeeps, RecordStays DEF Renumber
<1>5. ASSUME NEW c \in Calls, Webhook(c) PROVE MInv'
  BY <1>0, <1>f, <1>5, WebhookKeeps, MailStays DEF Webhook
<1>6. ASSUME NEW b \in Businesses, Meets(b) PROVE MInv'
  BY <1>0, <1>f, <1>6, MeetsKeeps, MailStays DEF Meets
<1>7. CASE UNCHANGED vars
  BY <1>0, <1>m, <1>f, <1>7, MailStays, RecordStays DEF vars
<1> QED
  BY <1>1, <1>2, <1>3, <1>4, <1>5, <1>6, <1>7 DEF Next

-----------------------------------------------------------------------------
(***************************************************************************)
(* The theorems.                                                           *)
(***************************************************************************)

LEMMA Invariance == Spec => []MInv
BY InitInv, NextInv, PTL DEF Spec

\* Every variable of the polls and of the record they write keeps its type, for any
\* number of polls, mails, renumberings and deliveries.
THEOREM PollingTypeCorrect == Spec => []TypeOK
<1>1. MInv => TypeOK
  BY DEF MInv
<1> QED
  BY Invariance, <1>1, PTL

\* pollReplies: the persisted cursor never passes a mail no poll has looked at,
\* however polls overlap, die and stop at their limit.
THEOREM CursorPassesNothing == Spec => []CursorCovers
<1>1. MInv => CursorCovers
  BY DEF MInv
<1> QED
  BY Invariance, <1>1, PTL

\* claimEvent and the transaction behind it: a message with an id counts once and
\* notifies once, and what is recorded took effect and goes on having it.
THEOREM AnswersCountOnce == Spec => []CountedOnce
<1>1. MInv => CountedOnce
  BY DEF MInv
<1> QED
  BY Invariance, <1>1, PTL

\* recordReply: no reply, early, late or repeated, undoes what the operator decided
\* or the business forbade.
THEOREM NothingRevived == Spec => RepliesReviveNobody
<1>1. MInv /\ [Next]_vars =>
        [\A b \in Businesses :
          /\ status[b] = "do_not_contact" => status'[b] = status[b] \/ moves' > moves
          /\ status[b] = "meeting" => status'[b] # "replied"
          /\ deal[b] = "meeting" => deal'[b] = "meeting"]_vars
  <2> SUFFICES ASSUME MInv, Next, NEW b \in Businesses
               PROVE  /\ status[b] = "do_not_contact" => status'[b] = status[b] \/ moves' > moves
                      /\ status[b] = "meeting" => status'[b] # "replied"
                      /\ deal[b] = "meeting" => deal'[b] = "meeting"
    OBVIOUS
  <2>0. RecordOK /\ moves \in Nat
    BY InvariantParts, PollingConstants DEF RestType
  <2>u. ASSUME UNCHANGED record
        PROVE  status'[b] = status[b] /\ deal'[b] = deal[b]
    BY <2>u DEF record, business
  <2>s. ASSUME NEW m \in Messages, ProcessOrLeave(m)
        PROVE  /\ status[b] = "do_not_contact" => status'[b] = status[b]
               /\ status[b] = "meeting" => status'[b] # "replied"
               /\ deal[b] = "meeting" => deal'[b] = "meeting"
    <3>1. CASE UNCHANGED record
      BY <3>1, <2>u
    <3>2. CASE ~UNCHANGED record
      <4>1. BizOf[m] \in Businesses
        BY PollingConstants
      <4>2. Replied(m) \/ OptedOut(m) \/ Bounced(m)
        BY <2>s, <3>2, PollingConstants DEF ProcessOrLeave, Process, Kinds
      <4>3. CASE Replied(m)
        <5>1. /\ status'[b] = status[b] \/ (b = BizOf[m] /\ status[b] \notin Preserved)
              /\ deal'[b] = deal[b] \/ (b = BizOf[m] /\ status[b] \notin Preserved)
          BY <2>0, <4>1, <4>3 DEF RecordOK, Replied, Preserves
        <5>2. deal[b] = "meeting" => status[b] \in Preserved
          BY <2>0 DEF RecordOK, DealKept
        <5> QED
          BY <5>1, <5>2 DEF Preserved
      <4>4. CASE OptedOut(m)
        BY <2>0, <4>1, <4>4 DEF RecordOK, OptedOut
      <4>5. CASE Bounced(m)
        BY <4>5 DEF Bounced
      <4> QED
        BY <4>2, <4>3, <4>4, <4>5
    <3> QED
      BY <3>1, <3>2
  <2>1. ASSUME NEW p \in Pollers, Handle(p)
        PROVE  \E m \in Messages : ProcessOrLeave(m)
    <3>1. MailInv
      BY InvariantParts DEF MailInv
    <3>2. poll[p].next \in 1..Len(box)
      <4>1. /\ poll[p].next <= poll[p].last /\ poll[p].next > 0
            /\ poll[p] \in [at : {"idle", "opened", "fetching"}, epoch : 0..epoch,
                  next : 0..(Len(box) + 1), last : Uid, max : Uid, count : 0..MaxPerPoll]
        BY <2>1, <3>1 DEF Handle, Fetching, MailInv, MailType, PollShape
      <4>2. poll[p].last \in 0..Len(box) /\ poll[p].next \in Nat /\ Len(box) \in Nat
        BY <3>1, <4>1 DEF Uid, MailInv, MailType
      <4> QED
        BY <4>1, <4>2
    <3>3. box[poll[p].next] \in Mails
      BY <3>1, <3>2 DEF MailInv, MailType
    <3> QED
      BY <2>1, <3>3 DEF Handle, Messages
  <2>2. ASSUME NEW c \in Calls, Webhook(c)
        PROVE  \E m \in Messages : ProcessOrLeave(m)
    BY <2>2 DEF Webhook, Messages
  <2>3. ASSUME NEW c \in Businesses, Meets(c)
        PROVE  /\ moves' > moves
               /\ status[b] = "meeting" => status'[b] # "replied"
               /\ deal[b] = "meeting" => deal'[b] = "meeting"
    BY <2>0, <2>3 DEF Meets, RecordOK
  <2>4. (\E m \in Messages : ProcessOrLeave(m)) \/ UNCHANGED record
          \/ \E c \in Businesses : Meets(c)
    BY <2>1, <2>2 DEF Next, Poller, Open, Begin, Save, Dies, Arrives, Renumber
  <2> QED
    BY <2>u, <2>s, <2>3, <2>4
<1> QED
  BY Invariance, <1>1, PTL DEF Spec, RepliesReviveNobody
=============================================================================
