---------------------------- MODULE InboundPolling ----------------------------
(***************************************************************************)
(* How an answer of a business reaches the factory.  A scheduled job polls *)
(* a mailbox from a persisted UID cursor (workers/replies.ts), a webhook   *)
(* takes what arrives over WhatsApp (outreach/wahaInbound.ts), and both    *)
(* hand a message to one service that records it and its consequences in a *)
(* transaction (outreach/inbound.ts, inboundOutreachService.ts).  Polls    *)
(* are scheduled every ten minutes whether or not the last one has ended.  *)
(* What an event does to the sends of its business is Outreach's matter.   *)
(*                                                                         *)
(* The UID of a mail is its place in the mailbox.  A server that renumbers *)
(* its mailbox announces another UIDVALIDITY, here the epoch.  A message   *)
(* carries its kind, "ignored" when it matches no business, and whether it *)
(* has an id of its provider.                                              *)
(***************************************************************************)
EXTENDS Naturals, Sequences, SequencesExt

CONSTANTS
    Pollers,         \* handlers of poll-replies
    Mails,
    Old,             \* mail older than the factory, in its order
    Calls,           \* WhatsApp messages
    Businesses,
    BizOf,           \* the business a message is matched to
    KindOf,          \* "replied", "opted_out", "bounced" or "ignored"
    Keyed,           \* the messages with an id of their provider
    MaxPerPoll,      \* config.imap.maxPerPoll
    MaxFaults,       \* bound: polls that die and renumberings
    MaxCalls,        \* bound: deliveries of a WhatsApp message
    MaxMoves         \* bound: deal stages the operator sets

Messages == Mails \cup Calls
Kinds == {"replied", "opted_out", "bounced", "ignored"}

ASSUME PollingConstants ==
    /\ Mails \cap Calls = {}
    /\ BizOf \in [Messages -> Businesses]
    /\ KindOf \in [Messages -> Kinds]
    /\ Keyed \subseteq Messages
    /\ Old \in Seq(Mails)
    /\ MaxPerPoll \in Nat \ {0}
    /\ {MaxFaults, MaxCalls, MaxMoves} \subseteq Nat

\* REPLY_STATES_TO_PRESERVE, those of them that are reached here
Preserved == {"meeting", "do_not_contact"}
Statuses == Preserved \cup {"contacted", "replied"}
NoCursor == [epoch |-> 0, uid |-> 0]
Idle == [at |-> "idle", epoch |-> 0, next |-> 0, last |-> 0, max |-> 0, count |-> 0]

VARIABLES
    box,        \* the mailbox
    epoch,      \* its UIDVALIDITY
    cursor,     \* settings: imap.cursor
    poll,       \* what a poller has in memory
    calls,      \* how often a WhatsApp message was delivered
    events,     \* rows of outreach_events, by message: none, one or more
    notices,    \* notifications of the operator, by message: none, one or more
    status,
    deal,
    dnc,        \* do_not_contact: businesses
    thread,     \* the message that was answered
    followups,  \* businesses whose follow-ups are scheduled
    moves,
    faults,
    looked,     \* history: mails a poll has looked at
    passed      \* history: mails that were there when a numbering was begun anew

mailbox == <<box, epoch>>
business == <<status, deal, dnc, thread, followups>>
record == <<events, notices, business>>
history == <<looked, passed>>
vars == <<mailbox, cursor, poll, calls, record, moves, faults, history>>

Uid == 0..Len(box)

TypeOK ==
    /\ box \in Seq(Mails)
    /\ epoch \in 1..(MaxFaults + 1)
    /\ cursor \in [epoch : 0..epoch, uid : Uid]
    /\ poll \in [Pollers -> [at : {"idle", "opened", "fetching"}, epoch : 0..epoch,
                             next : 0..(Len(box) + 1), last : Uid, max : Uid,
                             count : 0..MaxPerPoll]]
    /\ calls \in [Calls -> 0..MaxCalls]
    /\ events \in [Messages -> 0..2]
    /\ notices \in [Messages -> 0..2]
    /\ status \in [Businesses -> Statuses]
    /\ deal \in [Businesses -> {"contacted", "replied", "meeting"}]
    /\ dnc \subseteq Businesses
    /\ thread \in [Businesses -> {"delivered", "failed"}]
    /\ followups \subseteq Businesses
    /\ moves \in 0..MaxMoves
    /\ faults \in 0..MaxFaults
    /\ looked \subseteq Mails
    /\ passed \subseteq Mails

\* Every business was written to.  The mailbox may be new.
Init ==
    /\ box \in {<<>>, Old}
    /\ epoch = 1
    /\ cursor = NoCursor
    /\ poll = [p \in Pollers |-> Idle]
    /\ calls = [c \in Calls |-> 0]
    /\ events = [m \in Messages |-> 0]
    /\ notices = [m \in Messages |-> 0]
    /\ status = [b \in Businesses |-> "contacted"]
    /\ deal = [b \in Businesses |-> "contacted"]
    /\ dnc = {}
    /\ thread = [b \in Businesses |-> "delivered"]
    /\ followups = Businesses
    /\ moves = 0
    /\ faults = 0
    /\ looked = {}
    /\ passed = {}

-----------------------------------------------------------------------------
(***************************************************************************)
(* The service.                                                            *)
(***************************************************************************)

OneMore(n) == IF n < 2 THEN n + 1 ELSE n

\* The unique key of the event, if it has one, is not taken.
Claims(m) == m \in Keyed => events[m] = 0

Preserves(b) == status[b] \in Preserved

\* The operator hears of a reply once it is committed, if he can be reached.
Replied(m) ==
    LET b == BizOf[m] IN
    /\ status' = [status EXCEPT ![b] = IF Preserves(b) THEN @ ELSE "replied"]
    /\ deal' = [deal EXCEPT ![b] = IF Preserves(b) THEN @ ELSE "replied"]
    /\ \E heard \in BOOLEAN : notices' = [notices EXCEPT ![m] = IF heard THEN OneMore(@) ELSE @]
    /\ UNCHANGED <<dnc, thread>>

OptedOut(m) ==
    LET b == BizOf[m] IN
    /\ status' = [status EXCEPT ![b] = "do_not_contact"]
    /\ dnc' = dnc \cup {b}
    /\ UNCHANGED <<deal, notices, thread>>

Bounced(m) ==
    /\ thread' = [thread EXCEPT ![BizOf[m]] = "failed"]
    /\ UNCHANGED <<status, deal, dnc, notices>>

\* processInbound: the event, its consequences and the follow-ups in one
\* transaction, or nothing when the event is known.
Process(m) ==
    IF KindOf[m] # "ignored" /\ Claims(m)
    THEN /\ events' = [events EXCEPT ![m] = OneMore(@)]
         /\ followups' = followups \ {BizOf[m]}
         /\ CASE KindOf[m] = "replied" -> Replied(m)
              [] KindOf[m] = "opted_out" -> OptedOut(m)
              [] KindOf[m] = "bounced" -> Bounced(m)
    ELSE UNCHANGED record

\* Mutant of ProcessOrLeave: the event is committed before its consequences.
ProcessByHalves(m) ==
    \/ Process(m)
    \/ /\ KindOf[m] # "ignored"
       /\ events' = [events EXCEPT ![m] = IF Claims(m) THEN OneMore(@) ELSE @]
       /\ UNCHANGED <<notices, business>>

\* A message that cannot be parsed or recorded is logged and left.
ProcessOrLeave(m) == Process(m) \/ UNCHANGED record

-----------------------------------------------------------------------------
(***************************************************************************)
(* The poll.                                                               *)
(***************************************************************************)

\* The mailbox is opened: its UIDVALIDITY and the UID of the next mail to come.
Open(p) ==
    /\ poll[p].at = "idle"
    /\ poll' = [poll EXCEPT ![p] =
           [Idle EXCEPT !.at = "opened", !.epoch = epoch, !.next = Len(box) + 1]]
    /\ UNCHANGED <<mailbox, cursor, calls, record, moves, faults, history>>

SameEpoch(p) == cursor.epoch = poll[p].epoch

\* The cursor is read and the mail newer than it asked for.  Without a cursor of
\* this numbering the poll begins where the mailbox ended when it was opened.
Begin(p) ==
    LET start == IF SameEpoch(p) THEN cursor.uid + 1 ELSE poll[p].next IN
    /\ poll[p].at = "opened"
    /\ poll' = [poll EXCEPT ![p].at = "fetching", ![p].next = start,
                            ![p].max = start - 1, ![p].last = Len(box)]
    /\ passed' = IF SameEpoch(p) THEN passed
                 ELSE passed \cup ({box[i] : i \in 1..(start - 1)} \ looked)
    /\ UNCHANGED <<mailbox, cursor, calls, record, moves, faults, looked>>

\* Mutant of Full: one mail too many.
FullLate(p) == poll[p].count > MaxPerPoll

Full(p) == poll[p].count >= MaxPerPoll
Fetching(p) == poll[p].at = "fetching" /\ poll[p].next <= poll[p].last /\ ~Full(p)

\* Mutant of MaxUid: the mail is not counted.
MaxUidBefore(p) == poll[p].max

MaxUid(p) == poll[p].next

\* The next mail.  The poll goes on whatever comes of it.
Handle(p) ==
    /\ Fetching(p)
    /\ \E m \in {box[poll[p].next]} :
           /\ ProcessOrLeave(m)
           /\ looked' = looked \cup {m}
    /\ poll' = [poll EXCEPT ![p].next = @ + 1, ![p].max = MaxUid(p), ![p].count = @ + 1]
    /\ UNCHANGED <<mailbox, cursor, calls, moves, faults, passed>>

\* Everything is read, or enough for one poll: the cursor moves.
Save(p) ==
    /\ poll[p].at = "fetching"
    /\ ~Fetching(p)
    /\ cursor' = IF poll[p].max > 0 THEN [epoch |-> poll[p].epoch, uid |-> poll[p].max]
                 ELSE cursor
    /\ poll' = [poll EXCEPT ![p] = Idle]
    /\ UNCHANGED <<mailbox, calls, record, moves, faults, history>>

Poller(p) == Open(p) \/ Begin(p) \/ Handle(p) \/ Save(p)

-----------------------------------------------------------------------------
(***************************************************************************)
(* What happens around it.                                                 *)
(***************************************************************************)

\* The poll's process or its connection dies.
Dies(p) ==
    /\ faults < MaxFaults
    /\ poll[p].at # "idle"
    /\ poll' = [poll EXCEPT ![p] = Idle]
    /\ faults' = faults + 1
    /\ UNCHANGED <<mailbox, cursor, calls, record, moves, history>>

Arrives(m) ==
    /\ m \notin ToSet(box) \cup ToSet(Old)
    /\ box' = Append(box, m)
    /\ UNCHANGED <<epoch, cursor, poll, calls, record, moves, faults, history>>

\* The server numbers the mailbox anew, which it does not while it is open.
Renumber ==
    /\ faults < MaxFaults
    /\ \A p \in Pollers : poll[p].at = "idle"
    /\ epoch' = epoch + 1
    /\ faults' = faults + 1
    /\ UNCHANGED <<box, cursor, poll, calls, record, moves, history>>

\* A webhook is always answered with 200; a message may be delivered twice.
Webhook(c) ==
    /\ calls[c] < MaxCalls
    /\ calls' = [calls EXCEPT ![c] = @ + 1]
    /\ ProcessOrLeave(c)
    /\ UNCHANGED <<mailbox, cursor, poll, moves, faults, history>>

\* The operator sets a deal stage, whatever the status.
Meets(b) ==
    /\ moves < MaxMoves
    /\ moves' = moves + 1
    /\ status' = [status EXCEPT ![b] = "meeting"]
    /\ deal' = [deal EXCEPT ![b] = "meeting"]
    /\ UNCHANGED <<mailbox, cursor, poll, calls, events, notices, dnc, thread, followups,
                   faults, history>>

Next ==
    \/ \E p \in Pollers : Poller(p) \/ Dies(p)
    \/ \E m \in Mails : Arrives(m)
    \/ Renumber
    \/ \E c \in Calls : Webhook(c)
    \/ \E b \in Businesses : Meets(b)

Spec == Init /\ [][Next]_vars

\* The schedule brings a poll every ten minutes, and a poll ends or dies.
FairSpec == Spec /\ \A p \in Pollers : WF_vars(Poller(p))

-----------------------------------------------------------------------------
(***************************************************************************)
(* Properties.                                                             *)
(***************************************************************************)

\* The cursor never passes a mail no poll has looked at, although polls overlap,
\* die and stop at their limit; only what was there when a numbering was begun
\* anew is passed over.
CursorCovers ==
    cursor.epoch = epoch => \A i \in 1..cursor.uid : box[i] \in looked \cup passed

\* docs/OUTREACH.md:223-225: however often a message with an id of its provider
\* is read, by however many polls or deliveries, there is one event of it and at
\* most one notification.  Since a message whose event is recorded is not taken up
\* again, the event is never there without its consequences.
CountedOnce ==
    /\ \A m \in Keyed : events[m] <= 1 /\ notices[m] <= events[m]
    /\ \A m \in Messages : events[m] > 0 =>
          /\ BizOf[m] \notin followups
          /\ KindOf[m] = "replied" => status[BizOf[m]] # "contacted"
          /\ KindOf[m] = "opted_out" => BizOf[m] \in dnc
          /\ KindOf[m] = "bounced" => thread[BizOf[m]] = "failed"

\* What the operator decided, or the business forbade, is not undone by a reply,
\* be it read late, again, or without an id that would give it away.
RepliesReviveNobody ==
    [][\A b \in Businesses :
          /\ status[b] = "do_not_contact" => status'[b] = status[b] \/ moves' > moves
          /\ status[b] = "meeting" => status'[b] # "replied"
          /\ deal[b] = "meeting" => deal'[b] = "meeting"]_vars

\* Every mail is looked at, unless it was there before the cursor.
EveryMailRead == \A m \in Mails : m \in ToSet(box) ~> m \in looked \cup passed

(***************************************************************************)
(* What a comment says and the code does not do.                           *)
(***************************************************************************)

\* workers/replies.ts:110-111: without a cursor of its numbering a poll starts from
\* "now", and the polls that follow go on from there.  But a poll of a mailbox that
\* never held a mail saves no cursor: the next one starts from its own now and
\* passes over the mail that came in between.
StartsFromNow == [][\A p \in Pollers : Save(p) => cursor'.epoch = epoch]_vars
=============================================================================
