---------------------------- MODULE OutreachProofs ----------------------------
(***************************************************************************)
(* What the outreach guarantees for any number of businesses, approvals,   *)
(* follow-ups, faults and commands, checked by TLAPS.  The invariant OInv  *)
(* is a conjunction of five parts, proved one after the other.  Most parts *)
(* speak of one message: StepKinds says that a step is a step of its       *)
(* handler or leaves it alone but for what Beside allows, and OneWay what  *)
(* nobody takes back.                                                      *)
(***************************************************************************)
EXTENDS Outreach, FiniteSetTheorems, TLAPS

\* The keys and the businesses they belong to.
LEMMA KeyFacts ==
    /\ \A k \in Keys : k[1] \in Approvals /\ BizOfKey(k) \in Businesses /\ BizOfKey(k) = BizOf[k[1]]
    /\ \A a \in Approvals : /\ <<a, 0>> \in Keys /\ <<a, 0>>[1] = a /\ IsInitial(<<a, 0>>)
                            /\ BizOf[a] \in Businesses
    /\ \A k \in Keys : IsInitial(k) => k = <<k[1], 0>>
    /\ \A k \in Keys, b \in Businesses : k \in KeysOf(b) <=> BizOfKey(k) = b
BY OutreachConstants DEF Keys, BizOfKey, IsInitial, KeysOf

\* The steps of a handler that change nothing but where it is.
Walks(k) ==
    \/ ReadApproval(k) \/ ReadStatus(k)
    \/ ReadInitial(k) \/ StatusGate(k) \/ DealGate(k) \/ EventsGate(k) \/ DncGate(k)
    \/ ReserveDuplicate(k) \/ ReserveOverBudget(k)
    \/ HandOver(k) \/ DryRun(k) \/ FinalizeNone(k)

Sends(k) == SendAccepted(k) \/ SendRefused(k) \/ SendAmbiguous(k)

Records(k) == FinalizeInitial(k) \/ FinalizeFollowup(k) \/ MarkFailure(k)

LEMMA HandlerCases ==
    \A k \in Keys : Handler(k) <=> \/ Start(k) \/ Walks(k) \/ ReadDnc(k) \/ Reserve(k)
                                   \/ Sends(k) \/ Records(k)
BY DEF Handler, Walks, Sends, Records

LEMMA SendCases ==
    \A k \in Keys : Sends(k) =>
        \E left \in {0, 1}, outcome \in {"finalize", "unsent", "unknown"} :
            /\ SendLive(k, left, outcome)
            /\ left = 1 => outcome # "unsent"
BY DEF Sends, SendAccepted, SendRefused, SendAmbiguous

LEMMA ThrowFacts == \A k \in Keys : AfterThrow(k) \in {"queued", "failed"}
BY DEF AfterThrow

-----------------------------------------------------------------------------
(***************************************************************************)
(* Types.                                                                  *)
(***************************************************************************)

LEMMA TypeInit == Init => TypeOK
BY OutreachConstants DEF Init, TypeOK, Statuses, DealStates, MessageState, Waiting, Over

LEMMA TypeNext ==
    ASSUME TypeOK, [Next]_vars
    PROVE  TypeOK'
<1> USE KeyFacts
<1>p. DealStates \subseteq Statuses /\ Stages \subseteq DealStates /\ Overrides \subseteq Statuses
  BY OutreachConstants DEF Statuses
<1>q. {"queued", "done", "failed", "cancelled", "lost", "none"} \subseteq Waiting \cup Over
  BY DEF Waiting, Over
<1>1. ASSUME NEW a \in Approvals, RequestApproval(a) PROVE TypeOK'
  BY <1>1 DEF RequestApproval, TypeOK, business, message, handler, memory, history, context, setting
<1>2. ASSUME NEW a \in Approvals, Approve(a) PROVE TypeOK'
  BY <1>2, <1>q DEF Approve, TypeOK, Statuses, message, memory, history, context, setting
<1>3. ASSUME NEW a \in Approvals, Reject(a) PROVE TypeOK'
  BY <1>3 DEF Reject, TypeOK, Statuses, message, handler, memory, history, context, setting
<1>w. ASSUME NEW jobs \in [Keys -> Waiting \cup Over \cup Steps], NEW a \in Approvals,
             Contacted(a, jobs)
      PROVE  /\ status' \in [Businesses -> Statuses]
             /\ deal' \in [Businesses -> DealStates \cup {"none"}]
             /\ at' \in [Keys -> Waiting \cup Over \cup Steps]
  BY <1>w, <1>q DEF Contacted, WithFollowups, TypeOK, Statuses, DealStates
<1>4. ASSUME NEW a \in Approvals, ConfirmManualSend(a) PROVE TypeOK'
  <2>1. at \in [Keys -> Waiting \cup Over \cup Steps] /\ Contacted(a, at)
    BY <1>4 DEF ConfirmManualSend, TypeOK
  <2>2. /\ status' \in [Businesses -> Statuses]
        /\ deal' \in [Businesses -> DealStates \cup {"none"}]
        /\ at' \in [Keys -> Waiting \cup Over \cup Steps]
    BY <1>w, <2>1
  <2> QED
    BY <1>4, <2>2 DEF ConfirmManualSend, TypeOK, MessageState, approval, memory, history, context, setting
<1>5. ASSUME NEW b \in Businesses,
             \/ MarkDoNotContact(b)
             \/ \E s \in Stages : UpdateDealStage(b, s)
             \/ \E s \in Overrides : OverrideStatus(b, s)
      PROVE  TypeOK'
  BY <1>5, <1>p DEF MarkDoNotContact, UpdateDealStage, OverrideStatus, TypeOK, Statuses,
                    approval, message, handler, memory, history, context, setting
<1>6. ASSUME NEW k \in Keys, Requeue(k) PROVE TypeOK'
  BY <1>6, <1>q DEF Requeue, TypeOK, business, approval, message, memory, history, setting
<1>7. ASSUME SwitchMode PROVE TypeOK'
  BY <1>7 DEF SwitchMode, TypeOK, business, approval, message, handler, memory, history
<1>8. ASSUME NEW b \in Businesses, Reply(b) \/ OptOut(b) PROVE TypeOK'
  <2>1. at' \in [Keys -> Waiting \cup Over \cup Steps]
    BY <1>8, <1>q DEF Reply, OptOut, CancelFollowups, TypeOK
  <2>2. events' \in [Businesses -> SUBSET Events] /\ dnc' \in SUBSET Businesses
    BY <1>8 DEF Reply, OptOut, TypeOK, Events
  <2>3. "replied" \in DealStates /\ {"replied", "do_not_contact"} \subseteq Statuses
    BY DEF DealStates, Statuses
  <2>5. \E x \in Statuses, y \in DealStates \cup {"none"} :
            status' = [status EXCEPT ![b] = x] /\ deal' = [deal EXCEPT ![b] = y]
    <3>1. status[b] \in Statuses /\ deal[b] \in DealStates \cup {"none"} /\ deal = [deal EXCEPT ![b] = deal[b]]
      BY DEF TypeOK
    <3> QED
      BY <1>8, <2>3, <3>1 DEF Reply, OptOut
  <2>6. status' \in [Businesses -> Statuses] /\ deal' \in [Businesses -> DealStates \cup {"none"}]
    BY <2>5 DEF TypeOK
  <2>4. UNCHANGED <<approval, message, tries, saw, memory, history, context>>
    BY <1>8 DEF Reply, OptOut
  <2> QED
    BY <2>1, <2>2, <2>4, <2>6 DEF TypeOK, approval, message, memory, history, context, setting
<1>9. ASSUME NEW b \in Businesses, Bounce(b) PROVE TypeOK'
  <2>1. at' \in [Keys -> Waiting \cup Over \cup Steps]
    BY <1>9, <1>q DEF Bounce, CancelFollowups, TypeOK
  <2>2. events' \in [Businesses -> SUBSET Events]
    BY <1>9 DEF Bounce, TypeOK, Events
  <2>3. msg' \in [Keys -> MessageState]
    <3>1. UNCHANGED msg \/ \E m \in Keys : msg' = [msg EXCEPT ![m] = "failed"]
      BY <1>9 DEF Bounce, KeysOf
    <3> QED
      BY <3>1 DEF TypeOK, MessageState
  <2>4. UNCHANGED <<status, deal, dnc, approval, thread, recent, tries, saw, memory, history, context>>
    BY <1>9 DEF Bounce
  <2> QED
    BY <2>1, <2>2, <2>3, <2>4 DEF TypeOK, approval, memory, history, context, setting
<1>10. ASSUME NEW k \in Keys, DatabaseError(k) \/ FinalizeFails(k) PROVE TypeOK'
  <2>1. \E place \in Waiting \cup Over \cup Steps : at' = [at EXCEPT ![k] = place]
    BY <1>10, <1>q, ThrowFacts DEF DatabaseError, FinalizeFails, Goto, Steps
  <2>2. faults' = faults + 1 /\ UNCHANGED <<setting, requeues, switches>>
        /\ UNCHANGED <<business, approval, message, tries, saw, memory, history>>
    BY <1>10 DEF DatabaseError, FinalizeFails, MayFail
  <2> QED
    BY <2>1, <2>2 DEF TypeOK, business, approval, message, memory, history, setting
<1>11. ASSUME Crash PROVE TypeOK'
  BY <1>11, <1>q DEF Crash, MayFail, TypeOK, business, approval, message, memory, history, setting
<1>12. ASSUME NEW k \in Keys, AgeOut(k) PROVE TypeOK'
  BY <1>12 DEF AgeOut, TypeOK, business, approval, handler, memory, history, context, setting
<1>13. ASSUME NEW k \in Keys, Start(k) PROVE TypeOK'
  <2>1. \E x, y \in BOOLEAN : /\ stopped' = [stopped EXCEPT ![k] = x]
                             /\ mode' = [mode EXCEPT ![k] = y]
    <3> DEFINE x == BizOfKey(k) \in dnc \/ (~IsInitial(k) /\ events[BizOfKey(k)] # {})
               y == IF IsInitial(k) THEN mode[k] ELSE Live(k)
    <3>1. x \in BOOLEAN /\ y \in BOOLEAN
      BY DEF Live, TypeOK
    <3>2. stopped' = [stopped EXCEPT ![k] = x]
      BY <1>13, Zenon DEF Start
    <3>3. mode' = [mode EXCEPT ![k] = y]
      BY <1>13, Zenon DEF Start
    <3> HIDE DEF x, y
    <3> QED
      BY <3>1, <3>2, <3>3
  <2>2. /\ stopped' \in [Keys -> BOOLEAN] /\ mode' \in [Keys -> BOOLEAN]
    BY <2>1 DEF TypeOK
  <2>3. /\ at' = [at EXCEPT ![k] = IF IsInitial(k) THEN "approval" ELSE "initial"]
        /\ tries' = [tries EXCEPT ![k] = @ + 1]
        /\ UNCHANGED <<business, approval, message, saw, history, context>>
    BY <1>13 DEF Start, Goto
  <2> QED
    BY <2>2, <2>3 DEF TypeOK, Steps, Reading, business, approval, message, history, context, setting
<1>14. ASSUME NEW k \in Keys, Walks(k) PROVE TypeOK'
  <2>1. /\ \E place \in Waiting \cup Over \cup Steps : at' = [at EXCEPT ![k] = place]
        /\ \/ UNCHANGED <<saw, mode>>
           \/ \E a \in Approvals \cup {NoApproval} : saw' = [saw EXCEPT ![k] = a] /\ UNCHANGED mode
           \/ mode' = [mode EXCEPT ![k] = Live(k)] /\ UNCHANGED saw
        /\ UNCHANGED <<business, approval, message, tries, stopped, history, context>>
    BY <1>14, <1>q, ThrowFacts
       DEF Walks, ReadApproval, ReadStatus, ReadInitial, Gate, StatusGate, DealGate, EventsGate,
           DncGate, ReserveDuplicate, ReserveOverBudget, HandOver, DryRun, FinalizeNone, Goto,
           Steps, Reading, TypeOK, memory
  <2>2. saw' \in [Keys -> Approvals \cup {NoApproval}]
    BY <2>1 DEF TypeOK
  <2>3. mode' \in [Keys -> BOOLEAN]
    <3>1. Live(k) \in BOOLEAN
      BY DEF Live, TypeOK
    <3> HIDE DEF Live
    <3> QED
      BY <2>1, <3>1 DEF TypeOK
  <2>4. at' \in [Keys -> Waiting \cup Over \cup Steps]
    BY <2>1 DEF TypeOK
  <2> QED
    BY <2>1, <2>2, <2>3, <2>4 DEF TypeOK, business, approval, message, history, context, setting
<1>15. ASSUME NEW k \in Keys, ReadDnc(k) PROVE TypeOK'
  BY <1>15, <1>q DEF ReadDnc, Goto, TypeOK, Statuses, Steps, Reading, approval, message, memory,
                     history, context, setting
<1>16. ASSUME NEW k \in Keys, Reserve(k) PROVE TypeOK'
  BY <1>16 DEF Reserve, Goto, TypeOK, MessageState, Steps, business, approval, memory,
               history, context, setting
<1>17. ASSUME NEW k \in Keys, Sends(k) PROVE TypeOK'
  <2>1. PICK left \in {0, 1}, outcome \in {"finalize", "unsent", "unknown"} :
            SendLive(k, left, outcome)
    BY <1>17, SendCases
  <2> QED
    BY <2>1 DEF SendLive, Goto, TypeOK, Steps, business, approval, message, memory, context, setting
<1>18. ASSUME NEW k \in Keys, FinalizeInitial(k) PROVE TypeOK'
  <2> DEFINE over == [at EXCEPT ![k] = "done"]
  <2>1. over \in [Keys -> Waiting \cup Over \cup Steps]
    BY <1>q DEF TypeOK
  <2>2. /\ RecordResult(k)
        /\ Contacted(k[1], over) \/ (at' = over /\ UNCHANGED <<status, deal>>)
        /\ UNCHANGED <<dnc, events, approval, thread, tries, saw, memory, history, context>>
    BY <1>18 DEF FinalizeInitial
  <2> HIDE DEF over
  <2>3. /\ status' \in [Businesses -> Statuses]
        /\ deal' \in [Businesses -> DealStates \cup {"none"}]
        /\ at' \in [Keys -> Waiting \cup Over \cup Steps]
    BY <1>w, <2>1, <2>2 DEF TypeOK
  <2> QED
    BY <2>2, <2>3 DEF RecordResult, Result, TypeOK, MessageState, approval, memory, history,
                      context, setting
<1>19. ASSUME NEW k \in Keys, FinalizeFollowup(k) PROVE TypeOK'
  BY <1>19, <1>q DEF FinalizeFollowup, RecordResult, Result, Goto, TypeOK, MessageState, business,
                     approval, memory, history, context, setting
<1>20. ASSUME NEW k \in Keys, MarkFailure(k) PROVE TypeOK'
  BY <1>20, <1>q, ThrowFacts DEF MarkFailure, Goto, TypeOK, MessageState, business, approval,
                     memory, history, context, setting
<1>21. CASE UNCHANGED vars
  BY <1>21 DEF vars, TypeOK, business, approval, message, handler, memory, history, context, setting
<1> QED
  BY <1>1, <1>2, <1>3, <1>4, <1>5, <1>6, <1>7, <1>8, <1>9, <1>10, <1>11, <1>12, <1>13, <1>14,
     <1>15, <1>16, <1>17, <1>18, <1>19, <1>20, <1>21, HandlerCases
     DEF Next, Operator, Inbound, Failure, Records
-----------------------------------------------------------------------------
(***************************************************************************)
(* What a step does to a message whose handler does not take it.           *)
(***************************************************************************)

Outside == Waiting \cup Over

\* A step of somebody else: the job of j rests or is taken off its handler, what its
\* handler remembers stays, and its row changes only by the operator's confirmation or
\* by a bounce.
Beside(j) ==
    /\ at'[j] = at[j] \/ at'[j] \in Outside
    /\ saw'[j] = saw[j] /\ mode'[j] = mode[j] /\ stopped'[j] = stopped[j]
    /\ calls'[j] = calls[j] /\ wire'[j] = wire[j]
    /\ \/ msg'[j] = msg[j]
       \/ msg[j] = "manual_pending" /\ msg'[j] = "sent"
       \/ msg'[j] = "failed" /\ wire[j] > 0 /\ "bounced" \in events'[BizOfKey(j)]
    /\ recent'[j] => recent[j] \/ msg[j] = "manual_pending"
    /\ recent[j] => recent'[j] \/ at[j] \notin Steps

LEMMA ContactedBeside ==
    ASSUME TypeOK, NEW a \in Approvals, NEW jobs \in [Keys -> Waiting \cup Over \cup Steps],
           Contacted(a, jobs), NEW j \in Keys
    PROVE  at'[j] = jobs[j] \/ at'[j] = "queued"
BY DEF Contacted, WithFollowups

\* Every step is a step of the handler of j, or beside it.
LEMMA StepKinds ==
    ASSUME TypeOK, [Next]_vars, NEW j \in Keys
    PROVE  Handler(j) \/ FinalizeFails(j) \/ Beside(j)
<1> USE KeyFacts
<1>q. {"queued", "done", "failed", "cancelled", "lost", "none"} \subseteq Outside
  BY DEF Outside, Waiting, Over
<1>1. ASSUME NEW a \in Approvals, RequestApproval(a) \/ Reject(a) PROVE Beside(j)
  BY <1>1 DEF RequestApproval, Reject, Beside, message, handler, memory, history
<1>2. ASSUME NEW a \in Approvals, Approve(a) PROVE Beside(j)
  <2>1. at'[j] = at[j] \/ at'[j] = "queued"
    BY <1>2 DEF Approve, TypeOK
  <2> QED
    BY <1>2, <1>q, <2>1 DEF Approve, Beside, message, memory, history
<1>3. ASSUME NEW a \in Approvals, ConfirmManualSend(a) PROVE Beside(j)
  <2>1. at'[j] = at[j] \/ at'[j] = "queued"
    BY <1>3, ContactedBeside DEF ConfirmManualSend, TypeOK
  <2>2. /\ msg[<<a, 0>>] = "manual_pending"
        /\ msg' = [msg EXCEPT ![<<a, 0>>] = "sent"]
        /\ recent' = [recent EXCEPT ![<<a, 0>>] = TRUE]
        /\ UNCHANGED <<saw, memory, history>>
    BY <1>3 DEF ConfirmManualSend
  <2>3. /\ msg'[j] = msg[j] \/ (msg[j] = "manual_pending" /\ msg'[j] = "sent")
        /\ recent'[j] => recent[j] \/ msg[j] = "manual_pending"
        /\ recent[j] => recent'[j]
    BY <2>2 DEF TypeOK
  <2> QED
    BY <1>q, <2>1, <2>2, <2>3 DEF Beside, memory, history
<1>4. ASSUME NEW b \in Businesses,
             \/ MarkDoNotContact(b)
             \/ \E s \in Stages : UpdateDealStage(b, s)
             \/ \E s \in Overrides : OverrideStatus(b, s)
      PROVE  Beside(j)
  BY <1>4 DEF MarkDoNotContact, UpdateDealStage, OverrideStatus, Beside, message, handler, memory,
              history
<1>5. ASSUME NEW k \in Keys, Requeue(k) PROVE Beside(j)
  <2>1. at'[j] = at[j] \/ at'[j] = "queued"
    BY <1>5 DEF Requeue, TypeOK
  <2> QED
    BY <1>5, <1>q, <2>1 DEF Requeue, Beside, message, memory, history
<1>6. ASSUME SwitchMode PROVE Beside(j)
  BY <1>6 DEF SwitchMode, Beside, message, handler, memory, history
<1>7. ASSUME NEW b \in Businesses, Reply(b) \/ OptOut(b) PROVE Beside(j)
  <2>1. at'[j] = at[j] \/ at'[j] = "cancelled"
    BY <1>7 DEF Reply, OptOut, CancelFollowups
  <2> QED
    BY <1>7, <1>q, <2>1 DEF Reply, OptOut, Beside, message, memory, history
<1>8. ASSUME NEW b \in Businesses, Bounce(b) PROVE Beside(j)
  <2>1. at'[j] = at[j] \/ at'[j] = "cancelled"
    BY <1>8 DEF Bounce, CancelFollowups
  <2>2. \/ msg'[j] = msg[j]
        \/ msg'[j] = "failed" /\ wire[j] > 0 /\ "bounced" \in events'[BizOfKey(j)]
    <3>1. CASE UNCHANGED msg
      BY <3>1
    <3>2. CASE \E m \in KeysOf(b) : wire[m] > 0 /\ msg' = [msg EXCEPT ![m] = "failed"]
      <4>1. PICK m \in KeysOf(b) : wire[m] > 0 /\ msg' = [msg EXCEPT ![m] = "failed"]
        BY <3>2
      <4>2. m \in Keys /\ BizOfKey(m) = b
        BY DEF KeysOf
      <4>3. "bounced" \in events'[b]
        BY <1>8 DEF Bounce, TypeOK
      <4> QED
        BY <4>1, <4>2, <4>3 DEF TypeOK
    <3> QED
      BY <1>8, <3>1, <3>2 DEF Bounce
  <2> QED
    BY <1>8, <1>q, <2>1, <2>2 DEF Bounce, Beside, memory, history
<1>9. ASSUME NEW k \in Keys, DatabaseError(k) PROVE Beside(j)
  <2>1. at'[j] = at[j] \/ at'[j] \in Outside
    BY <1>9, <1>q, ThrowFacts DEF DatabaseError, Goto, TypeOK
  <2> QED
    BY <1>9, <2>1 DEF DatabaseError, Beside, message, memory, history
<1>10. ASSUME NEW k \in Keys, FinalizeFails(k), k # j PROVE Beside(j)
  <2>1. at'[j] = at[j]
    BY <1>10 DEF FinalizeFails, Goto, TypeOK
  <2> QED
    BY <1>10, <2>1 DEF FinalizeFails, Beside, message, memory, history
<1>11. ASSUME Crash PROVE Beside(j)
  <2>1. at'[j] = at[j] \/ at'[j] = "lost"
    BY <1>11 DEF Crash
  <2> QED
    BY <1>11, <1>q, <2>1 DEF Crash, Beside, message, memory, history
<1>12. ASSUME NEW k \in Keys, AgeOut(k) PROVE Beside(j)
  <2>1. (recent'[j] => recent[j]) /\ (recent[j] => recent'[j] \/ at[j] \notin Steps)
    BY <1>12 DEF AgeOut, TypeOK
  <2> QED
    BY <1>12, <2>1 DEF AgeOut, Beside, handler, memory, history
<1>13. ASSUME NEW k \in Keys, Handler(k), k # j PROVE Beside(j)
  <2>1. CASE Start(k)
    BY <1>13, <2>1 DEF Start, Goto, Beside, TypeOK, message, history
  <2>2. CASE Walks(k)
    BY <1>13, <2>2 DEF Walks, ReadApproval, ReadStatus, ReadInitial, Gate, StatusGate, DealGate,
           EventsGate, DncGate, ReserveDuplicate, ReserveOverBudget, HandOver, DryRun,
           FinalizeNone, Goto, TypeOK, Beside, message, memory, history
  <2>3. CASE ReadDnc(k)
    BY <1>13, <2>3 DEF ReadDnc, Goto, Beside, TypeOK, message, memory, history
  <2>4. CASE Reserve(k)
    BY <1>13, <2>4 DEF Reserve, Goto, Beside, TypeOK, memory, history
  <2>5. CASE Sends(k)
    <3>1. PICK left \in {0, 1}, outcome \in {"finalize", "unsent", "unknown"} :
              SendLive(k, left, outcome)
      BY <2>5, SendCases
    <3> QED
      BY <1>13, <3>1 DEF SendLive, Goto, Beside, TypeOK, message, memory
  <2>6. CASE FinalizeInitial(k)
    <3> DEFINE over == [at EXCEPT ![k] = "done"]
    <3>1. /\ over \in [Keys -> Waiting \cup Over \cup Steps]
          /\ over[j] = at[j]
      BY <1>13, <1>q DEF TypeOK, Outside
    <3>2. /\ Contacted(k[1], over) \/ at' = over
          /\ RecordResult(k) /\ UNCHANGED <<saw, memory, history>>
      BY <2>6 DEF FinalizeInitial
    <3> HIDE DEF over
    <3>3. at'[j] = at[j] \/ at'[j] = "queued"
      BY <3>1, <3>2, ContactedBeside
    <3> QED
      BY <1>13, <1>q, <3>2, <3>3 DEF RecordResult, Beside, TypeOK, memory, history
  <2>7. CASE FinalizeFollowup(k)
    BY <1>13, <2>7 DEF FinalizeFollowup, RecordResult, Goto, Beside, TypeOK, memory, history
  <2>8. CASE MarkFailure(k)
    BY <1>13, <2>8 DEF MarkFailure, Goto, Beside, TypeOK, memory, history
  <2> QED
    BY <1>13, <2>1, <2>2, <2>3, <2>4, <2>5, <2>6, <2>7, <2>8, HandlerCases DEF Records
<1>14. CASE UNCHANGED vars
  BY <1>14 DEF vars, Beside, message, handler, memory, history
<1> QED
  BY <1>1, <1>2, <1>3, <1>4, <1>5, <1>6, <1>7, <1>8, <1>9, <1>10, <1>11, <1>12, <1>13, <1>14
     DEF Next, Operator, Inbound, Failure

\* Nobody takes an event, a prohibition or an approval back.
LEMMA OneWay ==
    ASSUME TypeOK, [Next]_vars
    PROVE  /\ dnc \subseteq dnc'
           /\ \A b \in Businesses : events[b] \subseteq events'[b]
           /\ \A a \in Approvals : decision[a] = "approved" => decision'[a] = "approved"
           /\ manual' = manual
<1> USE DEF business, approval, context, setting
<1>1. ASSUME NEW a \in Approvals,
             RequestApproval(a) \/ Approve(a) \/ Reject(a) \/ ConfirmManualSend(a)
      PROVE  /\ UNCHANGED <<dnc, events, manual>>
             /\ \A c \in Approvals : decision[c] = "approved" => decision'[c] = "approved"
  BY <1>1 DEF RequestApproval, Approve, Reject, ConfirmManualSend, TypeOK
<1>2. ASSUME NEW b \in Businesses,
             \/ MarkDoNotContact(b)
             \/ \E s \in Stages : UpdateDealStage(b, s)
             \/ \E s \in Overrides : OverrideStatus(b, s)
             \/ Reply(b) \/ OptOut(b) \/ Bounce(b)
      PROVE  /\ dnc \subseteq dnc' /\ UNCHANGED <<decision, manual>>
             /\ \A c \in Businesses : events[c] \subseteq events'[c]
  BY <1>2 DEF MarkDoNotContact, UpdateDealStage, OverrideStatus, Reply, OptOut, Bounce, TypeOK
<1>3. ASSUME NEW k \in Keys,
             Requeue(k) \/ DatabaseError(k) \/ FinalizeFails(k) \/ AgeOut(k) \/ Handler(k)
      PROVE  UNCHANGED <<dnc, events, decision, manual>>
  <2>1. CASE Handler(k)
    BY <2>1 DEF Handler, Start, ReadApproval, ReadStatus, ReadDnc, ReadInitial, Gate, StatusGate,
       DealGate, EventsGate, DncGate, ReserveDuplicate, ReserveOverBudget, Reserve, HandOver, DryRun,
       SendAccepted, SendRefused, SendAmbiguous, SendLive, FinalizeNone, FinalizeInitial,
       FinalizeFollowup, MarkFailure
  <2> QED
    BY <1>3, <2>1 DEF Requeue, DatabaseError, FinalizeFails, MayFail, AgeOut
<1>4. ASSUME SwitchMode \/ Crash \/ UNCHANGED vars
      PROVE  UNCHANGED <<dnc, events, decision, manual>>
  BY <1>4 DEF SwitchMode, Crash, MayFail, vars
<1> QED
  BY <1>1, <1>2, <1>3, <1>4 DEF Next, Operator, Inbound, Failure

\* The steps of a handler that write no row.
LEMMA WalksEffect ==
    ASSUME TypeOK, NEW j \in Keys, Walks(j)
    PROVE  /\ UNCHANGED <<business, approval, message, stopped, history>>
           /\ at'[j] # "transport" /\ at'[j] \notin {"unsent", "unknown"}
           /\ at'[j] = "finalize" => at[j] = "transport"
           /\ at'[j] = "reserve" => ~IsInitial(j) /\ at[j] = "dnc" /\ BizOfKey(j) \notin dnc
           /\ ~IsInitial(j) /\ at'[j] = "dnc" => events[BizOfKey(j)] = {}
           /\ mode'[j] = mode[j] \/ at'[j] \in {"done", "failed", "queued", "dnc"}
BY ThrowFacts DEF Walks, ReadApproval, ReadStatus, ReadInitial, Gate, StatusGate, DealGate,
       EventsGate, DncGate, ReserveDuplicate, ReserveOverBudget, HandOver, DryRun, FinalizeNone,
       Goto, TypeOK, memory

\* The last step of a handler: what becomes of a row that was reserved.
LEMMA RecordsEffect ==
    ASSUME TypeOK, NEW j \in Keys, Records(j)
    PROVE  /\ at'[j] \in {"done", "failed", "queued"}
           /\ UNCHANGED <<approval, thread, saw, memory, history, dnc, events>>
           /\ \/ /\ at[j] = "finalize" /\ msg[j] = "queued"
                 /\ msg'[j] = Result(j) /\ recent'[j]
              \/ /\ at[j] \in {"unsent", "unknown"} /\ msg[j] # "queued"
                 /\ msg'[j] = msg[j] /\ recent'[j] = recent[j]
              \/ /\ at[j] = "unsent" /\ msg[j] = "queued"
                 /\ msg'[j] = "failed" /\ recent'[j] = recent[j]
              \/ /\ at[j] = "unknown" /\ msg[j] = "queued"
                 /\ msg'[j] = "delivery_unknown" /\ recent'[j]
<1>1. CASE FinalizeInitial(j)
  <2> DEFINE over == [at EXCEPT ![j] = "done"]
  <2>1. over \in [Keys -> Waiting \cup Over \cup Steps] /\ over[j] = "done"
    BY DEF TypeOK, Over
  <2>2. Contacted(j[1], over) \/ at' = over
    BY <1>1 DEF FinalizeInitial
  <2> HIDE DEF over
  <2>3. at'[j] \in {"done", "failed", "queued"}
    BY <2>1, <2>2, ContactedBeside, KeyFacts
  <2>4. /\ at[j] = "finalize" /\ msg[j] = "queued" /\ RecordResult(j)
        /\ UNCHANGED <<approval, thread, saw, memory, history, dnc, events>>
    BY <1>1 DEF FinalizeInitial
  <2>5. msg'[j] = Result(j) /\ recent'[j]
    BY <2>4 DEF RecordResult, TypeOK
  <2> QED
    BY <2>3, <2>4, <2>5
<1>2. CASE FinalizeFollowup(j)
  <2>1. msg'[j] = Result(j) /\ recent'[j]
    BY <1>2 DEF FinalizeFollowup, RecordResult, TypeOK
  <2> QED
    BY <1>2, <2>1 DEF FinalizeFollowup, Goto, TypeOK, business
<1>3. CASE MarkFailure(j)
  BY <1>3, ThrowFacts DEF MarkFailure, Goto, TypeOK, business
<1> QED
  BY <1>1, <1>2, <1>3 DEF Records

-----------------------------------------------------------------------------
(***************************************************************************)
(* Stopped before it began.                                                *)
(***************************************************************************)

Stops(k) == BizOfKey(k) \in dnc \/ (~IsInitial(k) /\ events[BizOfKey(k)] # {})

\* What stopped a job still holds, and past the gate that asks for it the job is not stopped.
StopInv ==
    \A k \in Keys :
        /\ stopped[k] => Stops(k)
        /\ stopped[k] => at[k] \notin {"reserve", "transport"}
        /\ stopped[k] /\ ~IsInitial(k) /\ at[k] = "dnc" => BizOfKey(k) \in dnc

LEMMA StopNext ==
    ASSUME TypeOK, StopInv, [Next]_vars
    PROVE  StopInv'
<1> SUFFICES ASSUME NEW j \in Keys
             PROVE  /\ stopped'[j] => Stops(j)'
                    /\ stopped'[j] => at'[j] \notin {"reserve", "transport"}
                    /\ stopped'[j] /\ ~IsInitial(j) /\ at'[j] = "dnc" => BizOfKey(j) \in dnc'
  BY DEF StopInv, IsInitial, BizOfKey
<1>1. BizOfKey(j) \in Businesses
  BY KeyFacts
<1>2. Stops(j) => Stops(j)'
  BY <1>1, OneWay DEF Stops, IsInitial, BizOfKey
<1>3. /\ stopped[j] => Stops(j)
      /\ stopped[j] => at[j] \notin {"reserve", "transport"}
      /\ stopped[j] /\ ~IsInitial(j) /\ at[j] = "dnc" => BizOfKey(j) \in dnc
  BY DEF StopInv
<1>4. dnc \subseteq dnc'
  BY OneWay
<1>5. CASE Beside(j)
  BY <1>2, <1>3, <1>4, <1>5 DEF Beside, Outside, Waiting, Over
<1>6. CASE FinalizeFails(j)
  BY <1>2, <1>3, <1>4, <1>6 DEF FinalizeFails, Goto, TypeOK, memory
<1>7. CASE Start(j)
  <2>1. /\ at' = [at EXCEPT ![j] = IF IsInitial(j) THEN "approval" ELSE "initial"]
        /\ stopped' = [stopped EXCEPT ![j] = Stops(j)]
    BY <1>7 DEF Start, Goto, Stops
  <2>2. at'[j] \in {"approval", "initial"} /\ stopped'[j] = Stops(j)
    BY <2>1 DEF TypeOK
  <2> QED
    BY <1>2, <2>2
<1>8. CASE Walks(j)
  BY <1>2, <1>3, <1>4, <1>8, WalksEffect DEF Stops
<1>9. CASE ReadDnc(j)
  <2>1. /\ stopped' = stopped /\ IsInitial(j)
        /\ at'[j] = IF BizOfKey(j) \in dnc THEN "done" ELSE "reserve"
    BY <1>9 DEF ReadDnc, Goto, TypeOK, memory
  <2> QED
    BY <1>2, <1>3, <2>1 DEF Stops
<1>10. CASE Reserve(j)
  <2>1. stopped' = stopped /\ at[j] = "reserve" /\ at'[j] = "transport"
    BY <1>10 DEF Reserve, Goto, TypeOK, memory
  <2> QED
    BY <1>2, <1>3, <2>1
<1>11. CASE Sends(j)
  <2>1. stopped' = stopped /\ at'[j] \notin {"reserve", "transport", "dnc"}
    BY <1>11, SendCases DEF SendLive, Goto, TypeOK, memory
  <2> QED
    BY <1>2, <1>3, <2>1
<1>12. CASE Records(j)
  BY <1>2, <1>3, <1>12, RecordsEffect DEF memory
<1> QED
  BY <1>5, <1>6, <1>7, <1>8, <1>9, <1>10, <1>11, <1>12, StepKinds, HandlerCases

-----------------------------------------------------------------------------
(***************************************************************************)
(* What left and what the rows say of it.                                  *)
(***************************************************************************)

Bounced(k) == "bounced" \in events[BizOfKey(k)]

\* A handler that is about to send has its reservation, one that has sent remembers that it
\* was to send, and what left is on record.
WireOf(k) ==
    /\ at[k] = "transport" => msg[k] = "queued" \/ Bounced(k)
    /\ at[k] = "finalize" /\ wire[k] > 0 => Bounced(k) \/ (mode[k] /\ Automated(k))
    /\ wire[k] > 0 => \/ Bounced(k)
                      \/ msg[k] \in {"sent", "delivery_unknown"}
                      \/ msg[k] = "queued" /\ at[k] \notin {"transport", "unsent"}
    /\ wire[k] > 1 => Bounced(k)

WireInv == \A k \in Keys : WireOf(k)

LEMMA WireNext ==
    ASSUME TypeOK, WireInv, [Next]_vars
    PROVE  WireInv'
<1> SUFFICES ASSUME NEW j \in Keys PROVE WireOf(j)'
  BY DEF WireInv
<1>1. BizOfKey(j) \in Businesses
  BY KeyFacts
<1>2. Bounced(j) => Bounced(j)'
  BY <1>1, OneWay DEF Bounced, BizOfKey
<1>3. Automated(j)' <=> Automated(j)
  BY OneWay DEF Automated, BizOfKey
<1>4. WireOf(j) /\ wire[j] \in Nat
  BY DEF WireInv, TypeOK
<1>t. wire[j] > 0 /\ at[j] = "transport" => Bounced(j) \/ msg[j] \in {"sent", "delivery_unknown"}
  BY <1>4 DEF WireOf
<1>5. CASE Beside(j)
  <2>1. \/ msg'[j] = msg[j]
        \/ msg[j] = "manual_pending" /\ msg'[j] = "sent"
        \/ msg'[j] = "failed" /\ wire[j] > 0 /\ Bounced(j)'
    BY <1>5 DEF Beside, Bounced, BizOfKey
  <2> QED
    BY <1>2, <1>3, <1>4, <1>5, <2>1 DEF Beside, WireOf, Outside, Waiting, Over
<1>6. CASE FinalizeFails(j)
  <2>1. /\ at[j] = "finalize" /\ at'[j] = IF mode[j] /\ Automated(j) THEN "unknown" ELSE "unsent"
        /\ UNCHANGED <<msg, wire, mode>>
    BY <1>6 DEF FinalizeFails, Goto, TypeOK, message, memory, history
  <2> QED
    BY <1>2, <1>3, <1>4, <2>1 DEF WireOf
<1>7. CASE Start(j)
  <2>1. at'[j] \in {"approval", "initial"} /\ UNCHANGED <<msg, wire>>
    BY <1>7 DEF Start, Goto, TypeOK, message, history
  <2> QED
    BY <1>2, <1>4, <2>1 DEF WireOf
<1>8. CASE Walks(j)
  <2>1. UNCHANGED <<msg, wire>>
    BY <1>8, WalksEffect DEF message, history
  <2>2. at'[j] = "finalize" /\ wire[j] > 0 => Bounced(j)
    <3>1. at[j] = "transport" => msg[j] = "queued" \/ Bounced(j)
      BY <1>4 DEF WireOf
    <3> QED
      BY <1>t, <1>8, <3>1, WalksEffect
  <2>3. at'[j] \notin {"transport", "unsent"}
    BY <1>8, WalksEffect
  <2> QED
    BY <1>2, <1>4, <2>1, <2>2, <2>3 DEF WireOf
<1>9. CASE ReadDnc(j)
  <2>1. at'[j] \in {"done", "reserve"} /\ UNCHANGED <<msg, wire>>
    BY <1>9 DEF ReadDnc, Goto, TypeOK, message, history
  <2> QED
    BY <1>2, <1>4, <2>1 DEF WireOf
<1>10. CASE Reserve(j)
  <2>1. /\ at[j] = "reserve" /\ at'[j] = "transport" /\ msg[j] \in {"none", "failed"}
        /\ msg'[j] = "queued" /\ UNCHANGED wire
    BY <1>10 DEF Reserve, Reservable, Goto, TypeOK, history
  <2> QED
    BY <1>2, <1>4, <2>1 DEF WireOf
<1>11. CASE Sends(j)
  <2>1. PICK left \in {0, 1}, outcome \in {"finalize", "unsent", "unknown"} :
            /\ SendLive(j, left, outcome)
            /\ left = 1 => outcome # "unsent"
    BY <1>11, SendCases
  <2>2. /\ at[j] = "transport" /\ mode[j] /\ Automated(j)
        /\ at'[j] = outcome /\ wire'[j] = wire[j] + left /\ UNCHANGED <<msg, mode>>
    BY <2>1 DEF SendLive, Goto, TypeOK, message, memory
  <2>3. Bounced(j) \/ (wire[j] = 0 /\ msg[j] = "queued")
    BY <1>4, <2>2 DEF WireOf
  <2>4. wire'[j] > 0 => Bounced(j) \/ left = 1
    BY <1>4, <2>2, <2>3
  <2>5. wire'[j] > 1 => Bounced(j)
    BY <1>4, <2>2, <2>3
  <2> QED
    BY <1>2, <1>3, <2>1, <2>2, <2>3, <2>4, <2>5 DEF WireOf
<1>12. CASE Records(j)
  <2>1. UNCHANGED wire /\ at'[j] \in {"done", "failed", "queued"}
    BY <1>12, RecordsEffect DEF history
  <2>2. wire[j] > 0 => Bounced(j) \/ msg'[j] \in {"sent", "delivery_unknown"}
    BY <1>4, <1>12, RecordsEffect DEF WireOf, Result
  <2> QED
    BY <1>2, <1>4, <2>1, <2>2 DEF WireOf
<1> QED
  BY <1>5, <1>6, <1>7, <1>8, <1>9, <1>10, <1>11, <1>12, StepKinds, HandlerCases

-----------------------------------------------------------------------------
(***************************************************************************)
(* Approved before anything is written or sent.                            *)
(***************************************************************************)

Approved(a) == a \in Approvals /\ decision[a] = "approved"

\* The latest approval is approved, an initial message compared its own approval with an
\* approved one before it went on, and a follow-up was enqueued under an approved one.
ApprovalOf(k) ==
    /\ IsInitial(k) => at[k] # "initial"
    /\ IsInitial(k) /\ at[k] = "status" => saw[k] = NoApproval \/ Approved(saw[k])
    /\ IsInitial(k) /\ at[k] \in Steps \ {"approval", "initial", "status"} => Approved(k[1])
    /\ ~IsInitial(k) /\ at[k] # "none" => Approved(k[1])
    /\ calls[k] > 0 \/ wire[k] > 0 \/ msg[k] # "none" => Approved(k[1])

LatestApproved ==
    \A b \in Businesses :
        latest[b] = NoApproval \/ (Approved(latest[b]) /\ BizOf[latest[b]] = b)
AprInv == LatestApproved /\ \A k \in Keys : ApprovalOf(k)

LEMMA LatestNext ==
    ASSUME TypeOK, LatestApproved, [Next]_vars
    PROVE  LatestApproved'
<1> USE KeyFacts
<1>1. ASSUME NEW a \in Approvals, Approve(a) PROVE LatestApproved'
  <2>1. /\ decision' = [decision EXCEPT ![a] = "approved"]
        /\ latest' = [latest EXCEPT ![BizOf[a]] = a]
    BY <1>1 DEF Approve
  <2> QED
    BY <2>1 DEF LatestApproved, Approved, TypeOK
<1>2. (\E a \in Approvals : Approve(a)) \/ UNCHANGED latest
  <2>1. ASSUME NEW k \in Keys, Handler(k) PROVE UNCHANGED latest
    BY <2>1 DEF Handler, Start, ReadApproval, ReadStatus, ReadDnc, ReadInitial, Gate, StatusGate,
       DealGate, EventsGate, DncGate, ReserveDuplicate, ReserveOverBudget, Reserve, HandOver, DryRun,
       SendAccepted, SendRefused, SendAmbiguous, SendLive, FinalizeNone, FinalizeInitial,
       FinalizeFollowup, MarkFailure, approval
  <2>2. ASSUME NEW a \in Approvals, RequestApproval(a) \/ Reject(a) \/ ConfirmManualSend(a)
        PROVE  UNCHANGED latest
    BY <2>2 DEF RequestApproval, Reject, ConfirmManualSend, approval
  <2>3. ASSUME NEW b \in Businesses,
               \/ MarkDoNotContact(b)
               \/ \E s \in Stages : UpdateDealStage(b, s)
               \/ \E s \in Overrides : OverrideStatus(b, s)
               \/ Reply(b) \/ OptOut(b) \/ Bounce(b)
        PROVE  UNCHANGED latest
    BY <2>3 DEF MarkDoNotContact, UpdateDealStage, OverrideStatus, Reply, OptOut, Bounce, approval
  <2>4. ASSUME NEW k \in Keys, Requeue(k) \/ DatabaseError(k) \/ FinalizeFails(k) \/ AgeOut(k)
        PROVE  UNCHANGED latest
    BY <2>4 DEF Requeue, DatabaseError, FinalizeFails, AgeOut, approval
  <2>5. ASSUME SwitchMode \/ Crash \/ UNCHANGED vars PROVE UNCHANGED latest
    BY <2>5 DEF SwitchMode, Crash, vars, approval
  <2> QED
    BY <2>1, <2>2, <2>3, <2>4, <2>5 DEF Next, Operator, Inbound, Failure
<1>3. ASSUME UNCHANGED latest PROVE LatestApproved'
  BY <1>3, OneWay DEF LatestApproved, Approved
<1> QED
  BY <1>1, <1>2, <1>3

\* The follow-ups of an approval are enqueued with the initial message that is out.
LEMMA FirstEnqueue ==
    ASSUME TypeOK, AprInv, [Next]_vars, NEW j \in Keys, ~IsInitial(j), at[j] = "none"
    PROVE  at'[j] = "none" \/ Approved(j[1])
<1> USE KeyFacts
<1>0. j[1] \in Approvals
  OBVIOUS
<1>1. ASSUME NEW a \in Approvals, RequestApproval(a) \/ Approve(a) \/ Reject(a)
      PROVE  at'[j] = "none"
  BY <1>1 DEF RequestApproval, Approve, Reject, TypeOK, handler
<1>c. ASSUME NEW a \in Approvals, NEW jobs \in [Keys -> Waiting \cup Over \cup Steps],
             jobs[j] = "none", Contacted(a, jobs), Approved(a)
      PROVE  at'[j] = "none" \/ Approved(j[1])
  BY <1>c DEF Contacted, WithFollowups
<1>2. ASSUME NEW a \in Approvals, ConfirmManualSend(a)
      PROVE  at'[j] = "none" \/ Approved(j[1])
  BY <1>2, <1>c DEF ConfirmManualSend, Approved, TypeOK
<1>3. ASSUME NEW b \in Businesses,
             \/ MarkDoNotContact(b)
             \/ \E s \in Stages : UpdateDealStage(b, s)
             \/ \E s \in Overrides : OverrideStatus(b, s)
             \/ Reply(b) \/ OptOut(b) \/ Bounce(b)
      PROVE  at'[j] = "none"
  BY <1>3 DEF MarkDoNotContact, UpdateDealStage, OverrideStatus, Reply, OptOut, Bounce,
              CancelFollowups, handler
<1>4. ASSUME NEW k \in Keys, Requeue(k) \/ DatabaseError(k) \/ FinalizeFails(k) \/ AgeOut(k)
      PROVE  at'[j] = "none"
  BY <1>4 DEF Requeue, DatabaseError, FinalizeFails, AgeOut, Goto, TypeOK, handler, Over, Reading
<1>5. ASSUME SwitchMode \/ Crash \/ UNCHANGED vars PROVE at'[j] = "none"
  BY <1>5 DEF SwitchMode, Crash, vars, handler, Steps, Reading
<1>6. ASSUME NEW k \in Keys, FinalizeInitial(k) PROVE at'[j] = "none" \/ Approved(j[1])
  <2> DEFINE over == [at EXCEPT ![k] = "done"]
  <2>1. over \in [Keys -> Waiting \cup Over \cup Steps] /\ (over[j] = "none")
    BY <1>6 DEF FinalizeInitial, TypeOK, Over
  <2>2. Contacted(k[1], over) \/ at' = over
    BY <1>6 DEF FinalizeInitial
  <2>3. Approved(k[1])
    BY <1>6 DEF FinalizeInitial, AprInv, ApprovalOf, Steps
  <2> HIDE DEF over
  <2> QED
    BY <1>c, <2>1, <2>2, <2>3
<1>7. ASSUME NEW k \in Keys, Handler(k), ~FinalizeInitial(k) PROVE at'[j] = "none"
  BY <1>7 DEF Handler, Start, ReadApproval, ReadStatus, ReadDnc, ReadInitial, Gate, StatusGate,
       DealGate, EventsGate, DncGate, ReserveDuplicate, ReserveOverBudget, Reserve, HandOver, DryRun,
       SendAccepted, SendRefused, SendAmbiguous, SendLive, FinalizeNone, FinalizeFollowup,
       MarkFailure, Goto, TypeOK
<1> QED
  BY <1>1, <1>2, <1>3, <1>4, <1>5, <1>6, <1>7 DEF Next, Operator, Inbound, Failure

LEMMA AprNext ==
    ASSUME TypeOK, AprInv, [Next]_vars
    PROVE  AprInv'
<1> SUFFICES ASSUME NEW j \in Keys PROVE ApprovalOf(j)'
  BY LatestNext DEF AprInv
<1> DEFINE A == Approved(j[1])
<1>1. /\ j[1] \in Approvals /\ BizOfKey(j) \in Businesses
      /\ calls[j] \in Nat /\ wire[j] \in Nat
  BY KeyFacts DEF TypeOK
<1>2. A => Approved(j[1])'
  BY <1>1, OneWay DEF Approved
<1>3. ApprovalOf(j)
  BY DEF AprInv
<1>e. ~IsInitial(j) /\ at'[j] # "none" => A
  BY <1>3, FirstEnqueue DEF ApprovalOf
<1>s. Approved(saw[j]) => Approved(saw[j])'  \/ saw'[j] # saw[j]
  BY OneWay DEF Approved
<1>p. IsInitial(j)' <=> IsInitial(j)
  BY DEF IsInitial
<1>5. CASE Beside(j)
  <2>1. at'[j] \in Outside => at'[j] \notin Steps
    BY DEF Outside, Waiting, Over, Steps, Reading
  <2>2. at'[j] \in Steps => at'[j] = at[j]
    BY <1>5, <2>1 DEF Beside
  <2>0. IsInitial(j) => at'[j] # "initial"
    BY <1>3, <2>2 DEF ApprovalOf, Steps, Reading
  <2>3. IsInitial(j) /\ at'[j] = "status" => saw'[j] = NoApproval \/ Approved(saw[j])
    BY <1>3, <1>5, <2>2 DEF Beside, ApprovalOf, Steps, Reading
  <2>4. IsInitial(j) /\ at'[j] \in Steps \ {"approval", "initial", "status"} => A
    BY <1>3, <2>2 DEF ApprovalOf
  <2>5. calls'[j] > 0 \/ wire'[j] > 0 \/ msg'[j] # "none" => A
    BY <1>3, <1>5 DEF Beside, ApprovalOf
  <2>6. saw'[j] = saw[j]
    BY <1>5 DEF Beside
  <2> HIDE DEF A
  <2> QED
    BY <1>2, <1>e, <1>s, <1>p, <2>0, <2>3, <2>4, <2>5, <2>6 DEF ApprovalOf
<1>6. CASE FinalizeFails(j)
  <2>1. at[j] = "finalize" /\ at'[j] \in {"unknown", "unsent"} /\ UNCHANGED <<msg, calls, wire>>
    BY <1>6 DEF FinalizeFails, Goto, TypeOK, message, history
  <2>2. A
    BY <1>3, <1>e, <2>1 DEF ApprovalOf, Steps
  <2> HIDE DEF A
  <2> QED
    BY <1>2, <1>p, <2>1, <2>2 DEF ApprovalOf
<1>7. CASE Start(j)
  <2>1. /\ at'[j] = IF IsInitial(j) THEN "approval" ELSE "initial"
        /\ UNCHANGED <<msg, calls, wire>>
    BY <1>7 DEF Start, Goto, TypeOK, message, history
  <2>2. calls'[j] > 0 \/ wire'[j] > 0 \/ msg'[j] # "none" => A
    BY <1>3, <2>1 DEF ApprovalOf
  <2> HIDE DEF A
  <2> QED
    BY <1>2, <1>e, <1>p, <2>1, <2>2 DEF ApprovalOf
<1>8. CASE Walks(j)
  <2>1. UNCHANGED <<msg, calls, wire>>
    BY <1>8, WalksEffect DEF message, history
  <2>2. calls'[j] > 0 \/ wire'[j] > 0 \/ msg'[j] # "none" => A
    BY <1>3, <2>1 DEF ApprovalOf
  <2>3. IsInitial(j) => \/ at'[j] \in Outside
                        \/ at'[j] = "status" /\ saw'[j] = latest[BizOfKey(j)]
                        \/ at'[j] = "dnc" /\ at[j] = "status" /\ saw[j] = j[1]
                        \/ at'[j] = "finalize" /\ at[j] = "transport"
    <3>1. IsInitial(j) => ~ReadInitial(j)
      BY <1>3 DEF ApprovalOf, ReadInitial
    <3> QED
      BY <1>8, <3>1, ThrowFacts DEF Walks, ReadApproval, ReadStatus, Gate, StatusGate, DealGate,
         EventsGate, DncGate, ReserveDuplicate, ReserveOverBudget, HandOver, DryRun, FinalizeNone,
         Goto, TypeOK, Outside, Waiting, Over
  <2>4. at'[j] = "status" /\ saw'[j] = latest[BizOfKey(j)]
        => saw'[j] = NoApproval \/ Approved(saw[j])'
    <3>1. latest[BizOfKey(j)] = NoApproval \/ Approved(latest[BizOfKey(j)])
      BY <1>1 DEF AprInv, LatestApproved
    <3>2. \A a \in Approvals : decision[a] = "approved" => decision'[a] = "approved"
      BY OneWay
    <3> QED
      BY <3>1, <3>2 DEF Approved
  <2>5. at[j] = "status" /\ IsInitial(j) /\ saw[j] = j[1] => A
    BY <1>1, <1>3, OutreachConstants DEF ApprovalOf
  <2>6. at[j] = "transport" /\ IsInitial(j) => A
    BY <1>3 DEF ApprovalOf, Steps
  <2>7. at'[j] \in Outside => at'[j] \notin Steps /\ at'[j] \notin {"initial", "status"}
    BY DEF Outside, Waiting, Over, Steps, Reading
  <2> HIDE DEF A
  <2> QED
    BY <1>2, <1>e, <1>p, <2>2, <2>3, <2>4, <2>5, <2>6, <2>7 DEF ApprovalOf
<1>9. CASE ReadDnc(j)
  <2>1. /\ IsInitial(j) /\ at[j] = "dnc" /\ at'[j] \in {"done", "reserve"}
        /\ UNCHANGED <<msg, calls, wire>>
    BY <1>9 DEF ReadDnc, Goto, TypeOK, message, history
  <2>2. A
    BY <1>3, <2>1 DEF ApprovalOf, Steps, Reading
  <2> HIDE DEF A
  <2> QED
    BY <1>2, <1>p, <2>1, <2>2 DEF ApprovalOf
<1>10. CASE Reserve(j) \/ Sends(j) \/ Records(j)
  <2>1. at[j] \in {"reserve", "transport", "finalize", "unsent", "unknown"}
    BY <1>10, SendCases, RecordsEffect DEF Reserve, SendLive
  <2>2. at'[j] \notin {"initial", "status"}
    <3>1. CASE Reserve(j) \/ Sends(j)
      BY <3>1, SendCases DEF Reserve, SendLive, Goto, TypeOK
    <3>2. CASE Records(j)
      BY <3>2, RecordsEffect
    <3> QED
      BY <1>10, <3>1, <3>2
  <2>3. A
    BY <1>3, <2>1 DEF ApprovalOf, Steps, Reading
  <2> HIDE DEF A
  <2> QED
    BY <1>2, <2>2, <2>3 DEF ApprovalOf
<1> QED
  BY <1>5, <1>6, <1>7, <1>8, <1>9, <1>10, StepKinds, HandlerCases

-----------------------------------------------------------------------------
(***************************************************************************)
(* The daily budget.                                                       *)
(***************************************************************************)

\* A row that waits for its result is young, and a card for the operator never counts.
BudgetOf(k) ==
    /\ at[k] \in {"transport", "finalize", "unsent", "unknown"} /\ msg[k] = "queued" => recent[k]
    /\ msg[k] = "manual_pending" => ~Automated(k)

CountHeld == IsFiniteSet(Counted) /\ Cardinality(Counted) <= DailyLimit
BudInv == CountHeld /\ \A k \in Keys : BudgetOf(k)

CountedAt(k) == Automated(k) /\ recent[k] /\ msg[k] \in CountedStates

\* Only a reservation makes a message count.
LEMMA BudgetStep ==
    ASSUME TypeOK, BudInv, [Next]_vars, NEW j \in Keys
    PROVE  BudgetOf(j)' /\ (CountedAt(j)' => CountedAt(j) \/ Reserve(j))
<1>1. Automated(j)' <=> Automated(j)
  BY OneWay DEF Automated, BizOfKey
<1>2. BudgetOf(j)
  BY DEF BudInv
<1>5. CASE Beside(j)
  <2>1. at'[j] \in {"transport", "finalize", "unsent", "unknown"} => at'[j] = at[j] /\ at[j] \in Steps
    BY <1>5 DEF Beside, Outside, Waiting, Over, Steps
  <2> QED
    BY <1>1, <1>2, <1>5, <2>1 DEF Beside, BudgetOf, CountedAt, CountedStates
<1>6. CASE FinalizeFails(j)
  <2>1. at[j] = "finalize" /\ UNCHANGED <<msg, recent>>
    BY <1>6 DEF FinalizeFails, message
  <2> QED
    BY <1>1, <1>2, <2>1 DEF BudgetOf, CountedAt
<1>7. CASE Start(j) \/ ReadDnc(j)
  <2>1. /\ at'[j] \notin {"transport", "finalize", "unsent", "unknown"}
        /\ UNCHANGED <<msg, recent>>
    BY <1>7 DEF Start, ReadDnc, Goto, TypeOK, message
  <2> QED
    BY <1>1, <1>2, <2>1 DEF BudgetOf, CountedAt
<1>8. CASE Walks(j)
  <2>1. UNCHANGED <<msg, recent>>
    BY <1>8, WalksEffect DEF message
  <2>2. at'[j] \in {"transport", "finalize", "unsent", "unknown"} => at[j] = "transport"
    BY <1>8, WalksEffect
  <2> QED
    BY <1>1, <1>2, <2>1, <2>2 DEF BudgetOf, CountedAt
<1>9. CASE Reserve(j)
  <2>1. msg'[j] = "queued" /\ recent'[j]
    BY <1>9 DEF Reserve, TypeOK
  <2> QED
    BY <1>9, <2>1 DEF BudgetOf
<1>10. CASE Sends(j)
  <2>1. at[j] = "transport" /\ UNCHANGED <<msg, recent>>
    BY <1>10, SendCases DEF SendLive, message
  <2> QED
    BY <1>1, <1>2, <2>1 DEF BudgetOf, CountedAt
<1>11. CASE Records(j)
  <2>1. at'[j] \in {"done", "failed", "queued"}
    BY <1>11, RecordsEffect
  <2>2. msg'[j] = "manual_pending" => ~Automated(j)
    BY <1>2, <1>11, RecordsEffect DEF BudgetOf, Result
  <2>3. CountedAt(j)' => CountedAt(j)
    BY <1>1, <1>2, <1>11, RecordsEffect DEF BudgetOf, CountedAt, CountedStates
  <2> QED
    BY <1>1, <2>1, <2>2, <2>3 DEF BudgetOf
<1> QED
  BY <1>5, <1>6, <1>7, <1>8, <1>9, <1>10, <1>11, StepKinds, HandlerCases

LEMMA CountedSet == Counted = {k \in Keys : CountedAt(k)}
BY DEF Counted, CountedAt

LEMMA CountedSetNext == Counted' = {k \in Keys : CountedAt(k)'}
BY DEF Counted, CountedAt, Automated

LEMMA BudNext ==
    ASSUME TypeOK, BudInv, [Next]_vars
    PROVE  BudInv'
<1>1. \A j \in Keys : BudgetOf(j)'
  BY BudgetStep
<1>2. IsFiniteSet(Counted) /\ Cardinality(Counted) <= DailyLimit
      /\ Cardinality(Counted) \in Nat /\ DailyLimit \in Nat
  BY FS_CardinalityType, OutreachConstants DEF BudInv, CountHeld
<1>3. CASE Counted' \subseteq Counted
  <2>1. IsFiniteSet(Counted') /\ Cardinality(Counted') <= Cardinality(Counted)
    BY <1>2, <1>3, FS_Subset
  <2>2. Cardinality(Counted') \in Nat
    BY <2>1, FS_CardinalityType
  <2> HIDE DEF Counted
  <2>3. CountHeld'
    BY <1>2, <2>1, <2>2 DEF CountHeld
  <2> QED
    BY <1>1, <2>3 DEF BudInv
<1>4. CASE ~(Counted' \subseteq Counted)
  <2>1. PICK k \in Keys : Reserve(k) /\ CountedAt(k)'
    BY <1>4, BudgetStep, CountedSet, CountedSetNext
  <2>2. Automated(k)
    BY <2>1, OneWay DEF CountedAt, Automated, BizOfKey
  <2>3. Cardinality(Counted) < DailyLimit
    BY <1>2, <2>1, <2>2 DEF Reserve, BudgetFull
  <2>4. \A j \in Keys : Reserve(j) => j = k
    <3>1. at[k] = "reserve" /\ at' = [at EXCEPT ![k] = "transport"]
      BY <2>1 DEF Reserve, Goto
    <3>2. ASSUME NEW j \in Keys, Reserve(j) PROVE at'[j] = "transport" /\ at[j] = "reserve"
      BY <3>2 DEF Reserve, Goto, TypeOK
    <3> QED
      BY <3>1, <3>2 DEF TypeOK
  <2>5. Counted' \subseteq Counted \cup {k}
    BY <2>4, BudgetStep, CountedSet, CountedSetNext
  <2>6. /\ IsFiniteSet(Counted \cup {k})
        /\ Cardinality(Counted \cup {k}) <= Cardinality(Counted) + 1
        /\ Cardinality(Counted \cup {k}) \in Nat
    <3>1. IsFiniteSet(Counted \cup {k}) /\ Cardinality(Counted \cup {k}) \in Nat
      BY <1>2, FS_AddElement, FS_CardinalityType
    <3>2. CASE k \in Counted
      <4>1. Counted \cup {k} = Counted
        BY <3>2
      <4> HIDE DEF Counted
      <4> QED
        BY <1>2, <3>1, <4>1
    <3>3. CASE k \notin Counted
      <4> HIDE DEF Counted
      <4>1. Cardinality(Counted \cup {k}) = Cardinality(Counted) + 1
        BY <1>2, <3>3, FS_AddElement
      <4> QED
        BY <1>2, <3>1, <4>1
    <3> QED
      BY <3>2, <3>3
  <2>7. IsFiniteSet(Counted') /\ Cardinality(Counted') <= Cardinality(Counted \cup {k})
    BY <2>5, <2>6, FS_Subset
  <2>8. Cardinality(Counted') \in Nat
    BY <2>7, FS_CardinalityType
  <2>9. Cardinality(Counted') <= DailyLimit
    BY <1>2, <2>3, <2>6, <2>7, <2>8
  <2> QED
    BY <1>1, <2>7, <2>9 DEF BudInv, CountHeld
<1> QED
  BY <1>3, <1>4

-----------------------------------------------------------------------------
(***************************************************************************)
(* A delivered initial message and the move to contacted.                  *)
(***************************************************************************)

Delivered(a) == msg[<<a, 0>>] \in {"sent", "simulated"}

MovedOf(b) == latest[b] # NoApproval /\ Delivered(latest[b]) => status[b] # "outreach_approved"

\* A step that delivers nothing and approves nothing.
Neutral ==
    /\ UNCHANGED latest
    /\ \A b \in Businesses : status'[b] = "outreach_approved" => status[b] = "outreach_approved"
    /\ \A a \in Approvals : Delivered(a)' => Delivered(a)

LEMMA MovedNext ==
    ASSUME TypeOK, AprInv, DeliveredMeansMoved, [Next]_vars, "outreach_approved" \notin Overrides
    PROVE  DeliveredMeansMoved'
<1> USE KeyFacts
<1>0. \A b \in Businesses : MovedOf(b)
  BY DEF DeliveredMeansMoved, MovedOf, Delivered
<1> SUFFICES ASSUME NEW b \in Businesses PROVE MovedOf(b)'
  BY DEF DeliveredMeansMoved, MovedOf, Delivered
<1>n. ASSUME Neutral PROVE MovedOf(b)'
  <2>1. latest'[b] = latest[b] /\ latest[b] \in Approvals \cup {NoApproval}
    BY <1>n DEF Neutral, TypeOK
  <2>2. latest[b] # NoApproval /\ Delivered(latest[b])' => Delivered(latest[b])
    BY <1>n, <2>1 DEF Neutral
  <2> QED
    BY <1>0, <1>n, <2>1, <2>2 DEF Neutral, MovedOf, Delivered
<1>1. ASSUME NEW a \in Approvals, Approve(a) PROVE MovedOf(b)'
  <2>1. /\ decision[a] = "pending" /\ UNCHANGED msg
        /\ latest' = [latest EXCEPT ![BizOf[a]] = a]
        /\ status' = [status EXCEPT ![BizOf[a]] = "outreach_approved"]
    BY <1>1 DEF Approve, message
  <2>2. msg[<<a, 0>>] = "none"
    BY <2>1 DEF AprInv, ApprovalOf, Approved
  <2>3. CASE b = BizOf[a]
    BY <2>1, <2>2, <2>3 DEF MovedOf, Delivered, TypeOK
  <2>4. CASE b # BizOf[a]
    BY <1>0, <2>1, <2>4 DEF MovedOf, Delivered, TypeOK
  <2> QED
    BY <2>3, <2>4
<1>2. ASSUME NEW a \in Approvals, NEW r \in MessageState, UNCHANGED latest,
             msg' = [msg EXCEPT ![<<a, 0>>] = r], status'[BizOf[a]] # "outreach_approved",
             \A c \in Businesses \ {BizOf[a]} : status'[c] = status[c]
      PROVE  MovedOf(b)'
  <2>1. CASE b = BizOf[a]
    BY <1>2, <2>1 DEF MovedOf
  <2>2. CASE b # BizOf[a]
    <3>1. latest[b] \in Approvals \cup {NoApproval} /\ (latest[b] # NoApproval => latest[b] # a)
      BY <2>2 DEF AprInv, LatestApproved, TypeOK
    <3>2. latest[b] # NoApproval => msg'[<<latest[b], 0>>] = msg[<<latest[b], 0>>]
      BY <1>2, <3>1 DEF TypeOK
    <3> QED
      BY <1>0, <1>2, <2>2, <3>2 DEF MovedOf, Delivered
  <2> QED
    BY <2>1, <2>2
<1>3. ASSUME NEW a \in Approvals, ConfirmManualSend(a) PROVE MovedOf(b)'
  <2>1. /\ msg' = [msg EXCEPT ![<<a, 0>>] = "sent"] /\ UNCHANGED latest
        /\ status' = [status EXCEPT ![BizOf[a]] = "contacted"]
    BY <1>3 DEF ConfirmManualSend, Contacted, approval
  <2> QED
    BY <1>2, <2>1 DEF TypeOK, MessageState
<1>4. ASSUME NEW k \in Keys, FinalizeInitial(k) PROVE MovedOf(b)'
  <2> DEFINE a == k[1]
  <2>1. /\ k = <<a, 0>> /\ a \in Approvals /\ BizOfKey(k) = BizOf[a]
        /\ msg' = [msg EXCEPT ![k] = Result(k)] /\ UNCHANGED latest
    BY <1>4 DEF FinalizeInitial, RecordResult, approval
  <2>2. \/ Automated(k) /\ status' = [status EXCEPT ![BizOf[a]] = "contacted"]
        \/ Automated(k) /\ status[BizOf[a]] # "outreach_approved" /\ status' = status
        \/ ~Automated(k) /\ status' = status
    BY <1>4, <2>1 DEF FinalizeInitial, Contacted
  <2>3. CASE Automated(k)
    <3>1. Result(k) \in MessageState
      BY DEF Result, MessageState
    <3>2. /\ status'[BizOf[a]] # "outreach_approved"
          /\ \A c \in Businesses \ {BizOf[a]} : status'[c] = status[c]
      BY <2>1, <2>2, <2>3 DEF TypeOK
    <3> QED
      BY <1>2, <2>1, <3>1, <3>2
  <2>4. CASE ~Automated(k)
    <3>1. status' = status /\ msg' = [msg EXCEPT ![k] = "manual_pending"]
      BY <2>1, <2>2, <2>4 DEF Result
    <3>2. \A c \in Approvals : Delivered(c)' => Delivered(c)
      BY <2>1, <3>1 DEF Delivered, TypeOK
    <3> QED
      BY <1>n, <2>1, <3>1, <3>2 DEF Neutral
  <2> QED
    BY <2>3, <2>4
<1>5. ASSUME NEW a \in Approvals, RequestApproval(a) \/ Reject(a) PROVE Neutral
  BY <1>5 DEF RequestApproval, Reject, Neutral, Delivered, TypeOK, message, business, approval
<1>6. ASSUME NEW c \in Businesses,
             \/ MarkDoNotContact(c)
             \/ \E s \in Stages : UpdateDealStage(c, s)
             \/ \E s \in Overrides : OverrideStatus(c, s)
             \/ Reply(c) \/ OptOut(c)
      PROVE  Neutral
  BY <1>6, OutreachConstants DEF MarkDoNotContact, UpdateDealStage, OverrideStatus, Reply, OptOut,
     Neutral, Delivered, TypeOK, DealStates, message, approval
<1>7. ASSUME NEW c \in Businesses, Bounce(c) PROVE Neutral
  <2>1. UNCHANGED <<status, approval>>
    BY <1>7 DEF Bounce
  <2>2. UNCHANGED msg \/ \E m \in Keys : msg' = [msg EXCEPT ![m] = "failed"]
    BY <1>7 DEF Bounce, KeysOf
  <2>3. \A a \in Approvals : Delivered(a)' => Delivered(a)
    BY <2>2 DEF Delivered, TypeOK
  <2> QED
    BY <2>1, <2>3 DEF Neutral, approval
<1>8. ASSUME NEW k \in Keys, Requeue(k) \/ DatabaseError(k) \/ FinalizeFails(k) \/ AgeOut(k)
      PROVE  Neutral
  BY <1>8 DEF Requeue, DatabaseError, FinalizeFails, AgeOut, Neutral, Delivered, business, message,
              approval
<1>9. ASSUME SwitchMode \/ Crash \/ UNCHANGED vars PROVE Neutral
  BY <1>9 DEF SwitchMode, Crash, vars, Neutral, Delivered, business, message, approval
<1>10. ASSUME NEW k \in Keys, Handler(k), ~FinalizeInitial(k) PROVE Neutral
  <2>1. CASE Start(k) \/ Walks(k) \/ Sends(k)
    <3>1. UNCHANGED <<business, approval, message>>
      BY <2>1, WalksEffect, SendCases DEF Start, SendLive
    <3> QED
      BY <3>1 DEF Neutral, Delivered, business, message, approval
  <2>2. CASE ReadDnc(k)
    BY <2>2 DEF ReadDnc, Neutral, Delivered, TypeOK, message, approval
  <2>3. CASE Reserve(k)
    BY <2>3 DEF Reserve, Neutral, Delivered, TypeOK, business, approval
  <2>4. CASE FinalizeFollowup(k)
    <3>1. msg' = [msg EXCEPT ![k] = Result(k)] /\ UNCHANGED <<status, latest>>
      BY <2>4 DEF FinalizeFollowup, RecordResult, business, approval
    <3>2. \A a \in Approvals : <<a, 0>> # k
      BY <2>4 DEF FinalizeFollowup
    <3> QED
      BY <3>1, <3>2 DEF Neutral, Delivered, TypeOK
  <2>5. CASE MarkFailure(k)
    <3>1. UNCHANGED <<status, latest>>
      BY <2>5 DEF MarkFailure, business, approval
    <3>2. \A a \in Approvals : Delivered(a)' => Delivered(a)
      BY <2>5 DEF MarkFailure, Delivered, TypeOK
    <3> QED
      BY <3>1, <3>2 DEF Neutral
  <2> QED
    BY <1>10, <2>1, <2>2, <2>3, <2>4, <2>5, HandlerCases DEF Records
<1> QED
  BY <1>n, <1>1, <1>3, <1>4, <1>5, <1>6, <1>7, <1>8, <1>9, <1>10
     DEF Next, Operator, Inbound, Failure

-----------------------------------------------------------------------------
(***************************************************************************)
(* A reservation and the handler that settles it.                          *)
(***************************************************************************)

\* Without a fault nobody but its own handler moves a key that is at a step of it.
LEMMA InHandsStays ==
    ASSUME TypeOK, [Next]_vars, faults' = 0, NEW j \in Keys, at[j] \in Steps
    PROVE  Handler(j) \/ at'[j] = at[j]
<1> USE KeyFacts
<1>s. at[j] \notin {"none", "queued"} \cup Over
  BY DEF Steps, Reading, Over
<1>f. ~MayFail
  BY DEF MayFail, TypeOK
<1>1. ASSUME NEW a \in Approvals, RequestApproval(a) \/ Reject(a) PROVE at'[j] = at[j]
  BY <1>1 DEF RequestApproval, Reject, handler
<1>2. ASSUME NEW a \in Approvals, Approve(a) PROVE at'[j] = at[j]
  BY <1>2, <1>s DEF Approve, TypeOK
<1>3. ASSUME NEW a \in Approvals, NEW jobs \in [Keys -> Waiting \cup Over \cup Steps],
             Contacted(a, jobs), jobs[j] = at[j]
      PROVE  at'[j] = at[j]
  BY <1>3, <1>s DEF Contacted, WithFollowups
<1>4. ASSUME NEW a \in Approvals, ConfirmManualSend(a) PROVE at'[j] = at[j]
  BY <1>3, <1>4 DEF ConfirmManualSend, TypeOK
<1>5. ASSUME NEW b \in Businesses,
             \/ MarkDoNotContact(b)
             \/ \E s \in Stages : UpdateDealStage(b, s)
             \/ \E s \in Overrides : OverrideStatus(b, s)
      PROVE  at'[j] = at[j]
  BY <1>5 DEF MarkDoNotContact, UpdateDealStage, OverrideStatus, handler
<1>6. ASSUME NEW k \in Keys, Requeue(k) PROVE at'[j] = at[j]
  BY <1>6, <1>s DEF Requeue, TypeOK
<1>7. ASSUME NEW b \in Businesses, Reply(b) \/ OptOut(b) \/ Bounce(b) PROVE at'[j] = at[j]
  <2>1. CancelFollowups(b)
    BY <1>7 DEF Reply, OptOut, Bounce
  <2> QED
    BY <1>s, <2>1 DEF CancelFollowups
<1>8. ASSUME NEW k \in Keys, AgeOut(k) PROVE at'[j] = at[j]
  BY <1>8 DEF AgeOut, handler
<1>9. ASSUME NEW k \in Keys, Handler(k), k # j PROVE at'[j] = at[j]
  <2>1. CASE Start(k)
    BY <1>9, <2>1 DEF Start, Goto, TypeOK
  <2>2. CASE Walks(k)
    BY <1>9, <2>2 DEF Walks, ReadApproval, ReadStatus, ReadInitial, Gate, StatusGate, DealGate,
           EventsGate, DncGate, ReserveDuplicate, ReserveOverBudget, HandOver, DryRun,
           FinalizeNone, Goto, TypeOK
  <2>3. CASE ReadDnc(k) \/ Reserve(k) \/ FinalizeFollowup(k) \/ MarkFailure(k)
    BY <1>9, <2>3 DEF ReadDnc, Reserve, FinalizeFollowup, MarkFailure, Goto, TypeOK
  <2>4. CASE Sends(k)
    BY <1>9, <2>4, SendCases DEF SendLive, Goto, TypeOK
  <2>5. CASE FinalizeInitial(k)
    <3> DEFINE over == [at EXCEPT ![k] = "done"]
    <3>1. over \in [Keys -> Waiting \cup Over \cup Steps] /\ over[j] = at[j]
      BY <1>9 DEF TypeOK, Over
    <3>2. Contacted(k[1], over) \/ at' = over
      BY <2>5 DEF FinalizeInitial
    <3> HIDE DEF over
    <3> QED
      BY <1>3, <3>1, <3>2
  <2> QED
    BY <1>9, <2>1, <2>2, <2>3, <2>4, <2>5, HandlerCases DEF Records
<1>10. CASE SwitchMode \/ UNCHANGED vars
  BY <1>10 DEF SwitchMode, vars, handler
<1> QED
  BY <1>f, <1>1, <1>2, <1>4, <1>5, <1>6, <1>7, <1>8, <1>9, <1>10
     DEF Next, Operator, Inbound, Failure, DatabaseError, FinalizeFails, Crash

InHands == {"transport", "finalize", "unsent", "unknown"}

LEMMA HandledNext ==
    ASSUME TypeOK, ReservationIsHandled, [Next]_vars
    PROVE  ReservationIsHandled'
<1> SUFFICES ASSUME faults' = 0, NEW j \in Keys, msg'[j] = "queued"
             PROVE  at'[j] \in InHands
  BY DEF ReservationIsHandled, InHands
<1>0. faults = 0
  <2>1. faults' = faults \/ faults' = faults + 1
    <3>1. CASE Operator
      BY <3>1 DEF Operator, SwitchMode, RequestApproval, Approve, Reject, ConfirmManualSend,
         MarkDoNotContact, UpdateDealStage, OverrideStatus, Requeue, context
    <3>2. CASE Inbound
      BY <3>2 DEF Inbound, Reply, OptOut, Bounce, context
    <3>3. CASE Failure
      BY <3>3 DEF Failure, DatabaseError, FinalizeFails, Crash, MayFail
    <3>4. ASSUME NEW k \in Keys, Handler(k) \/ AgeOut(k) PROVE faults' = faults
      BY <3>4 DEF Handler, Start, ReadApproval, ReadStatus, ReadDnc, ReadInitial, Gate, StatusGate,
         DealGate, EventsGate, DncGate, ReserveDuplicate, ReserveOverBudget, Reserve, HandOver,
         DryRun, SendAccepted, SendRefused, SendAmbiguous, SendLive, FinalizeNone, FinalizeInitial,
         FinalizeFollowup, MarkFailure, AgeOut, context
    <3>5. CASE UNCHANGED vars
      BY <3>5 DEF vars, context
    <3> QED
      BY <3>1, <3>2, <3>3, <3>4, <3>5 DEF Next
  <2> QED
    BY <2>1 DEF TypeOK
<1>1. msg[j] = "queued" => at[j] \in InHands
  BY <1>0 DEF ReservationIsHandled, InHands
<1>2. InHands \subseteq Steps
  BY DEF InHands, Steps
<1>3. CASE Reserve(j)
  BY <1>3 DEF Reserve, Goto, TypeOK, InHands
<1>4. CASE Start(j) \/ ReadDnc(j)
  BY <1>1, <1>4 DEF Start, ReadDnc, message, InHands
<1>5. CASE Walks(j)
  <2>1. msg[j] = "queued"
    BY <1>5, WalksEffect DEF message
  <2> QED
    BY <1>1, <1>5, <2>1 DEF Walks, ReadApproval, ReadStatus, ReadInitial, Gate, StatusGate,
       DealGate, EventsGate, DncGate, ReserveDuplicate, ReserveOverBudget, HandOver, DryRun,
       FinalizeNone, Goto, TypeOK, Reservable, InHands
<1>6. CASE Sends(j)
  BY <1>6, SendCases DEF SendLive, Goto, TypeOK, InHands
<1>7. CASE Records(j)
  <2>1. msg'[j] # "queued"
    BY <1>7, RecordsEffect DEF Result
  <2> QED
    BY <2>1
<1>8. CASE ~Handler(j)
  <2>1. msg[j] = "queued"
    <3>1. ~FinalizeFails(j)
      BY DEF FinalizeFails, MayFail, TypeOK
    <3>2. Beside(j)
      BY <1>8, <3>1, StepKinds
    <3> QED
      BY <3>2 DEF Beside
  <2> QED
    BY <1>1, <1>2, <1>8, <2>1, InHandsStays
<1> QED
  BY <1>3, <1>4, <1>5, <1>6, <1>7, <1>8, HandlerCases

-----------------------------------------------------------------------------
(***************************************************************************)
(* The theorems.                                                           *)
(***************************************************************************)

OInv == TypeOK /\ StopInv /\ AprInv /\ WireInv /\ BudInv

LEMMA OInvInit == Init => OInv
<1> SUFFICES ASSUME Init PROVE OInv
  OBVIOUS
<1>1. TypeOK
  BY TypeInit
<1>2. StopInv
  BY DEF Init, StopInv
<1>3. AprInv
  BY DEF Init, AprInv, LatestApproved, ApprovalOf, Steps, Reading
<1>4. WireInv
  BY DEF Init, WireInv, WireOf
<1>5. BudInv
  <2>1. Counted = {}
    BY DEF Init, Counted
  <2>2. CountHeld
    BY <2>1, FS_EmptySet, OutreachConstants DEF CountHeld
  <2> QED
    BY <2>2 DEF Init, BudInv, BudgetOf
<1> QED
  BY <1>1, <1>2, <1>3, <1>4, <1>5 DEF OInv

LEMMA OInvNext == OInv /\ [Next]_vars => OInv'
BY TypeNext, StopNext, AprNext, WireNext, BudNext DEF OInv

LEMMA OutreachInvariant == Spec => []OInv
BY OInvInit, OInvNext, PTL DEF Spec

\* Every table and every job of the outreach keeps its shape, whatever operators, customers,
\* faults and concurrent sends do.
THEOREM OutreachTypeCorrect == Spec => []TypeOK
<1>1. OInv => TypeOK
  BY DEF OInv
<1> QED
  BY <1>1, OutreachInvariant, PTL

\* The reservations of any number of parallel sends stay within OUTREACH_DAILY_LIMIT.
THEOREM BudgetIsHeld == Spec => []BudgetHeld
<1>1. OInv => BudgetHeld
  BY DEF OInv, BudInv, CountHeld, BudgetHeld
<1> QED
  BY <1>1, OutreachInvariant, PTL

\* A message that left is never on record as one that did not, unless it bounced.
THEOREM DeparturesAreRecorded == Spec => []DepartureOnRecord
<1>1. OInv => DepartureOnRecord
  BY DEF OInv, WireInv, WireOf, Bounced, DepartureOnRecord
<1> QED
  BY <1>1, OutreachInvariant, PTL

\* No retry, redelivery, crash or requeue sends a message a second time, unless the first
\* one was returned.
THEOREM SentAtMostOnce == Spec => []SentOnce
<1>1. OInv => SentOnce
  BY DEF OInv, WireInv, WireOf, Bounced, SentOnce
<1> QED
  BY <1>1, OutreachInvariant, PTL

\* A job whose business was to be left alone when it began never reaches the transport.
THEOREM StoppedJobsStaySilent == Spec => []StoppedStaysSilent
<1>1. OInv => StoppedStaysSilent
  BY DEF OInv, StopInv, StoppedStaysSilent
<1> QED
  BY <1>1, OutreachInvariant, PTL

\* Nothing reaches a transport under an approval that was not given.
THEOREM NothingLeavesUnapproved == Spec => []NothingUnapproved
<1>1. OInv => NothingUnapproved
  BY DEF OInv, AprInv, ApprovalOf, Approved, NothingUnapproved
<1> QED
  BY <1>1, OutreachInvariant, PTL

\* Unless an operator sets outreach_approved by hand, a business that waits to be contacted
\* has no delivered message under its approval.
THEOREM DeliveryMovesTheBusiness ==
    ASSUME "outreach_approved" \notin Overrides
    PROVE  Spec => []DeliveredMeansMoved
<1>1. Init => DeliveredMeansMoved
  BY DEF Init, DeliveredMeansMoved
<1>2. OInv /\ DeliveredMeansMoved /\ [Next]_vars => DeliveredMeansMoved'
  BY MovedNext DEF OInv
<1> QED
  BY <1>1, <1>2, OutreachInvariant, PTL DEF Spec

\* As long as nothing fails, whoever reserved a slot of the budget still has it in hand: no
\* cancellation, bounce, requeue or command separates a reservation from its handler.
THEOREM ReservationsAreHandled == Spec => []ReservationIsHandled
<1>1. Init => ReservationIsHandled
  BY DEF Init, ReservationIsHandled
<1>2. OInv /\ ReservationIsHandled /\ [Next]_vars => ReservationIsHandled'
  BY HandledNext DEF OInv
<1> QED
  BY <1>1, <1>2, OutreachInvariant, PTL DEF Spec
=============================================================================
