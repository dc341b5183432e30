------------------------------- MODULE Outreach -------------------------------
(***************************************************************************)
(* From an operator's approval to a message that leaves the factory, and   *)
(* what an answer does to it: workers/outreach.ts (send-outreach and       *)
(* send-followup), orchestrator/outreachDeliveryService.ts (reservation    *)
(* and finalization around the transport call, which no transaction        *)
(* covers), outreachDecisionService.ts (approve, reject, manual send),     *)
(* inboundOutreachService.ts (reply, opt-out, bounce) and the operator's   *)
(* commands on the same business.                                          *)
(*                                                                         *)
(* A message is named by its idempotency key <<approval, index>>: index 0  *)
(* is the initial message, 1..MaxIndex are the follow-ups.  Each key has   *)
(* one job; WorkflowQueue shows that one worker at a time is in its        *)
(* handler.  Every read of a handler is a step of its own, because none    *)
(* shares a transaction with the reservation or with the transport.        *)
(***************************************************************************)
EXTENDS Naturals, FiniteSets

CONSTANTS
    Businesses,
    Approvals,       \* the approval ids that may be drawn
    BizOf,           \* Approvals -> Businesses
    MaybeManual,     \* businesses that may only be reachable on Instagram or Viber
    LiveBiz,         \* businesses of live campaigns
    MaxIndex,        \* number of days in FOLLOWUP_SCHEDULE_DAYS
    FollowupLimit,   \* JOB_DEFINITIONS: retry.limit of send-followup
    DailyLimit,      \* OUTREACH_DAILY_LIMIT
    Overrides,       \* bound: the statuses an operator moves a business to by hand
    Stages,          \* bound: the deal stages an operator sets
    NoApproval,
    MaxFaults,       \* bound: crashes and failed transactions
    MaxRequeues,     \* bound: jobs enqueued again through /internal/jobs
    MaxSwitches,     \* bound: how often the mode of the factory is changed
    Ageing           \* bound: the messages that may be older than 24 hours

Keys == Approvals \X (0..MaxIndex)
BizOfKey(k) == BizOf[k[1]]
IsInitial(k) == k[2] = 0
KeysOf(b) == {k \in Keys : BizOfKey(k) = b}

DealStates == {"contacted", "replied", "meeting", "proposal", "won", "lost"}
Statuses == DealStates \cup
    {"site_ready", "needs_review", "outreach_approved", "rejected", "closed", "do_not_contact"}
BeyondContacted ==
    {"replied", "meeting", "proposal", "won", "lost", "closed", "do_not_contact", "rejected"}
ReplyPreserves == {"meeting", "proposal", "won", "lost", "closed", "do_not_contact"}
Events == {"replied", "opted_out", "bounced"}
MessageState == {"none", "queued", "sent", "simulated", "manual_pending", "failed",
                 "delivery_unknown"}
CountedStates == {"queued", "sent", "simulated", "delivery_unknown"}

\* Where the job of a key is: waiting, over, or at a step of its handler.
Waiting == {"none", "queued"}
Over == {"done", "failed", "cancelled", "lost"}
Reading == {"approval", "initial", "status", "deal", "events", "dnc", "reserve"}
Steps == Reading \cup {"transport", "finalize", "unsent", "unknown"}

ASSUME OutreachConstants ==
    /\ BizOf \in [Approvals -> Businesses]
    /\ MaybeManual \subseteq Businesses
    /\ LiveBiz \subseteq Businesses
    /\ MaxIndex \in Nat
    /\ FollowupLimit \in Nat
    /\ DailyLimit \in Nat
    /\ Overrides \subseteq Statuses
    /\ Stages \subseteq DealStates
    /\ NoApproval \notin Approvals
    /\ MaxFaults \in Nat
    /\ MaxRequeues \in Nat
    /\ MaxSwitches \in Nat
    /\ Ageing \subseteq Keys

VARIABLES
    manual,     \* businesses whose messages an operator sends by hand: a business keeps
                \* its channel from one approval to the next
    factory,    \* is the mode in the settings snapshot of the worker process live
    status,     \* businesses.status
    deal,       \* deals.state, "none" without a row
    dnc,        \* businesses with rows in do_not_contact
    events,     \* the inbound events of outreach_events, by business
    decision,   \* approvals.decision, "pending" for null, "none" without a row
    latest,     \* the approval with the latest decidedAt among the approved
    thread,     \* the approval of the newest initial message of a business
    msg,        \* outreach_messages.state, "none" without a row
    recent,     \* is the timestamp the budget looks at within 24 hours
    at,         \* where the job of a key is
    tries,      \* executions of the job
    saw,        \* the approval, or the initial message's, a handler read first
    mode,       \* outreachMode of the handler: was the switch live when it looked
    stopped,    \* history: was the key already to be stopped when the job began
    calls,      \* history: live transport calls
    wire,       \* history: messages that really left
    faults,
    requeues,
    switches

setting == <<manual, factory>>
business == <<status, deal, dnc, events>>
approval == <<decision, latest>>
message == <<thread, msg, recent>>
memory == <<mode, stopped>>
handler == <<at, tries, saw, memory>>
history == <<calls, wire>>
context == <<setting, faults, requeues, switches>>
vars == <<business, approval, message, handler, history, context>>

TypeOK ==
    /\ status \in [Businesses -> Statuses]
    /\ deal \in [Businesses -> DealStates \cup {"none"}]
    /\ dnc \in SUBSET Businesses
    /\ events \in [Businesses -> SUBSET Events]
    /\ decision \in [Approvals -> {"none", "pending", "approved", "rejected"}]
    /\ latest \in [Businesses -> Approvals \cup {NoApproval}]
    /\ thread \in [Businesses -> Approvals \cup {NoApproval}]
    /\ msg \in [Keys -> MessageState]
    /\ recent \in [Keys -> BOOLEAN]
    /\ at \in [Keys -> Waiting \cup Over \cup Steps]
    /\ tries \in [Keys -> Nat]
    /\ saw \in [Keys -> Approvals \cup {NoApproval}]
    /\ mode \in [Keys -> BOOLEAN]
    /\ stopped \in [Keys -> BOOLEAN]
    /\ calls \in [Keys -> Nat]
    /\ wire \in [Keys -> Nat]
    /\ faults \in Nat
    /\ requeues \in Nat
    /\ switches \in Nat
    /\ manual \in SUBSET MaybeManual
    /\ factory \in BOOLEAN

Init ==
    /\ manual \in SUBSET MaybeManual
    /\ factory \in BOOLEAN
    /\ status = [b \in Businesses |-> "site_ready"]
    /\ deal = [b \in Businesses |-> "none"]
    /\ dnc = {}
    /\ events = [b \in Businesses |-> {}]
    /\ decision = [a \in Approvals |-> "none"]
    /\ latest = [b \in Businesses |-> NoApproval]
    /\ thread = [b \in Businesses |-> NoApproval]
    /\ msg = [k \in Keys |-> "none"]
    /\ recent = [k \in Keys |-> FALSE]
    /\ at = [k \in Keys |-> "none"]
    /\ tries = [k \in Keys |-> 0]
    /\ saw = [k \in Keys |-> NoApproval]
    /\ mode = [k \in Keys |-> FALSE]
    /\ stopped = [k \in Keys |-> FALSE]
    /\ calls = [k \in Keys |-> 0]
    /\ wire = [k \in Keys |-> 0]
    /\ faults = 0
    /\ requeues = 0
    /\ switches = 0

-----------------------------------------------------------------------------
(***************************************************************************)
(* The operator's decisions.                                               *)
(***************************************************************************)

\* request-approval writes a pending row unless the business has one, which it
\* then refreshes.
RequestApproval(a) ==
    /\ decision[a] = "none"
    /\ \A c \in Approvals : BizOf[c] = BizOf[a] => decision[c] # "pending"
    /\ decision' = [decision EXCEPT ![a] = "pending"]
    /\ UNCHANGED <<business, latest, message, handler, history, context>>

Approve(a) ==
    LET b == BizOf[a] IN
    /\ decision[a] = "pending"
    /\ status[b] = "site_ready"
    /\ decision' = [decision EXCEPT ![a] = "approved"]
    /\ latest' = [latest EXCEPT ![b] = a]
    /\ status' = [status EXCEPT ![b] = "outreach_approved"]
    /\ at' = [at EXCEPT ![<<a, 0>>] = IF @ \in {"none"} \cup Over THEN "queued" ELSE @]
    /\ tries' = [tries EXCEPT ![<<a, 0>>] = IF at[<<a, 0>>] \in Over THEN 0 ELSE @]
    /\ UNCHANGED <<deal, dnc, events, message, saw, memory, history, context>>

Reject(a) ==
    /\ decision[a] = "pending"
    /\ status[BizOf[a]] = "site_ready"
    /\ decision' = [decision EXCEPT ![a] = "rejected"]
    /\ status' = [status EXCEPT ![BizOf[a]] = "rejected"]
    /\ UNCHANGED <<deal, dnc, events, latest, message, handler, history, context>>

\* A delayed follow-up job per index, unless its run is still active.
WithFollowups(jobs, a) ==
    [k \in Keys |->
        IF k[1] = a /\ ~IsInitial(k) /\ jobs[k] \in {"none"} \cup Over THEN "queued" ELSE jobs[k]]

\* The initial message of a is out and the business is moved on with it.
Contacted(a, jobs) ==
    LET b == BizOf[a] IN
    /\ status' = [status EXCEPT ![b] = "contacted"]
    /\ deal' = [deal EXCEPT ![b] = IF @ = "none" THEN "contacted" ELSE @]
    /\ at' = WithFollowups(jobs, a)

ConfirmManualSend(a) ==
    LET k == <<a, 0>> IN
    /\ decision[a] = "approved"
    /\ msg[k] = "manual_pending"
    /\ status[BizOf[a]] = "outreach_approved"
    /\ msg' = [msg EXCEPT ![k] = "sent"]
    /\ recent' = [recent EXCEPT ![k] = TRUE]
    /\ Contacted(a, at)
    /\ UNCHANGED <<dnc, events, approval, thread, tries, saw, memory, history, context>>

MarkDoNotContact(b) ==
    /\ dnc' = dnc \cup {b}
    /\ status' = [status EXCEPT ![b] = "do_not_contact"]
    /\ UNCHANGED <<deal, events, approval, message, handler, history, context>>

\* Both commands override the status the business has, whatever it is.
UpdateDealStage(b, s) ==
    /\ status' = [status EXCEPT ![b] = s]
    /\ deal' = [deal EXCEPT ![b] = s]
    /\ UNCHANGED <<dnc, events, approval, message, handler, history, context>>

OverrideStatus(b, s) ==
    /\ status' = [status EXCEPT ![b] = s]
    /\ UNCHANGED <<deal, dnc, events, approval, message, handler, history, context>>

\* /internal/jobs enqueues any job whose run is not active.
Requeue(k) ==
    /\ requeues < MaxRequeues
    /\ requeues' = requeues + 1
    /\ decision[k[1]] # "none"
    /\ at[k] \in Over \/ (IsInitial(k) /\ at[k] = "none")
    /\ at' = [at EXCEPT ![k] = "queued"]
    /\ tries' = [tries EXCEPT ![k] = 0]
    /\ UNCHANGED <<business, approval, message, saw, memory, history, setting, faults, switches>>

\* An operator switches the factory between live and dry run, and a refresh of
\* the settings brings the new mode to the worker, also in the middle of a send.
SwitchMode ==
    /\ switches < MaxSwitches
    /\ switches' = switches + 1
    /\ factory' = ~factory
    /\ UNCHANGED <<business, approval, message, handler, history, manual, faults, requeues>>

-----------------------------------------------------------------------------
(***************************************************************************)
(* The handlers sendOutreachHandler (index 0) and sendFollowupHandler.     *)
(***************************************************************************)

Goto(k, place) == at' = [at EXCEPT ![k] = place]

\* The handler throws: a follow-up is tried again within its retry limit, an
\* initial message never.
AfterThrow(k) == IF ~IsInitial(k) /\ tries[k] <= FollowupLimit THEN "queued" ELSE "failed"

\* Delivery is live when the factory and the campaign both are.
Live(k) == factory /\ BizOfKey(k) \in LiveBiz

Start(k) ==
    /\ at[k] = "queued"
    /\ Goto(k, IF IsInitial(k) THEN "approval" ELSE "initial")
    /\ tries' = [tries EXCEPT ![k] = @ + 1]
    /\ stopped' = [stopped EXCEPT ![k] =
           \/ BizOfKey(k) \in dnc
           \/ ~IsInitial(k) /\ events[BizOfKey(k)] # {}]
    /\ mode' = [mode EXCEPT ![k] = IF IsInitial(k) THEN @ ELSE Live(k)]
    /\ UNCHANGED <<business, approval, message, saw, history, context>>

\* Gate 1 of the initial message: an approved approval of the business.
ReadApproval(k) ==
    LET a == latest[BizOfKey(k)] IN
    /\ at[k] = "approval"
    /\ Goto(k, IF a = NoApproval THEN AfterThrow(k) ELSE "status")
    /\ saw' = [saw EXCEPT ![k] = a]
    /\ UNCHANGED <<business, approval, message, tries, memory, history, context>>

MutReadStatus(k) ==
    /\ at[k] = "status"
    /\ IsInitial(k)
    /\ Goto(k, IF status[BizOfKey(k)] # "outreach_approved" THEN "done" ELSE "dnc")
    /\ mode' = [mode EXCEPT ![k] = Live(k)]
    /\ UNCHANGED <<business, approval, message, tries, saw, stopped, history, context>>

\* The approval is stale unless the business still waits to be contacted; a job
\* for another approval than the one read throws.
ReadStatus(k) ==
    /\ at[k] = "status"
    /\ IsInitial(k)
    /\ Goto(k, IF status[BizOfKey(k)] # "outreach_approved" THEN "done"
               ELSE IF saw[k] # k[1] THEN AfterThrow(k) ELSE "dnc")
    /\ mode' = [mode EXCEPT ![k] = Live(k)]
    /\ UNCHANGED <<business, approval, message, tries, saw, stopped, history, context>>

MutReadDnc(k) ==
    /\ at[k] = "dnc"
    /\ IsInitial(k)
    /\ Goto(k, "reserve")
    /\ UNCHANGED <<business, approval, message, tries, saw, memory, history, context>>

\* Gate 2: a blocked business is moved to do_not_contact by compare-and-set
\* retries, which the model collapses into one step.
ReadDnc(k) ==
    LET b == BizOfKey(k) IN
    /\ at[k] = "dnc"
    /\ IsInitial(k)
    /\ Goto(k, IF b \in dnc THEN "done" ELSE "reserve")
    /\ status' = [status EXCEPT ![b] = IF b \in dnc THEN "do_not_contact" ELSE @]
    /\ UNCHANGED <<deal, dnc, events, approval, message, tries, saw, memory, history, context>>

\* A follow-up reads the newest initial message of the business, then
\* followupSkipReason asks the tables one after the other.
ReadInitial(k) ==
    LET a == thread[BizOfKey(k)] IN
    /\ at[k] = "initial"
    /\ Goto(k, IF a # NoApproval /\ msg[<<a, 0>>] \in {"sent", "simulated"}
               THEN "status" ELSE "done")
    /\ saw' = [saw EXCEPT ![k] = a]
    /\ UNCHANGED <<business, approval, message, tries, memory, history, context>>

\* The follow-up goes on from one stop condition to the next unless it holds.
Gate(k, place, stop, next) ==
    /\ at[k] = place
    /\ ~IsInitial(k)
    /\ Goto(k, IF stop THEN "done" ELSE next)
    /\ UNCHANGED <<business, approval, message, tries, saw, memory, history, context>>

StatusGate(k) == Gate(k, "status", status[BizOfKey(k)] \in BeyondContacted, "deal")
DealGate(k) == Gate(k, "deal", deal[BizOfKey(k)] \notin {"none", "contacted"}, "events")
MutEventsGate(k) == Gate(k, "events", "replied" \in events[BizOfKey(k)], "dnc")
EventsGate(k) == Gate(k, "events", events[BizOfKey(k)] # {}, "dnc")
DncGate(k) == Gate(k, "dnc", BizOfKey(k) \in dnc, "reserve")

Automated(k) == BizOfKey(k) \notin manual
Counted == {k \in Keys : Automated(k) /\ recent[k] /\ msg[k] \in CountedStates}

MutBudgetFull(k) ==
    Cardinality({c \in Counted : msg[c] # "queued"}) >= DailyLimit /\ Automated(k)
BudgetFull(k) == Automated(k) /\ Cardinality(Counted) >= DailyLimit

MutReservable(k) == msg[k] \in {"none", "failed", "delivery_unknown"}
Reservable(k) == msg[k] \in {"none", "failed"}

\* The row of the key exists and has not failed: a duplicate delivery.
ReserveDuplicate(k) ==
    /\ at[k] = "reserve"
    /\ ~Reservable(k)
    /\ Goto(k, "done")
    /\ UNCHANGED <<business, approval, message, tries, saw, memory, history, context>>

ReserveOverBudget(k) ==
    /\ at[k] = "reserve"
    /\ Reservable(k)
    /\ BudgetFull(k)
    /\ Goto(k, AfterThrow(k))
    /\ UNCHANGED <<business, approval, message, tries, saw, memory, history, context>>

\* A new row, or the failed row reclaimed: the intent and the budget slot.
Reserve(k) ==
    LET b == BizOfKey(k) IN
    /\ at[k] = "reserve"
    /\ Reservable(k)
    /\ ~BudgetFull(k)
    /\ msg' = [msg EXCEPT ![k] = "queued"]
    /\ recent' = [recent EXCEPT ![k] = TRUE]
    /\ thread' = [thread EXCEPT ![b] = IF msg[k] = "none" /\ IsInitial(k) THEN k[1] ELSE @]
    /\ Goto(k, "transport")
    /\ UNCHANGED <<business, approval, tries, saw, memory, history, context>>

\* Nothing leaves on a manual channel: the card waits for the operator.
HandOver(k) ==
    /\ at[k] = "transport"
    /\ ~Automated(k)
    /\ Goto(k, "finalize")
    /\ UNCHANGED <<business, approval, message, tries, saw, memory, history, context>>

DryRun(k) ==
    /\ at[k] = "transport"
    /\ Automated(k)
    /\ ~mode[k]
    /\ Goto(k, "finalize")
    /\ UNCHANGED <<business, approval, message, tries, saw, memory, history, context>>

\* sendLive: accepted, refused before anything left (NotConfiguredError), or an
\* error after which the message may have left.
SendLive(k, left, outcome) ==
    /\ at[k] = "transport"
    /\ Automated(k)
    /\ mode[k]
    /\ calls' = [calls EXCEPT ![k] = @ + 1]
    /\ wire' = [wire EXCEPT ![k] = @ + left]
    /\ Goto(k, outcome)
    /\ UNCHANGED <<business, approval, message, tries, saw, memory, context>>

SendAccepted(k) == SendLive(k, 1, "finalize")
SendRefused(k) == SendLive(k, 0, "unsent")
SendAmbiguous(k) == \E left \in {0, 1} : SendLive(k, left, "unknown")

MutResult(k) ==
    IF ~Automated(k) THEN "manual_pending" ELSE IF Live(k) THEN "sent" ELSE "simulated"

Result(k) ==
    IF ~Automated(k) THEN "manual_pending" ELSE IF mode[k] THEN "sent" ELSE "simulated"

\* The transaction that records the result, or finds that a bounce was faster.
FinalizeNone(k) ==
    /\ at[k] = "finalize"
    /\ msg[k] # "queued"
    /\ Goto(k, "done")
    /\ UNCHANGED <<business, approval, message, tries, saw, memory, history, context>>

RecordResult(k) ==
    /\ msg' = [msg EXCEPT ![k] = Result(k)]
    /\ recent' = [recent EXCEPT ![k] = TRUE]

MutFinalizeInitial(k) ==
    /\ at[k] = "finalize"
    /\ IsInitial(k)
    /\ msg[k] = "queued"
    /\ RecordResult(k)
    /\ Goto(k, "done")
    /\ UNCHANGED <<business, approval, thread, tries, saw, memory, history, context>>

FinalizeInitial(k) ==
    /\ at[k] = "finalize"
    /\ IsInitial(k)
    /\ msg[k] = "queued"
    /\ RecordResult(k)
    /\ LET over == [at EXCEPT ![k] = "done"] IN
       IF Automated(k) /\ status[BizOfKey(k)] = "outreach_approved"
       THEN Contacted(k[1], over)
       ELSE at' = over /\ UNCHANGED <<status, deal>>
    /\ UNCHANGED <<dnc, events, approval, thread, tries, saw, memory, history, context>>

FinalizeFollowup(k) ==
    /\ at[k] = "finalize"
    /\ ~IsInitial(k)
    /\ msg[k] = "queued"
    /\ RecordResult(k)
    /\ Goto(k, "done")
    /\ UNCHANGED <<business, approval, thread, tries, saw, memory, history, context>>

\* markDeliveryFailure, then the handler throws.
MutMarkFailure(k) ==
    /\ at[k] \in {"unsent", "unknown"}
    /\ Goto(k, AfterThrow(k))
    /\ UNCHANGED <<business, approval, message, tries, saw, memory, history, context>>

MarkFailure(k) ==
    /\ at[k] \in {"unsent", "unknown"}
    /\ msg' = [msg EXCEPT ![k] = IF @ # "queued" THEN @
                                 ELSE IF at[k] = "unknown" THEN "delivery_unknown"
                                 ELSE "failed"]
    /\ recent' = [recent EXCEPT ![k] = @ \/ (at[k] = "unknown" /\ msg[k] = "queued")]
    /\ Goto(k, AfterThrow(k))
    /\ UNCHANGED <<business, approval, thread, tries, saw, memory, history, context>>

-----------------------------------------------------------------------------
(***************************************************************************)
(* Failures, inbound messages and time.                                    *)
(***************************************************************************)

MayFail ==
    /\ faults < MaxFaults
    /\ faults' = faults + 1
    /\ UNCHANGED <<setting, requeues, switches>>

\* A failed read or reservation is thrown; a failed recording is only logged
\* and the original error thrown.
DatabaseError(k) ==
    /\ MayFail
    /\ at[k] \in Reading \cup {"unsent", "unknown"}
    /\ Goto(k, AfterThrow(k))
    /\ UNCHANGED <<business, approval, message, tries, saw, memory, history>>

FinalizeFails(k) ==
    /\ MayFail
    /\ at[k] = "finalize"
    /\ Goto(k, IF mode[k] /\ Automated(k) THEN "unknown" ELSE "unsent")
    /\ UNCHANGED <<business, approval, message, tries, saw, memory, history>>

\* The container stops and boots again: reconciliation fails the runs it left.
Crash ==
    /\ MayFail
    /\ \E k \in Keys : at[k] \in Steps
    /\ at' = [k \in Keys |-> IF at[k] \in Steps THEN "lost" ELSE at[k]]
    /\ UNCHANGED <<business, approval, message, tries, saw, memory, history>>

\* The queued follow-up jobs of a business are cancelled with the inbound event.
CancelFollowups(b) ==
    at' = [k \in Keys |->
        IF k \in KeysOf(b) /\ ~IsInitial(k) /\ at[k] = "queued" THEN "cancelled" ELSE at[k]]

\* Any known contact of a business may write at any time.
Reply(b) ==
    LET keep == status[b] \in ReplyPreserves IN
    /\ events' = [events EXCEPT ![b] = @ \cup {"replied"}]
    /\ status' = [status EXCEPT ![b] = IF keep THEN @ ELSE "replied"]
    /\ deal' = [deal EXCEPT ![b] = IF keep THEN @ ELSE "replied"]
    /\ CancelFollowups(b)
    /\ UNCHANGED <<dnc, approval, message, tries, saw, memory, history, context>>

OptOut(b) ==
    /\ events' = [events EXCEPT ![b] = @ \cup {"opted_out"}]
    /\ dnc' = dnc \cup {b}
    /\ status' = [status EXCEPT ![b] = "do_not_contact"]
    /\ CancelFollowups(b)
    /\ UNCHANGED <<deal, approval, message, tries, saw, memory, history, context>>

MutBounce(b) ==
    /\ events' = [events EXCEPT ![b] = @ \cup {"bounced"}]
    /\ \/ UNCHANGED msg
       \/ \E m \in KeysOf(b) : wire[m] > 0 /\ msg' = [msg EXCEPT ![m] = "bounced"]
    /\ CancelFollowups(b)
    /\ UNCHANGED <<status, deal, dnc, approval, thread, recent, tries, saw, memory,
                   history, context>>

\* A bounce is matched to a message that left, or to a contact only; the
\* message is failed whatever its state.
Bounce(b) ==
    /\ events' = [events EXCEPT ![b] = @ \cup {"bounced"}]
    /\ \/ UNCHANGED msg
       \/ \E m \in KeysOf(b) : wire[m] > 0 /\ msg' = [msg EXCEPT ![m] = "failed"]
    /\ CancelFollowups(b)
    /\ UNCHANGED <<status, deal, dnc, approval, thread, recent, tries, saw, memory,
                   history, context>>

\* 24 hours pass over a message; a handler lives 30 minutes at most.
AgeOut(k) ==
    /\ k \in Ageing
    /\ recent[k]
    /\ at[k] \notin Steps
    /\ recent' = [recent EXCEPT ![k] = FALSE]
    /\ UNCHANGED <<business, approval, thread, msg, handler, history, context>>

Handler(k) ==
    \/ Start(k)
    \/ ReadApproval(k) \/ ReadStatus(k) \/ ReadDnc(k)
    \/ ReadInitial(k) \/ StatusGate(k) \/ DealGate(k) \/ EventsGate(k) \/ DncGate(k)
    \/ ReserveDuplicate(k) \/ ReserveOverBudget(k) \/ Reserve(k)
    \/ HandOver(k) \/ DryRun(k) \/ SendAccepted(k) \/ SendRefused(k) \/ SendAmbiguous(k)
    \/ FinalizeNone(k) \/ FinalizeInitial(k) \/ FinalizeFollowup(k) \/ MarkFailure(k)

Operator ==
    \/ SwitchMode
    \/ \E a \in Approvals :
          RequestApproval(a) \/ Approve(a) \/ Reject(a) \/ ConfirmManualSend(a)
    \/ \E b \in Businesses : MarkDoNotContact(b)
    \/ \E b \in Businesses, s \in Stages : UpdateDealStage(b, s)
    \/ \E b \in Businesses, s \in Overrides : OverrideStatus(b, s)
    \/ \E k \in Keys : Requeue(k)

Inbound == \E b \in Businesses : Reply(b) \/ OptOut(b) \/ Bounce(b)

Failure ==
    \/ \E k \in Keys : DatabaseError(k) \/ FinalizeFails(k)
    \/ Crash

Next ==
    \/ Operator
    \/ Inbound
    \/ Failure
    \/ \E k \in Keys : Handler(k) \/ AgeOut(k)

Spec == Init /\ [][Next]_vars

\* A queued job is fetched and its handler runs on.
FairSpec == Spec /\ \A k \in Keys : WF_vars(Handler(k))

-----------------------------------------------------------------------------
(***************************************************************************)
(* Properties.                                                             *)
(***************************************************************************)

\* Parallel reservations never overshoot the daily budget, whatever failures,
\* late finalizations and bounces do to the rows it counts.
BudgetHeld == Cardinality(Counted) <= DailyLimit

\* A message that left is on record as one that may have left: only a bounce
\* makes its row failed, the state from which a key is reserved again.
DepartureOnRecord ==
    \A k \in Keys : wire[k] > 0 /\ "bounced" \notin events[BizOfKey(k)] =>
        \/ msg[k] \in {"sent", "delivery_unknown"}
        \/ msg[k] = "queued" /\ at[k] \notin {"transport", "unsent"}

\* Retries of the job, redeliveries, crashes and operators' requeues never put
\* the same message on the wire twice, unless the channel returned the first.
SentOnce == \A k \in Keys : wire[k] > 1 => "bounced" \in events[BizOfKey(k)]

\* No job that was already to be stopped when it began reaches the transport,
\* whatever the operator does to the status meanwhile.
StoppedStaysSilent == \A k \in Keys : at[k] = "transport" => ~stopped[k]

\* A message leaves only under its own approved approval, whichever approvals
\* the business had and whichever send jobs an operator enqueued by hand.
NothingUnapproved ==
    \A k \in Keys : calls[k] > 0 => decision[k[1]] = "approved"

\* A delivered initial message and the move to contacted commit together: no
\* business waits to be contacted under an approval whose message went out,
\* unless its row was bounced.  Operators do not set outreach_approved by hand.
DeliveredMeansMoved ==
    \A b \in Businesses :
        latest[b] # NoApproval /\ msg[<<latest[b], 0>>] \in {"sent", "simulated"} =>
            status[b] # "outreach_approved"

\* Every reservation is settled: the slot of the budget is not held by a
\* message whose handler is gone, unless a fault intervenes.
ReservationSettles == \A k \in Keys : msg[k] = "queued" ~> msg[k] # "queued" \/ faults > 0

\* Until something fails, a reservation has the handler that made it, on its way to
\* settle it: no cancellation, bounce, requeue or second delivery separates them.
ReservationIsHandled ==
    faults = 0 => \A k \in Keys : msg[k] = "queued" =>
        at[k] \in {"transport", "finalize", "unsent", "unknown"}

-----------------------------------------------------------------------------
(***************************************************************************)
(* What the documents say and the code does not do.                        *)
(***************************************************************************)

\* channels/types.ts:40-43 and workers/outreach.ts:405: a send that failed is
\* never attempted again.  The retry of send-followup reclaims its failed row.
NeverRetried == \A k \in Keys : calls[k] <= 1

\* docs/OUTREACH.md:203-206: a message the provider may have accepted goes to
\* delivery_unknown when its finalization is not confirmed.
DoubtIsRecorded ==
    \A k \in Keys : wire[k] > 0 /\ at[k] \in Over => msg[k] # "queued"

\* docs/OUTREACH.md:214-215: the checks at execution are the real gate and a
\* missed cancellation is never a superfluous send.
NothingAfterReply ==
    [][\A k \in Keys : ~IsInitial(k) /\ events[BizOfKey(k)] # {} => wire'[k] = wire[k]]_vars
=============================================================================
