------------------------------- MODULE RunLedger -------------------------------
(***************************************************************************)
(* What workflow_job_runs promises to whoever reads it (the console, the   *)
(* enqueue, the operator), with no queue, worker or attempt in sight: a    *)
(* command opens a run of a key that has none open; an open run ends once, *)
(* either done, parked on a person's desk or dropped; a parked run can     *)
(* only be dropped.  WorkflowQueue implements it.                          *)
(***************************************************************************)
CONSTANTS Keys, Runs, KeyOf

VARIABLE ledger

Outcome == {"unused", "open", "done", "parked", "dropped"}

\* dropped -> done: a handler that finds nothing left to do records its skip
\* without looking at the run's status, so it may replace a cancellation.
Moves == {<<"open", "done">>, <<"open", "parked">>, <<"open", "dropped">>,
          <<"parked", "dropped">>, <<"dropped", "done">>}

Init == ledger = [r \in Runs |-> "unused"]

Open(r) ==
    /\ ledger[r] = "unused"
    /\ \A s \in Runs : KeyOf[s] = KeyOf[r] => ledger[s] # "open"
    /\ ledger' = [ledger EXCEPT ![r] = "open"]

\* Several runs may end in one transaction: an archive or a boot pass.
End ==
    /\ ledger' \in [Runs -> Outcome]
    /\ \A r \in Runs : ledger'[r] = ledger[r] \/ <<ledger[r], ledger'[r]>> \in Moves

Next == (\E r \in Runs : Open(r)) \/ End

Spec == Init /\ [][Next]_ledger
=============================================================================
