---------------------------- MODULE DemoLifecycle ----------------------------
(***************************************************************************)
(* What the build pipeline promises about every demo it makes, whatever    *)
(* jobs, retries, restarts and commands are behind it: what is shown to    *)
(* the world was judged as it is, by visual QA or by the operator; a demo  *)
(* on the web or one that was given up stays so; one that QA refused is    *)
(* taken up again only by the operator, who accepts it or orders a further *)
(* iteration.                                                              *)
(***************************************************************************)
CONSTANT Demos

VARIABLES
    stage,   \* how far each demo came
    judged   \* the demos whose export was judged since it was last changed

vars == <<stage, judged>>

Stages == {"unborn", "made", "refused", "approved", "public", "dead"}

Init ==
    /\ stage = [d \in Demos |-> "unborn"]
    /\ judged = {}

Moves(d, from, to) ==
    /\ stage[d] \in from
    /\ stage' = [stage EXCEPT ![d] = to]

Begin(d) == Moves(d, {"unborn"}, "made") /\ UNCHANGED judged

\* The agent works on the export: no earlier verdict is about it.
Work(d) == stage[d] = "made" /\ judged' = judged \ {d} /\ UNCHANGED stage

Refuse(d) == Moves(d, {"made"}, "refused") /\ UNCHANGED judged

\* QA passes it, or the operator accepts what QA refused.
Approve(d) == Moves(d, {"made", "refused"}, "approved") /\ judged' = judged \cup {d}

Order(d) == Moves(d, {"refused"}, "made") /\ UNCHANGED judged

Publish(d) == d \in judged /\ Moves(d, {"approved"}, "public") /\ UNCHANGED judged

\* Given up, one or several at once: only what is not on the web.
Drop(ds) ==
    /\ \A d \in ds : stage[d] \notin {"unborn", "public"}
    /\ stage' = [d \in Demos |-> IF d \in ds THEN "dead" ELSE stage[d]]
    /\ UNCHANGED judged

Next ==
    \/ \E d \in Demos : Begin(d) \/ Work(d) \/ Refuse(d) \/ Approve(d) \/ Order(d) \/ Publish(d)
    \/ \E ds \in SUBSET Demos : Drop(ds)

Spec == Init /\ [][Next]_vars
=============================================================================
