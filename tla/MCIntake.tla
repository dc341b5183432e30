------------------------------ MODULE MCIntake ------------------------------
(***************************************************************************)
(* An instance of Intake: a search finds k1 and k2, two listings with one  *)
(* phone; the operator pastes a link to k3, which has the name of k1 and   *)
(* is near it, but not at the same metre.                                  *)
(***************************************************************************)
EXTENDS Intake

CONSTANTS k1, k2, k3, c1

MCLeads == 1..3
MCIdentity == [k \in Candidates |->
    CASE k = k1 -> {<<"place", 1>>, <<"phone", 1>>, <<"spot", 1>>}
      [] k = k2 -> {<<"phone", 1>>, <<"domain", 1>>}
      [] OTHER -> {<<"spot", 2>>}]
MCName == [k \in Candidates |-> IF k = k2 THEN "other" ELSE "same"]
MCCity == [c \in Campaigns |-> "city"]
MCNear == {k1, k3} \X {k1, k3}
MCTaste == [k \in Candidates |-> IF k = k1 THEN "needs_review" ELSE "prequalified"]
MCScrapes == {<<k1, k2, k3>>}
=============================================================================
