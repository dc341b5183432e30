------------------------------- MODULE MCLogin -------------------------------
(***************************************************************************)
(* An instance of AccountLogin.  The two providers share the executor and  *)
(* the checks and nothing else, so one of them is busy at a time: two      *)
(* logins one after the other, of either.                                  *)
(***************************************************************************)
EXTENDS AccountLogin

MCTwo == [p \in Providers |-> 2]
MCCheckIds == {1}

Busy == {p \in Providers :
            \/ started[p] > 0
            \/ leaving[p] # "no"
            \/ chip[p] # "none"
            \/ \E c \in CheckIds : probe[c].of = p}

MCNext == LoginNext /\ \A p, q \in Busy' : p = q

MCSpec == LoginInit /\ [][MCNext]_loginVars /\ LoginFairness
=============================================================================
