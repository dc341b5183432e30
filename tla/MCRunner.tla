------------------------------- MODULE MCRunner -------------------------------
(***************************************************************************)
(* An instance of RunnerGateway for TLC: two invocations of one workspace. *)
(***************************************************************************)
EXTENDS RunnerGateway

CONSTANTS r1, r2, w1

MCWsOf == [r \in Requests |-> w1]
=============================================================================
