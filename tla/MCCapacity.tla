----------------------------- MODULE MCCapacity -----------------------------
(***************************************************************************)
(* An instance of Capacity: two groups, limits of one or two.              *)
(***************************************************************************)
EXTENDS Capacity

MCValues == {0, 2}
MCHandleIds == 1..2
MCLoadIds == 1..2
=============================================================================
