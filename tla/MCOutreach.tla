------------------------------ MODULE MCOutreach ------------------------------
(***************************************************************************)
(* Instances of Outreach for TLC.                                          *)
(***************************************************************************)
EXTENDS Outreach

CONSTANTS a1, a2, b1

\* Every message grows older than a day, or none does.
MCAllAge == Keys
MCNoneAges == {}

\* All approvals are of one business.
MCOneBusiness == [a \in Approvals |-> b1]
=============================================================================
