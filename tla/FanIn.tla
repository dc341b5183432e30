--------------------------------- MODULE FanIn ---------------------------------
(***************************************************************************)
(* What the enrichment barrier promises of the generations of one          *)
(* business: the branches of a generation report, a generation whose       *)
(* branches all succeeded is joined once and then scored, and a new        *)
(* generation replaces one that is still in progress.                      *)
(***************************************************************************)
EXTENDS Naturals

CONSTANTS Gens, Branches

VARIABLES
    phase,      \* where each generation is
    evidence    \* the branches that delivered, by generation

fan == <<phase, evidence>>

InProgress(g) == phase[g] \in {"open", "joined"}

FanInit ==
    /\ phase = [g \in Gens |-> "none"]
    /\ evidence = [g \in Gens |-> {}]

Begin(g) ==
    /\ phase[g] = "none"
    /\ \A h \in Gens : h < g => phase[h] # "none"
    /\ phase' = [h \in Gens |->
           IF h = g THEN "open" ELSE IF InProgress(h) THEN "superseded" ELSE phase[h]]
    /\ UNCHANGED evidence

Deliver(g, br) ==
    /\ phase[g] \in {"open", "blocked"}
    /\ br \notin evidence[g]
    /\ evidence' = [evidence EXCEPT ![g] = @ \cup {br}]
    /\ phase' = [phase EXCEPT ![g] =
           IF @ = "open" /\ evidence[g] \cup {br} = Branches THEN "joined" ELSE @]

Block(g) ==
    /\ phase[g] = "open"
    /\ phase' = [phase EXCEPT ![g] = "blocked"]
    /\ UNCHANGED evidence

Close(g) ==
    /\ phase[g] = "joined"
    /\ phase' = [phase EXCEPT ![g] = "closed"]
    /\ UNCHANGED evidence

FanNext == \E g \in Gens : Begin(g) \/ Block(g) \/ Close(g) \/ \E br \in Branches : Deliver(g, br)

FanSpec == FanInit /\ [][FanNext]_fan
=============================================================================
