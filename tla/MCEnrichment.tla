----------------------------- MODULE MCEnrichment -----------------------------
(***************************************************************************)
(* An instance of EnrichmentBarrier for TLC: the configuration gives its   *)
(* constants, numbers and sets of strings.                                 *)
(***************************************************************************)
EXTENDS EnrichmentBarrier

\* An open generation lost the job of one of its branches.
Abandoned ==
    \E g \in Gens, br \in Branches :
        /\ run[g].state = "running" /\ run[g].branch[br] = "pending"
        /\ job[<<g, br>>] \in Over

\* One thing goes wrong, or is done by hand, in a behaviour; the latter while the
\* jobs from before the barrier wait.  A second error may hit the enrichment that
\* is to replace an abandoned generation.
MCNext ==
    /\ Next
    /\ \/ throws' + faults' + acts' <= 1
       \/ faults' + acts' = 0 /\ (throws' > throws => Abandoned /\ EnrichThrows)
    /\ acts' > 0 => \A br \in LegacyJobs : job'[<<0, br>>] = "queued"

MCSpec == Init /\ [][MCNext]_vars /\ Fairness
=============================================================================
