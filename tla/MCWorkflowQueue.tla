--------------------------- MODULE MCWorkflowQueue ---------------------------
(***************************************************************************)
(* Instances of WorkflowQueue for TLC.  Run ids of one key are             *)
(* interchangeable, as are the workers of one container.                   *)
(***************************************************************************)
EXTENDS WorkflowQueue, TLC

CONSTANTS k1, k2, r1, r2, r3, w1, w2, w3, b1

\* Two runs may be drawn for k1, any other run is one of k2.
MCKeyOf == [r \in Runs |-> IF r \in {r1, r2} THEN k1 ELSE k2]
MCBizOf == [k \in Keys |-> b1]

MCGroupBuild == [k \in Keys |-> "build"]
\* k1 is a build job (build-site retries once), k2 a core job.
MCGroupMixed == [k \in Keys |-> IF k = k1 THEN "build" ELSE "core"]
MCHomeBuild == [w \in Workers |-> "build"]
MCHomeMixed == [w \in Workers |-> IF w = w3 THEN "core" ELSE "build"]

MCLimitOne == [k \in Keys |-> 1]

RunWorkerSymmetry == Permutations({r1, r2} \cap Runs) \cup Permutations(Workers)
=============================================================================
