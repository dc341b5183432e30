------------------------------- MODULE MCBuild -------------------------------
(***************************************************************************)
(* Instances of BuildPipeline: up to two projects of one business.         *)
(***************************************************************************)
EXTENDS BuildPipeline

MCProjects == 1..2
=============================================================================
