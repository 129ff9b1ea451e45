-------------------------- MODULE MCMissionControl ---------------------------
(***************************************************************************)
(* Small instances of MissionControl for TLC.                              *)
(***************************************************************************)
EXTENDS MissionControl, TLC

CONSTANTS t1, t2, d1, d2

\* One direct task, and a split task of one unit beside a direct one.
DirectTask == (t1 :> 0)
MixedTasks == (t1 :> 1) @@ (t2 :> 0)
=============================================================================
