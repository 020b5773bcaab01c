------------------------------ MODULE MCPullSync ------------------------------
(***************************************************************************)
(* PullSync for TLC: two jobs and two writers at a time, with pages that   *)
(* are full with one job and pages that hold both.                         *)
(***************************************************************************)
EXTENDS PullSync
=============================================================================
