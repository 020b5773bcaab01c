---------------------------- MODULE MCFieldOrder ----------------------------
(***************************************************************************)
(* FieldSync for TLC, for the order of a job's rows: "on my way" and        *)
(* "arrived" of one job, and the text of a report on a second job that      *)
(* names the arrival as its parent, so that a dependency crosses jobs.      *)
(***************************************************************************)
EXTENDS FieldSync, TLC

CONSTANTS way, arrive, text, job1, job2

MCJobOf     == [m \in Mutations |-> IF m = text THEN job2 ELSE job1]
MCDependsOn == [m \in Mutations |-> IF m = text THEN arrive ELSE NoMutation]
MCKindOf    == [m \in Mutations |-> IF m = text THEN "note" ELSE "status"]

SlotSymmetry == Permutations(Slots)
=============================================================================
