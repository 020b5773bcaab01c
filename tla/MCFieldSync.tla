---------------------------- MODULE MCFieldSync ----------------------------
(***************************************************************************)
(* FieldSync for TLC: two mutations of one job, the second (a completion)  *)
(* depending on the first (its photograph), and an attendance event of the *)
(* shift.                                                                  *)
(***************************************************************************)
EXTENDS FieldSync, TLC

CONSTANTS photo, finish, clock, job

MCJobOf     == [m \in Mutations |-> IF m = clock THEN NoJob ELSE job]
MCDependsOn == [m \in Mutations |-> IF m = finish /\ photo \in Mutations THEN photo ELSE NoMutation]
MCKindOf    == [m \in Mutations |-> IF m = finish THEN "outcome" ELSE "append"]

SlotSymmetry == Permutations(Slots)
=============================================================================
