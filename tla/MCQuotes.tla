------------------------------- MODULE MCQuotes -------------------------------
(***************************************************************************)
(* Quotes for TLC: two revisions at a time.                                *)
(***************************************************************************)
EXTENDS Quotes, TLC

RevisionSymmetry == Permutations(Revisions)
=============================================================================
