---------------------------- MODULE MCSignedSheet ----------------------------
(***************************************************************************)
(* SignedSheet for TLC: two signers.                                       *)
(***************************************************************************)
EXTENDS SignedSheet
=============================================================================
