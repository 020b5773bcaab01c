---------------------------- MODULE MCDeviceToken ----------------------------
(***************************************************************************)
(* DeviceToken for TLC.  There is no symmetry: a sign-in takes the first    *)
(* row nobody remembers, a rotation the first token.                       *)
(***************************************************************************)
EXTENDS DeviceToken, TLC
=============================================================================
