------------------------------ MODULE MCUploads ------------------------------
(***************************************************************************)
(* Uploads on a small instance: the scanner refuses what a browser sends   *)
(* under its second id, and no other file.                                 *)
(***************************************************************************)
EXTENDS Uploads

MCRefused == {<<b, 2>> : b \in Browsers}
=============================================================================
