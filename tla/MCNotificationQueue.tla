-------------------------- MODULE MCNotificationQueue --------------------------
(***************************************************************************)
(* NotificationQueue for TLC: two rows, two dispatchers and a page.        *)
(***************************************************************************)
EXTENDS NotificationQueue
=============================================================================
