--------------------------- MODULE MCNotifications ---------------------------
(***************************************************************************)
(* Instances of Notifications for TLC.                                     *)
(***************************************************************************)
EXTENDS Notifications, TLC

CONSTANTS n1, n2, n3, t1
=============================================================================
