---------------------------- MODULE MCLiveUpdates ----------------------------
(***************************************************************************)
(* An instance of LiveUpdates for TLC.                                     *)
(***************************************************************************)
EXTENDS LiveUpdates

CONSTANTS v1, v2
=============================================================================
