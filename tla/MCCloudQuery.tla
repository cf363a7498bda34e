---------------------------- MODULE MCCloudQuery ----------------------------
(***************************************************************************)
(* Instances of CloudQuery for TLC.                                        *)
(***************************************************************************)
EXTENDS CloudQuery, TLC

CONSTANTS q1, q2, e1, e2, e3, e4
=============================================================================
