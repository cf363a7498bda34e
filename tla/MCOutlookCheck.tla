--------------------------- MODULE MCOutlookCheck ---------------------------
(***************************************************************************)
(* Instances of OutlookCheck for TLC: every mail leads to the same report. *)
(***************************************************************************)
EXTENDS OutlookCheck

CONSTANTS m1, m2, n1, q1, s1

OneName == [m \in Mails |-> n1]
=============================================================================
