--------------------------- MODULE MCMailIngestion ---------------------------
(***************************************************************************)
(* Instances of MailIngestion for TLC.                                     *)
(***************************************************************************)
EXTENDS MailIngestion, TLC

CONSTANTS m1, m2, i1, i2, i3, i4, p1, p2, s1
=============================================================================
