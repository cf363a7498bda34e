--------------------------- MODULE MCLoginLimiter ---------------------------
(***************************************************************************)
(* Instances of LoginLimiter for TLC.                                      *)
(***************************************************************************)
EXTENDS LoginLimiter, TLC

CONSTANTS u1, u2, q1, q2, q3

Symmetry == Permutations({u1, u2}) \union Permutations({q1, q2, q3})
=============================================================================
