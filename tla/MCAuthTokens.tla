---------------------------- MODULE MCAuthTokens ----------------------------
(***************************************************************************)
(* Instances of AuthTokens for TLC.                                        *)
(***************************************************************************)
EXTENDS AuthTokens, TLC

CONSTANTS admin, bob, t1, t2, s1, q1, q2

Symmetry == Permutations({t1, t2}) \union Permutations({q1, q2})
=============================================================================
