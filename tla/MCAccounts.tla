----------------------------- MODULE MCAccounts -----------------------------
(***************************************************************************)
(* Instances of Accounts for TLC: PostgreSQL, where every row has a lock   *)
(* of its own.                                                             *)
(***************************************************************************)
EXTENDS Accounts

CONSTANTS u1, u2, u3, q1, q2

RowLocks == [u \in Ids |-> u]
=============================================================================
