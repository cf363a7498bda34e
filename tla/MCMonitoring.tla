---------------------------- MODULE MCMonitoring ----------------------------
(***************************************************************************)
(* Instances of Monitoring for TLC: one instance in AWS, one in Azure, and *)
(* no client for GCP.                                                      *)
(***************************************************************************)
EXTENDS Monitoring, TLC

CONSTANTS a1, z1, q1, q2

TwoClouds == [i \in Instances |-> IF i = a1 THEN "AWS" ELSE "Azure"]

FewStates == [AWS |-> {"running", "stopping"}, Azure |-> {"VM running", "VM stopping"},
              GCP |-> {"RUNNING"}]

Alike == Permutations(Queries)
=============================================================================
