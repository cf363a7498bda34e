-------------------------- MODULE MCReportPipeline --------------------------
(***************************************************************************)
(* An instance of ReportPipeline for TLC.                                  *)
(***************************************************************************)
EXTENDS ReportPipeline, TLC

CONSTANTS r1, n1, w1, w2

OneReport == r1 :> n1

\* Every task may be retried once, so that the second failure is the last.
RetryOnce == [t \in Tasks |-> 1]
=============================================================================
