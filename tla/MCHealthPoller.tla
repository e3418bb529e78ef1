--------------------------- MODULE MCHealthPoller ---------------------------
(* TLC instance of HealthPoller.                                           *)
EXTENDS HealthPoller, TLC

CONSTANTS t1, t2
MCTenant == {t1, t2}

\* The parts of a check share nothing but the statements that may fail: one
\* tenant is followed by its services, the other by its metrics.
MCProbes == t1 :> {"api", "agent"} @@ t2 :> {"metrics"}

=============================================================================
