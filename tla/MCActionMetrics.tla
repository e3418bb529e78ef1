-------------------------- MODULE MCActionMetrics --------------------------
(* TLC instances of ActionMetrics.                                         *)
EXTENDS ActionMetrics
=============================================================================
