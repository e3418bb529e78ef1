----------------------- MODULE MCMonitoringScheduler -----------------------
(* TLC instances of MonitoringScheduler.                                   *)
EXTENDS MonitoringScheduler, TLC

=============================================================================
