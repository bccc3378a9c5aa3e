-------------------------- MODULE MCMonitorSerial --------------------------
(* Instances of MonitorSerial for TLC. *)
EXTENDS MonitorSerial, TLC

=============================================================================
