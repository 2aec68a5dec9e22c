---------------------------- MODULE MCMqttClient ----------------------------
(* Small instance of MqttClient for TLC: every set of faults, one for each  *)
(* execution.                                                               *)
EXTENDS MqttClient

AnyFaults == SUBSET FaultKind
=============================================================================
