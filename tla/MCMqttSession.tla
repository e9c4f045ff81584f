--------------------------- MODULE MCMqttSession ---------------------------
(* A small instance of MqttSession for TLC.                                 *)
EXTENDS MqttSession
=============================================================================
