---------------------------- MODULE MCMqttClient ----------------------------
(* Small instances of MqttClient for TLC. *)
EXTENDS MqttClient

CONSTANTS t1, t2   \* topics, as model values
=============================================================================
