--------------------------- MODULE MCMqttCommands ---------------------------
(* Small instances of MqttCommands for TLC.                                 *)
EXTENDS MqttCommands, TLC

MCSymmetry == Permutations(Ids) \cup Permutations(Bodies)
=============================================================================
