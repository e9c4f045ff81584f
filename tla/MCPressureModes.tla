-------------------------- MODULE MCPressureModes --------------------------
(* A small instance of PressureModes for TLC.                               *)
EXTENDS PressureModes

\* One pressed and one released reading: evaluate treats cushion and footrest
\* alike.
MCReadings == {[cushion |-> TRUE, footrest |-> FALSE],
               [cushion |-> FALSE, footrest |-> FALSE]}
=============================================================================
