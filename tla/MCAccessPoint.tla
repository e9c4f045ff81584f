--------------------------- MODULE MCAccessPoint ---------------------------
(* A small instance of AccessPoint for TLC: a unit of time is 30 seconds.   *)
EXTENDS AccessPoint
=============================================================================
