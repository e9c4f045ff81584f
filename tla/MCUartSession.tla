--------------------------- MODULE MCUartSession ---------------------------
(* Small instances of UartSession for TLC.                                  *)
EXTENDS UartSession, TLC

MCSymmetry == Permutations(Boots) \cup Permutations(Payloads)
=============================================================================
