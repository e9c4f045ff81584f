---------------------------- MODULE MCDecisions ----------------------------
(* Small instances of Decisions for TLC.                                    *)
EXTENDS Decisions, TLC

MCSymmetry == Permutations(Tasks) \cup Permutations(Notices)
=============================================================================
