---------------------------- MODULE MCPanelLink ----------------------------
(* Small instances of PanelLink for TLC.                                    *)
EXTENDS PanelLink, TLC

\* One core frame and one list frame stand for the frames of their kind: what
\* matters is that a frame can be between BEGIN and END with or without being
\* sent by publishes too.
MCCore == <<"MODE">>
MCList == <<"DASHBOARD">>
MCNoFrames == <<>>

\* Enough for every task to have a frame pending and the wire full of answers.
MCSeqs == 1..(MaxWire + Cardinality(Tasks))

MCSymmetry == Permutations(Boots)
=============================================================================
