---------------------------- MODULE MCLinkWire ----------------------------
(* A small instance of LinkWire for TLC.                                    *)
EXTENDS LinkWire

\* STATE_SYNC_END answered with OK, at the last sequence number before it starts
\* again, and a PAGE_EVENT.
Response == [flags |-> 2, sequence |-> 65535, command |-> 17, payload |-> <<0, 0>>]
PageEvent == [flags |-> 4, sequence |-> 3, command |-> 8194,
              payload |-> <<1, 2, 7, 0, 0, 0>>]

MCFrames == {PageEvent, Response}

\* Two of contracts/uart/golden_vectors.json, get_info_request and page_event,
\* with full blocks of the length they have in the code.
AtFullLength == INSTANCE LinkWire WITH MaxBlock <- 254

ASSUME GoldenVectors ==
    /\ AtFullLength!StuffFrame(Raw([flags |-> 1, sequence |-> 16, command |-> 3,
                                    payload |-> <<>>]))
       = <<6, 84, 53, 1, 1, 16, 2, 3, 1, 1, 3, 164, 87, 0>>
    /\ AtFullLength!StuffFrame(Raw([flags |-> 4, sequence |-> 15, command |-> 8194,
                                    payload |-> <<3, 1, 0, 0, 0, 0>>]))
       = <<6, 84, 53, 1, 4, 15, 4, 2, 32, 6, 3, 3, 1, 1, 1, 1, 3, 9, 83, 0>>
===========================================================================
