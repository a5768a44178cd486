----------------------------- MODULE MCGateway -----------------------------
(* Two iGates, a station on RF that sends a message, and a client of       *)
(* APRS-IS that sends one to that station and a command to an iGate.       *)
EXTENDS Gateway

MCGates     == {"g1", "g2"}
MCSender    == [chat |-> "t", toStation |-> "u", command |-> "u", answer |-> "g1"]
MCAddressee == [chat |-> "u", toStation |-> "t", command |-> "g1", answer |-> "u"]
MCPackets   == DOMAIN MCSender
MCHash      == [chat |-> 1, toStation |-> 2, command |-> 3, answer |-> 4]
MCReply     == [p \in MCPackets |-> "answer"]
=============================================================================
