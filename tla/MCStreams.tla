------------------------------- MODULE MCStreams -------------------------------
(* Instances of Streams for TLC. *)
EXTENDS Streams

CONSTANTS c0, c1

TwoClients == {c0, c1}

================================================================================
