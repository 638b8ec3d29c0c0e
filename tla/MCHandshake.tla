---- MODULE MCHandshake ----
(* Small values for Handshake. *)
EXTENDS Handshake

\* The client's auth message takes more packets than one packet has ACKs.
MCAuthPackets == [p \in End |-> IF p = "client" THEN 3 ELSE 1]

MCMaxSaid == [p \in End |-> IF p = "client" THEN 1 ELSE 2]
====
