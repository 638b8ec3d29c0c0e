----------------------------- MODULE MCReliable -----------------------------
(***************************************************************************)
(* TLC instance of Reliable: a client and a server, one raw payload (a     *)
(* reset) and TLS payloads.  The server sends less than the client, which  *)
(* keeps the state space small and still lets ACKs ride on its packets.    *)
(***************************************************************************)
EXTENDS Reliable, TLC

CONSTANTS client, server, reset, tls1, tls2

MCPeer == {client, server}
MCPayload == {reset, tls1}
MCPayload2 == {reset, tls1, tls2}
MCTls == {tls1}
MCTls2 == {tls1, tls2}
MCSymmetry == Permutations(MCTls2)
MCMaxMsgs31 == (client :> 3) @@ (server :> 1)
MCMaxMsgs21 == (client :> 2) @@ (server :> 1)

=============================================================================
