-------------------------- MODULE MCServerSession --------------------------
(* Small values for ServerSession. *)
EXTENDS ServerSession

MCPushLists == {<<PushReplyMsg("plain", FALSE)>>}

MCInfos == <<[pre |-> FALSE, web |-> FALSE]>>

\* At once, as for a key that was invalidated; soon; never.
MCKeyTimes == {-4, 3, Infinite}

\* A server without a management layer refuses everyone.
MCFactories == {[man |-> TRUE, tun |-> TRUE], [man |-> FALSE, tun |-> TRUE], [man |-> TRUE, tun |-> FALSE]}

=============================================================================
