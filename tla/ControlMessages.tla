-------------------------- MODULE ControlMessages --------------------------
(***************************************************************************)
(* The messages of the two sessions over the control channel, and the      *)
(* channel as Reliable and Handshake leave it: each direction is a queue,  *)
(* and the handler of a packet may be given several messages at once.      *)
(***************************************************************************)
EXTENDS Naturals, Sequences

CONSTANTS
    PushLists,   \* the lists of messages push_reply is called with
    Infos,       \* the INFO messages: pre, INFO_PRE; web, one that asks the user for something
    MaxRequests, \* bound on the PUSH_REQUESTs on their way
    MaxToClient  \* bound on the messages on their way to the client

VARIABLES
    toClient,  \* messages the client has still to receive
    toServer,  \* how many PUSH_REQUESTs the server has still to receive
    asked,     \* the server has one that is not answered
    infos      \* how many INFO messages it has sent

channelVars == <<toClient, toServer, asked, infos>>

(***************************************************************************)
(* body tells what the client makes of a PUSH_REPLY: "plain"; "token", one *)
(* with an auth-token; "rejected" by the filter; "malformed", which the    *)
(* parser refuses; "unusable", which process_push refuses; "compress",     *)
(* which check_proto_warnings refuses.  more is push-continuation 2.       *)
(***************************************************************************)
PushReplyMsg(body, more) == [kind |-> "PUSH_REPLY", body |-> body, more |-> more]
AuthFailedMsg(temp) == [kind |-> "AUTH_FAILED", temp |-> temp]
HaltMsg == [kind |-> "HALT"]
RestartMsg(psid) == [kind |-> "RESTART", psid |-> psid]
InfoMsg(n) == [kind |-> "INFO", n |-> n, info |-> Infos[n]]
AuthPendingMsg == [kind |-> "AUTH_PENDING"]
RelayMsg == [kind |-> "RELAY"]

Bodies == {"plain", "token", "rejected", "malformed", "unusable", "compress"}

PushReplies == {PushReplyMsg(b, m) : b \in Bodies, m \in BOOLEAN}

ASSUME ChannelAssumption ==
    PushLists \subseteq Seq(PushReplies) /\ Infos \in Seq([pre : BOOLEAN, web : BOOLEAN]) /\ MaxRequests \in Nat /\ MaxToClient \in Nat

Messages ==
    PushReplies \cup {AuthFailedMsg(t) : t \in BOOLEAN} \cup {RestartMsg(p) : p \in BOOLEAN}
    \cup {InfoMsg(n) : n \in DOMAIN Infos}
    \cup {HaltMsg, AuthPendingMsg, RelayMsg}

=============================================================================
