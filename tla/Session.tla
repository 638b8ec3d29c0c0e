------------------------------ MODULE Session ------------------------------
(***************************************************************************)
(* The sessions of a client, one after the other, with a server that does  *)
(* what PushServer allows, which is shown of ServerSession.                *)
(***************************************************************************)
EXTENDS ClientSession, PushServer

CONSTANT MaxSessions   \* bound on the sessions of a client

VARIABLE sessions   \* how many sessions there were before this one

vars == <<client, sessions, pushVars>>

Init == ClientInit /\ PushInit /\ sessions = 0

(***************************************************************************)
(* client_proto_terminate: the errors after which ClientConnect starts     *)
(* another session; retry_on_auth_failed has it try again when the         *)
(* application has been told of a refusal.                                 *)
(***************************************************************************)
Restarts(config) ==
    {"UNDEF", "CLIENT_RESTART", "TRANSPORT_ERROR", "TUN_ERROR", "TUN_IFACE_DISABLED", "RELAY"}
    \cup (IF config.retry THEN {"AUTH_FAILED", "SESSION_EXPIRED"} ELSE {})

\* ClientConnect::new_client; the server makes a session of its own for it.
Reconnect ==
    /\ Idle /\ client.halt /\ client.ended \in Restarts(client.config) /\ sessions < MaxSessions
    /\ client' = NewClient(client.creds, client.config, client.ended = "RELAY")
    /\ sessions' = sessions + 1
    /\ push' = [over |-> FALSE, keep |-> TRUE, gone |-> FALSE]
    /\ asked' = FALSE /\ toClient' = <<>> /\ toServer' = 0 /\ infos' = 0

\* The server adds nothing to the packet at hand; what it does after the client has stopped is not seen.
ServerStep(A) == Idle /\ ~client.halt /\ A /\ UNCHANGED <<client, sessions>>

\* There is always room for an answer.
Answers == ServerStep(Answer /\ Len(toClient) <= MaxToClient)

OtherMessages == ServerStep((Final \/ Announce \/ Note) /\ Len(toClient) < MaxToClient)

ClientStep(A) == A /\ UNCHANGED <<push, sessions>>

Next ==
    \/ ClientStep(ClientNext)
    \/ Answers \/ OtherMessages \/ ServerStep(Ask \/ Ignore \/ Leave)
    \/ Reconnect

Spec == Init /\ [][Next]_vars

(***************************************************************************)
(* Packets and timers are served.  Of the requests that keep coming the    *)
(* management layer hears one and answers it, unless the session is over.  *)
(* Keepalive notices a server that is gone.                                *)
(***************************************************************************)
Fairness ==
    /\ WF_vars(ClientStep(ClientRecv))
    /\ SF_vars(ClientStep(PushRequestTimer))
    /\ SF_vars(ServerStep(Ask))
    /\ SF_vars(Answers)
    /\ WF_vars(push.gone /\ ClientStep(Breaks))

FairSpec == Spec /\ Fairness

-----------------------------------------------------------------------------
(* Properties *)

\* The types; client_proto_terminate is called once at most.
SessionTypeOK ==
    /\ {client.fatal, client.ended} \subseteq Fatals /\ client.timers \subseteq Timers /\ client.tun \in {"none", "running", "stopped"}
    /\ client.terminated \in 0 .. 1 /\ client.posts \in 0 .. MaxPosts
    /\ \A i \in DOMAIN toClient : toClient[i] \in Messages
    /\ toServer \in 0 .. MaxRequests

(***************************************************************************)
(* When the handler in which a session stopped has returned, the session   *)
(* shows nothing more, although handlers of the timers stop() cancels may  *)
(* be queued and the one of reset_inactive_timer sets a timer again.       *)
(* control_recv does not look at halt for the other messages of the        *)
(* packet: options among them start a tun in a session that was restarted  *)
(* or met a RELAY it did not expect, but never in one that was halted,     *)
(* refused or ended by its manager.                                        *)
(***************************************************************************)
HaltIsFinal ==
    [][client.halt /\ sessions' = sessions
       => /\ Idle => \A f \in {"halt", "fatal", "ended", "connected", "tun", "shown", "terminated", "creds"} :
                        client'[f] = client[f]
          /\ client'.tun # client.tun => client.ended \in {"CLIENT_RESTART", "RELAY_ERROR"}]_vars

(***************************************************************************)
(* The application sees each INFO message once, in the order in which the  *)
(* server sent them, and none before it has seen CONNECTED, whether a      *)
(* message comes before the options, with them, or while it is held back.  *)
(***************************************************************************)
InfoInOrder ==
    /\ client.shown \o client.info_hold = client.read
    /\ client.shown # <<>> => client.connected

(***************************************************************************)
(* A client is not sent back and forth by AUTH_FAILED behind its user's    *)
(* back: for every token it is given one refusal at most goes unreported,  *)
(* after which it has no session id to offer, so that the next refusal     *)
(* (other than TEMP) is a fatal error.  With retry_on_auth_failed it tries *)
(* again after that as well, the application being told each time.         *)
(***************************************************************************)
NoAuthLoop ==
    /\ client.creds.refused <= 1
    /\ client.creds.refused = 1 => ~client.creds.session_id

(***************************************************************************)
(* A client that has not been told otherwise keeps the session id it was   *)
(* given as long as the server does: it does not ask its user for a        *)
(* password after a RESTART that says [P], an error or a timeout.          *)
(***************************************************************************)
PreservedIdIsKept == push.keep /\ client.token => client.creds.session_id

(***************************************************************************)
(* A session does not linger: the client gets its options or the session   *)
(* ends, although its request may be lost on the server, the answer come   *)
(* in parts, and the server leave without a word.                          *)
(***************************************************************************)
SessionResolves == client.active ~> (client.complete \/ client.halt)

=============================================================================
