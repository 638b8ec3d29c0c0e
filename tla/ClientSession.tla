--------------------------- MODULE ClientSession ---------------------------
(***************************************************************************)
(* ClientProto::Session (openvpn/client/cliproto.hpp): one connection of   *)
(* a client, from the first packet to stop(), with the credentials it      *)
(* shares with the sessions before and after it (clicreds.hpp).            *)
(*                                                                         *)
(* A packet may bring several messages; control_recv is called for each of *)
(* them, a step of its own here, also after one of them has stopped the    *)
(* session.  No other handler runs in between.                             *)
(*                                                                         *)
(* Timers have no times: from the moment one is set its handler may be     *)
(* called at any time, but need not be.  cancel() therefore changes        *)
(* nothing here: it does not retract the handler of a timer that has       *)
(* expired, and of one that has not the handler gets an error, does        *)
(* nothing, and is as good as never called.                                *)
(***************************************************************************)
EXTENDS Naturals, Sequences, ControlMessages

CONSTANTS
    Configs,      \* whether the profile names a relay, has a password and says retry_on_auth_failed, and
                  \* whether the server has the client forget that (auth-nocache) and pushes "inactive"
    Errors,       \* the errors of the transport and the tun that come about
    MaxPosts      \* bound on the handlers of reset_inactive_timer that are posted

Config == [relay : BOOLEAN, password : BOOLEAN, retry : BOOLEAN, auth_nocache : BOOLEAN, inactive : BOOLEAN]

\* The errors client_proto_terminate tells apart.
Fatals == {"UNDEF", "AUTH_FAILED", "SESSION_EXPIRED", "CLIENT_HALT", "CLIENT_RESTART", "RELAY", "RELAY_ERROR",
           "INACTIVE_TIMEOUT", "COMPRESS_ERROR", "TRANSPORT_ERROR", "PROXY_ERROR", "PROXY_NEED_CREDS",
           "NTLM_MISSING_CRYPTO", "CERT_VERIFY_FAIL", "TLS_VERSION_MIN", "TUN_ERROR", "TUN_HALT", "TUN_SETUP_FAILED",
           "TUN_REGISTER_RINGS_ERROR", "TUN_IFACE_CREATE", "TUN_IFACE_DISABLED"}

ASSUME ClientAssumption == Configs \subseteq Config /\ Errors \subseteq Fatals /\ MaxPosts \in Nat

VARIABLE client   \* the session

Timers == {"push_request_timer", "info_hold_timer", "inactive_timer"}

(***************************************************************************)
(* options: what the parts of the PUSH_REPLY have brought so far.          *)
(* ended: the error ClientConnect finds when stop() calls it; fatal may be *)
(* another one later.  timers: those whose handlers may be called, because *)
(* they are set or were when they expired.  counting: the callbacks for    *)
(* bytes of the tun are installed.  receiving: the packet at hand has more *)
(* messages.  info_hold: INFO events that are held back while holding is   *)
(* TRUE.  shown, read and token are histories:                             *)
(* the INFO events the application has been given, the INFO messages that  *)
(* were received, and whether a token was.  relayed: over the transport of *)
(* a session that a relay has ended with RELAY.                            *)
(***************************************************************************)
NewClient(creds, config, relayed) ==
    [relay_mode |-> config.relay /\ ~relayed,
     halt |-> FALSE, active |-> FALSE, partial |-> FALSE, complete |-> FALSE, options |-> {},
     fatal |-> "UNDEF", ended |-> "UNDEF", connected |-> FALSE, tun |-> "none",
     timers |-> {}, counting |-> FALSE, posts |-> 0,
     info_hold |-> <<>>, holding |-> TRUE, shown |-> <<>>, read |-> <<>>, terminated |-> 0, receiving |-> FALSE,
     token |-> FALSE, creds |-> creds, config |-> config]

\* refused: history, the sessions since the last token that AUTH_FAILED ended without a fatal error.
NewCreds(password) ==
    [session_id |-> FALSE, password |-> password, needed |-> password, interaction |-> FALSE, refused |-> 0]

-----------------------------------------------------------------------------
(* The methods, as functions of the session *)

\* Mutant: halt is not looked at.
StopAgain(c, terminate) ==
    [c EXCEPT !.halt = TRUE, !.ended = c.fatal, !.counting = FALSE,
              !.terminated = IF terminate THEN @ + 1 ELSE @,
              !.tun = IF @ = "running" THEN "stopped" ELSE @]

\* stop(call_terminate_callback)
Stop(c, terminate) ==
    IF c.halt THEN c
    ELSE [c EXCEPT !.halt = TRUE, !.ended = c.fatal, !.counting = FALSE,
                   !.terminated = IF terminate THEN @ + 1 ELSE @,
                   !.tun = IF @ = "running" THEN "stopped" ELSE @]

\* transport_error, tun_error and what follows an exception.
Fail(c, fatal) == Stop(IF fatal = "UNDEF" THEN c ELSE [c EXCEPT !.fatal = fatal], TRUE)

\* An exception in control_recv: transport_recv catches it, the other messages are lost.
Throw(c, fatal) == [Fail(c, fatal) EXCEPT !.receiving = FALSE]

\* Mutant: the session id that was refused is kept.
RecvAuthFailedKeeps(c, temp) ==
    LET reconnect == ~c.creds.interaction /\ (~c.creds.needed \/ c.creds.password)
    IN  CASE temp -> Stop(c, TRUE)
          [] ~temp /\ ~c.creds.session_id -> Fail(c, "AUTH_FAILED")
          [] ~temp /\ c.creds.session_id /\ reconnect -> Stop([c EXCEPT !.creds.refused = IF c.halt THEN @ ELSE @ + 1], TRUE)
          [] OTHER -> Fail(c, "SESSION_EXPIRED")

\* recv_auth_failed
RecvAuthFailed(c, temp) ==
    IF temp THEN Stop(c, TRUE)
    ELSE LET p == [c EXCEPT !.creds.session_id = FALSE]
             reconnect == ~c.creds.interaction /\ (~c.creds.needed \/ c.creds.password)
         IN  CASE ~c.creds.session_id -> Fail(p, "AUTH_FAILED")
               [] c.creds.session_id /\ reconnect -> Stop([p EXCEPT !.creds.refused = IF c.halt THEN @ ELSE @ + 1], TRUE)
               [] OTHER -> Fail(p, "SESSION_EXPIRED")

\* Mutant: psid() is not looked at.
RecvHaltRestartForgets(c, restart, psid) ==
    Fail([c EXCEPT !.creds.session_id = FALSE], IF restart THEN "CLIENT_RESTART" ELSE "CLIENT_HALT")

\* recv_halt_restart
RecvHaltRestart(c, restart, psid) ==
    Fail([c EXCEPT !.creds.session_id = @ /\ psid], IF restart THEN "CLIENT_RESTART" ELSE "CLIENT_HALT")

\* recv_auth_pending: the requests become rarer.
RecvAuthPending(c) == c

\* Mutant: only a session that is not connected holds an event back.
RecvInfoOvertakes(c, m) ==
    LET w == [c EXCEPT !.creds.interaction = @ \/ m.info.web]
        r == [w EXCEPT !.read = Append(@, m.n)]
    IN  CASE m.info.pre -> w
          [] ~m.info.pre /\ ~c.connected -> [r EXCEPT !.info_hold = Append(@, m.n)]
          [] OTHER -> [r EXCEPT !.shown = Append(@, m.n)]

\* recv_info, of a message that is not for ACC; an INFO_PRE is shown at once and not recorded here.
RecvInfo(c, m) ==
    LET w == [c EXCEPT !.creds.interaction = @ \/ m.info.web]
        r == [w EXCEPT !.read = Append(@, m.n)]
    IN  CASE m.info.pre -> w
          [] ~m.info.pre /\ c.holding -> [r EXCEPT !.info_hold = Append(@, m.n)]
          [] OTHER -> [r EXCEPT !.shown = Append(@, m.n)]

\* extract_auth_token
ExtractAuthToken(c, opts) ==
    IF "token" \in opts THEN [c EXCEPT !.creds.session_id = TRUE, !.creds.refused = 0, !.token = TRUE] ELSE c

\* process_inactive, schedule_info_hold_callback and the events of a session that is connected.
Connected(c) ==
    [c EXCEPT !.connected = TRUE, !.counting = c.config.inactive,
              !.timers = @ \cup {"info_hold_timer"}
                           \cup (IF c.config.inactive THEN {"inactive_timer"} ELSE {})]

\* recv_push_reply when the options are complete; tunok: tun_start succeeds.
Configure(c, tunok) ==
    LET t == ExtractAuthToken(c, c.options)
        n == IF c.config.auth_nocache THEN [t EXCEPT !.creds.password = FALSE] ELSE t
    IN  CASE c.relay_mode -> Fail(c, "RELAY_ERROR")
          [] ~c.relay_mode /\ "unusable" \in c.options -> Throw(t, "UNDEF")
          [] ~c.relay_mode /\ "unusable" \notin c.options /\ ~tunok ->
                Throw([n EXCEPT !.tun = "stopped"], "TUN_SETUP_FAILED")
          [] OTHER ->
                LET up == Connected([n EXCEPT !.tun = "running"])
                IN  IF "compress" \in c.options THEN Throw(up, "COMPRESS_ERROR") ELSE up

\* recv_push_reply
RecvPushReply(c, m, tunok) ==
    CASE m.body = "malformed" -> Throw(c, "UNDEF")
      [] m.body # "malformed" /\ c.complete -> ExtractAuthToken(c, {m.body})
      [] m.body = "rejected" /\ ~c.complete ->
            RecvHaltRestart([c EXCEPT !.partial = TRUE, !.options = {}], TRUE, FALSE)
      [] OTHER ->
            LET a == [c EXCEPT !.partial = TRUE, !.options = @ \cup {m.body}, !.complete = ~m.more]
            IN  IF m.more THEN a ELSE Configure(a, tunok)

\* control_recv
ControlRecv(c, m, tunok) ==
    CASE m.kind = "PUSH_REPLY" -> RecvPushReply(c, m, tunok)
      [] m.kind = "AUTH_FAILED" -> RecvAuthFailed(c, m.temp)
      [] m.kind = "HALT" -> RecvHaltRestart(c, FALSE, FALSE)
      [] m.kind = "RESTART" -> RecvHaltRestart(c, TRUE, m.psid)
      [] m.kind = "INFO" -> RecvInfo(c, m)
      [] m.kind = "AUTH_PENDING" -> RecvAuthPending(c)
      [] m.kind = "RELAY" -> Fail(c, IF c.relay_mode THEN "RELAY" ELSE "RELAY_ERROR")

-----------------------------------------------------------------------------
(* Actions *)

ClientInit ==
    \E config \in Configs : client = NewClient(NewCreds(config.password), config, FALSE)

\* Messages that are still to come; stop() closes the transport.
Transport(rest) == toClient' = IF client'.halt /\ ~client'.receiving THEN <<>> ELSE rest

\* No handler is at work.
Idle == ~client.receiving

\* active(true)
Active ==
    /\ Idle /\ ~client.active /\ ~client.halt
    /\ client' = [client EXCEPT !.active = TRUE, !.timers = @ \cup {"push_request_timer"}]
    /\ UNCHANGED channelVars

\* transport_recv: a message of a packet, of which more may follow in the same packet.
ClientRecv ==
    /\ toClient # <<>>
    /\ (client.active /\ ~client.halt) \/ client.receiving
    /\ \E more \in BOOLEAN, tunok \in BOOLEAN :
        /\ more => Len(toClient) > 1
        /\ client' = ControlRecv([client EXCEPT !.receiving = more], Head(toClient), tunok)
    /\ Transport(Tail(toClient))
    /\ UNCHANGED <<toServer, asked, infos>>

\* The handler of timer t is called.
Fired(t) == [client EXCEPT !.timers = @ \ {t}]

\* Mutant: the request is sent once.
PushRequestTimerOnce ==
    /\ Idle /\ "push_request_timer" \in client.timers
    /\ toServer' = IF ~client.halt /\ ~client.partial THEN toServer + 1 ELSE toServer
    /\ client' = Fired("push_request_timer")
    /\ UNCHANGED <<toClient, asked, infos>>

\* send_push_request_callback; it sets the timer again.
PushRequestTimer ==
    /\ Idle /\ "push_request_timer" \in client.timers
    /\ \/ /\ ~client.halt /\ ~client.partial /\ toServer < MaxRequests
          /\ toServer' = toServer + 1
          /\ client' = client
       \/ /\ client.halt \/ client.partial
          /\ client' = Fired("push_request_timer")
          /\ toServer' = toServer
    /\ UNCHANGED <<toClient, asked, infos>>

\* info_hold_callback
InfoHoldTimer ==
    /\ Idle /\ "info_hold_timer" \in client.timers
    /\ client' = IF client.halt THEN Fired("info_hold_timer")
                 ELSE [Fired("info_hold_timer") EXCEPT !.shown = @ \o client.info_hold,
                                                       !.info_hold = <<>>, !.holding = FALSE]
    /\ UNCHANGED channelVars

\* Mutant: halt is not looked at.
InactiveTimerUnguarded ==
    /\ Idle /\ "inactive_timer" \in client.timers
    /\ client' = Fail(Fired("inactive_timer"), "INACTIVE_TIMEOUT")
    /\ Transport(toClient)
    /\ UNCHANGED <<toServer, asked, infos>>

\* inactive_callback
InactiveTimer ==
    /\ Idle /\ "inactive_timer" \in client.timers
    /\ client' = IF client.halt THEN Fired("inactive_timer")
                 ELSE Fail(Fired("inactive_timer"), "INACTIVE_TIMEOUT")
    /\ Transport(toClient)
    /\ UNCHANGED <<toServer, asked, infos>>

\* reset_inactive_timer posts a handler ...
TunBytes ==
    /\ Idle /\ client.counting /\ client.tun = "running" /\ client.posts < MaxPosts
    /\ client' = [client EXCEPT !.posts = @ + 1]
    /\ UNCHANGED channelVars

\* ... which sets the timer if the bytes suffice.
ResetInactiveTimer ==
    /\ Idle /\ client.posts > 0
    /\ \E enough \in BOOLEAN :
        client' = [client EXCEPT !.posts = @ - 1,
                                 !.timers = IF enough THEN @ \cup {"inactive_timer"} ELSE @]
    /\ UNCHANGED channelVars

\* The transport or the tun fails, or housekeeping finds the keys invalidated (UNDEF).
Breaks ==
    /\ Idle /\ ~client.halt
    /\ \E fatal \in Errors : client' = Fail(client, fatal)
    /\ Transport(toClient)
    /\ UNCHANGED <<toServer, asked, infos>>

\* stop(false), by the connection manager.
ManagerStops ==
    /\ Idle /\ ~client.halt
    /\ client' = Stop(client, FALSE)
    /\ Transport(toClient)
    /\ UNCHANGED <<toServer, asked, infos>>

ClientNext ==
    \/ Active \/ ClientRecv
    \/ PushRequestTimer \/ InfoHoldTimer \/ InactiveTimer
    \/ TunBytes \/ ResetInactiveTimer \/ Breaks \/ ManagerStops

=============================================================================
