--------------------------- MODULE ClientConnect ---------------------------
(***************************************************************************)
(* The top of a client (openvpn/client/cliconnect.hpp): one session after  *)
(* the other, each replaced when it ends, when the server is silent or     *)
(* when the user asks, until something stops the client for good.          *)
(*                                                                         *)
(* Everything runs in one thread, so one handler is one step; what makes   *)
(* it hard is which handlers are still to come.  A timer that expires      *)
(* queues its handler, and cancelling it then is too late: the handler     *)
(* will be called without an error.  The calls of the user, posted from    *)
(* another thread, come at any time.                                       *)
(*                                                                         *)
(* A handler remembers the generation it was armed in.  That is compared   *)
(* with the present one only, so a queued handler is `fresh' or not, and   *)
(* of the generation matters whether it is 0, 1 or more.                   *)
(***************************************************************************)
EXTENDS Naturals, Sequences

CONSTANTS
    NumRemotes,  \* entries of the remote list
    MaxCalls,    \* bound on the pause, resume and reconnect calls of the user
    MaxReady     \* bound on the handlers of expired timers that wait to be run

ASSUME ConnectAssumption ==
    NumRemotes \in Nat \ {0} /\ MaxCalls \in Nat /\ MaxReady \in Nat \ {0}

VARIABLES
    conf,                \* the options that decide the course, see Conf
    begun,               \* start() has been called
    generation,          \* 0, 1, or 2 for more
    halt, paused, dont_restart,
    client,              \* the newest session, see Session
    client_finalized,
    relay,               \* transport_factory_relay holds an open transport
    remote,              \* the position in the remote list
    timer,               \* which timers run
    ready,               \* queued handlers of expired timers
    conn_timer_pending,
    asio_work,           \* keeps the event loop alive
    resolving,           \* bulk_resolve is at work
    calls                \* calls of the user so far

vars == <<conf, begun, generation, halt, paused, dont_restart, client, client_finalized, relay,
          remote, timer, ready, conn_timer_pending, asio_work, resolving, calls>>

Timers == {"server_poll", "restart_wait", "conn"}

Conf == [cache : BOOLEAN,      \* the remote list is resolved beforehand
         poll : BOOLEAN,       \* server_poll_timeout_enabled
         timeout : BOOLEAN,    \* conn_timeout > 0
         retry_auth : BOOLEAN, \* retry_on_auth_failed
         always_on : BOOLEAN]  \* asio_work_always_on

(***************************************************************************)
(* ClientProto::Session as this class sees it: running until it is stopped *)
(* (halt), heard once its first packet came, reached once the tun device   *)
(* is up (connected_), connected once it told its parent.  advance says    *)
(* whether the remote list moves on after it, which a temporary failure    *)
(* may forbid.  Before it is created it is NoSession.                      *)
(***************************************************************************)
Session == [made : BOOLEAN, running : BOOLEAN, heard : BOOLEAN, reached : BOOLEAN,
            connected : BOOLEAN, relay_mode : BOOLEAN, advance : BOOLEAN]

NoSession == [made |-> FALSE, running |-> FALSE, heard |-> FALSE, reached |-> FALSE,
              connected |-> FALSE, relay_mode |-> FALSE, advance |-> TRUE]

\* A session on a relayed transport is not relayed once more.
NewSession == [NoSession EXCEPT !.made = TRUE, !.running = TRUE, !.relay_mode = ~ relay]

Running == client.running

Init ==
    /\ conf \in Conf
    /\ begun = FALSE /\ generation = 0
    /\ halt = FALSE /\ paused = FALSE /\ dont_restart = FALSE
    /\ client = NoSession /\ client_finalized = FALSE
    /\ relay = FALSE /\ remote = 0
    /\ timer = [t \in Timers |-> FALSE] /\ ready = <<>>
    /\ conn_timer_pending = FALSE
    /\ asio_work = FALSE /\ resolving = FALSE
    /\ calls = 0

-----------------------------------------------------------------------------
(* The parts of handlers.  q is the queue of handlers that is left.         *)

Stale(q) == [i \in DOMAIN q |-> [q[i] EXCEPT !.fresh = FALSE]]

Stopped(s) == [s EXCEPT !.running = FALSE, !.connected = FALSE]

\* Mutant: the position runs over the end of the list.
AdvancedNoWrap ==
    IF client.made /\ ~ relay /\ ~ client.reached /\ client.advance THEN remote + 1 ELSE remote

\* next() of the remote list unless the last session had come up.
Advanced ==
    IF client.made /\ ~ relay /\ ~ client.reached /\ client.advance THEN (remote + 1) % NumRemotes ELSE remote

\* Mutant: the timer that guards against a silent server is not started.
NewClientTimersNoPoll ==
    [timer EXCEPT !["server_poll"] = FALSE, !["restart_wait"] = FALSE,
                  !["conn"] = @ \/ (conf.timeout /\ ~ conn_timer_pending)]

\* conn_timer_start is void while conn_timer_pending: the time runs on over
\* all the sessions of one attempt to connect.
NewClientTimers ==
    [timer EXCEPT !["server_poll"] = conf.poll, !["restart_wait"] = FALSE,
                  !["conn"] = @ \/ (conf.timeout /\ ~ conn_timer_pending)]

\* The old session is stopped and finalized and a new one started.
NewClient(q) ==
    /\ generation' = IF generation = 0 THEN 1 ELSE 2
    /\ ready' = Stale(q)
    /\ asio_work' = conf.always_on
    /\ remote' = Advanced
    /\ client' = NewSession
    /\ client_finalized' = FALSE
    /\ relay' = FALSE
    /\ timer' = NewClientTimers
    /\ conn_timer_pending' = (conn_timer_pending \/ conf.timeout)
    /\ UNCHANGED <<halt, dont_restart>>

Resume(q) == paused' = FALSE /\ NewClient(q) /\ UNCHANGED resolving

\* Mutant: the timers are cancelled and one of them still counts as pending.
CancelTimersKeepPending ==
    /\ timer' = [t \in Timers |-> FALSE]
    /\ UNCHANGED conn_timer_pending

CancelTimers ==
    /\ timer' = [t \in Timers |-> FALSE]
    /\ conn_timer_pending' = FALSE

\* Mutant: nothing keeps the event loop alive.
PauseNoWork(q) ==
    /\ paused' = TRUE
    /\ client' = Stopped(client)
    /\ client_finalized' = (client_finalized \/ client.made)
    /\ CancelTimers
    /\ ready' = q
    /\ UNCHANGED <<generation, halt, dont_restart, relay, remote, asio_work, resolving>>

\* Mutant: a session that is paused is not finalized.
PauseNotFinal(q) ==
    /\ paused' = TRUE
    /\ client' = Stopped(client)
    /\ CancelTimers
    /\ asio_work' = TRUE
    /\ ready' = q
    /\ UNCHANGED <<generation, halt, dont_restart, relay, remote, client_finalized, resolving>>

Pause(q) ==
    /\ paused' = TRUE
    /\ client' = Stopped(client)
    /\ client_finalized' = (client_finalized \/ client.made)
    /\ CancelTimers
    /\ asio_work' = TRUE
    /\ ready' = q
    /\ UNCHANGED <<generation, halt, dont_restart, relay, remote, resolving>>

\* Mutant: a resolve that is under way is not cancelled.
StopKeepsResolving(q) ==
    /\ halt' = TRUE
    /\ client' = Stopped(client)
    /\ CancelTimers
    /\ asio_work' = FALSE
    /\ ready' = q
    /\ UNCHANGED <<generation, paused, dont_restart, relay, remote, client_finalized, resolving>>

Stop(q) ==
    /\ halt' = TRUE
    /\ resolving' = FALSE
    /\ client' = Stopped(client)
    /\ CancelTimers
    /\ asio_work' = FALSE
    /\ ready' = q
    /\ UNCHANGED <<generation, paused, dont_restart, relay, remote, client_finalized>>

\* Mutant: the session is finalized and the timer not started.
QueueRestartNoTimer(s) ==
    /\ client' = Stopped(s)
    /\ client_finalized' = TRUE
    /\ timer' = [timer EXCEPT !["server_poll"] = FALSE]
    /\ UNCHANGED <<generation, halt, paused, dont_restart, remote, ready, conn_timer_pending,
                   asio_work, resolving>>

\* The session s ended; a new one starts when the timer expires.
QueueRestart(s) ==
    /\ client' = Stopped(s)
    /\ client_finalized' = TRUE
    /\ timer' = [timer EXCEPT !["server_poll"] = FALSE, !["restart_wait"] = TRUE]
    /\ UNCHANGED <<generation, halt, paused, dont_restart, remote, ready, conn_timer_pending,
                   asio_work, resolving>>

-----------------------------------------------------------------------------
(* What the session reports *)

RestartErrors == {"UNDEF", "TUN_IFACE_DISABLED", "CLIENT_RESTART", "TRANSPORT_ERROR", "TUN_ERROR"}

AuthErrors == {"SESSION_EXPIRED", "AUTH_FAILED"}

\* An error that is in no case is thrown as an exception, which connect()
\* answers with stop().
StopErrors ==
    {"TUN_SETUP_FAILED", "TUN_REGISTER_RINGS_ERROR", "TUN_IFACE_CREATE", "PROXY_ERROR",
     "PROXY_NEED_CREDS", "CERT_VERIFY_FAIL", "TLS_VERSION_MIN", "CLIENT_HALT", "INACTIVE_TIMEOUT",
     "TUN_HALT", "RELAY_ERROR", "COMPRESS_ERROR", "NTLM_MISSING_CRYPTO", "unhandled"}

Environment == UNCHANGED <<conf, begun, calls>>

(***************************************************************************)
(* client_proto_terminate: the session, which is s now, ended with the     *)
(* error that fatal() names.                                               *)
(***************************************************************************)
ProtoTerminate(fatal, challenge, s) ==
    /\ IF dont_restart \/ fatal \in StopErrors
          \/ (fatal \in AuthErrors /\ (challenge \/ ~ conf.retry_auth))
         THEN Stop(ready)
         ELSE QueueRestart(s) /\ relay' = (relay \/ fatal = "RELAY")
    /\ Environment

\* Errors of the transport, the tun device or the protocol.
Fails ==
    /\ Running
    /\ \E fatal \in RestartErrors \cup StopErrors : ProtoTerminate(fatal, FALSE, client)

\* The tun device comes up and the session fails before it can say so.
FailsOnceUp ==
    /\ Running /\ client.heard /\ ~ client.reached
    /\ ProtoTerminate("UNDEF", FALSE, [client EXCEPT !.reached = TRUE])

\* AUTH_FAILED, with or without a dynamic challenge, or only for a time.
AuthFails ==
    /\ Running /\ client.heard
    /\ \/ \E fatal \in AuthErrors, challenge \in BOOLEAN : ProtoTerminate(fatal, challenge, client)
       \/ \E advance \in BOOLEAN : ProtoTerminate("UNDEF", FALSE, [client EXCEPT !.advance = advance])

Relayed ==
    /\ Running /\ client.heard /\ client.relay_mode
    /\ ProtoTerminate("RELAY", FALSE, client)

FirstPacket ==
    /\ Running /\ ~ client.heard
    /\ client' = [client EXCEPT !.heard = TRUE]
    /\ UNCHANGED <<generation, halt, paused, dont_restart, client_finalized, relay, remote, timer,
                   ready, conn_timer_pending, asio_work, resolving>>
    /\ Environment

\* client_proto_connected
ProtoConnected ==
    /\ Running /\ client.heard /\ ~ client.connected
    /\ client' = [client EXCEPT !.reached = TRUE, !.connected = TRUE]
    /\ timer' = [timer EXCEPT !["conn"] = FALSE]
    /\ conn_timer_pending' = FALSE
    /\ UNCHANGED <<generation, halt, paused, dont_restart, client_finalized, relay, remote, ready,
                   asio_work, resolving>>
    /\ Environment

\* client_proto_auth_pending_timeout that extends the time to connect
AuthPendingTimeout ==
    /\ Running /\ client.heard /\ ~ client.connected
    /\ conn_timer_pending
    /\ timer' = [timer EXCEPT !["conn"] = TRUE]
    /\ UNCHANGED <<generation, halt, paused, dont_restart, client, client_finalized, relay, remote,
                   ready, conn_timer_pending, asio_work, resolving>>
    /\ Environment

\* client_proto_renegotiated: the remote list is resolved again.
ProtoRenegotiated ==
    /\ Running /\ client.heard
    /\ conf.cache
    /\ resolving' = TRUE
    /\ UNCHANGED <<generation, halt, paused, dont_restart, client, client_finalized, relay, remote,
                   timer, ready, conn_timer_pending, asio_work>>
    /\ Environment

\* An external PKI that fails to sign calls dont_restart.
ExternalPkiError ==
    /\ Running /\ ~ dont_restart
    /\ dont_restart' = TRUE
    /\ UNCHANGED <<generation, halt, paused, client, client_finalized, relay, remote, timer, ready,
                   conn_timer_pending, asio_work, resolving>>
    /\ Environment

-----------------------------------------------------------------------------
(* The start, the resolver and the timers *)

Start ==
    /\ ~ begun
    /\ begun' = TRUE
    /\ IF conf.cache
         THEN /\ resolving' = TRUE
              /\ UNCHANGED <<generation, halt, dont_restart, client, client_finalized, relay,
                             remote, timer, ready, conn_timer_pending, asio_work>>
         ELSE NewClient(ready) /\ UNCHANGED resolving
    /\ UNCHANGED <<conf, calls, paused>>

BulkResolveDone ==
    /\ resolving
    /\ resolving' = FALSE
    /\ IF ~ halt /\ generation = 0
         THEN NewClient(ready)
         ELSE UNCHANGED <<generation, halt, dont_restart, client, client_finalized, relay, remote,
                          timer, ready, conn_timer_pending, asio_work>>
    /\ UNCHANGED paused
    /\ Environment

\* A timer expires: its handler is queued.
Expired(t) ==
    /\ timer[t] /\ Len(ready) < MaxReady
    /\ timer' = [timer EXCEPT ![t] = FALSE]
    /\ ready' = Append(ready, [timer |-> t, fresh |-> TRUE])
    /\ UNCHANGED <<generation, halt, paused, dont_restart, client, client_finalized, relay, remote,
                   conn_timer_pending, asio_work, resolving>>
    /\ Environment

Ignored(q) ==
    /\ ready' = q
    /\ UNCHANGED <<generation, halt, paused, dont_restart, client, client_finalized, relay, remote,
                   timer, conn_timer_pending, asio_work, resolving>>

RestartWaitCallback(h, q) ==
    IF h.fresh /\ ~ halt
      THEN IF paused THEN Resume(q) ELSE NewClient(q) /\ UNCHANGED <<paused, resolving>>
      ELSE Ignored(q)

ServerPollCallback(h, q) ==
    IF h.fresh /\ ~ halt /\ ~ client.heard
      THEN NewClient(q) /\ UNCHANGED <<paused, resolving>>
      ELSE Ignored(q)

\* The generation is not looked at.  The user decides between a pause and
\* the end.
ConnTimerCallback(h, q) ==
    IF halt THEN Ignored(q)
    ELSE \/ ~ paused /\ Pause(q)
         \/ Stop(q)

RunHandler ==
    /\ ready # <<>>
    /\ CASE Head(ready).timer = "restart_wait" -> RestartWaitCallback(Head(ready), Tail(ready))
         [] Head(ready).timer = "server_poll" -> ServerPollCallback(Head(ready), Tail(ready))
         [] Head(ready).timer = "conn" -> ConnTimerCallback(Head(ready), Tail(ready))
    /\ Environment

-----------------------------------------------------------------------------
(* Calls of the user, posted to the thread *)

GracefulStop == begun /\ ~ halt /\ Stop(ready) /\ Environment

Call ==
    /\ begun /\ ~ halt /\ calls < MaxCalls
    /\ calls' = calls + 1
    /\ UNCHANGED <<conf, begun>>

PauseCall == Call /\ ~ paused /\ Pause(ready)

ResumeCall == Call /\ paused /\ Resume(ready)

ReconnectCall ==
    /\ Call
    /\ timer' = [timer EXCEPT !["server_poll"] = FALSE, !["restart_wait"] = TRUE]
    /\ UNCHANGED <<generation, halt, paused, dont_restart, client, client_finalized, relay, remote,
                   ready, conn_timer_pending, asio_work, resolving>>

Next ==
    \/ Start \/ BulkResolveDone
    \/ FirstPacket \/ ProtoConnected \/ AuthPendingTimeout \/ ProtoRenegotiated \/ ExternalPkiError
    \/ Fails \/ FailsOnceUp \/ AuthFails \/ Relayed
    \/ \E t \in Timers : Expired(t)
    \/ RunHandler
    \/ GracefulStop \/ PauseCall \/ ResumeCall \/ ReconnectCall

(***************************************************************************)
(* The event loop runs what is ready, and a timer that nobody cancels or   *)
(* restarts expires.                                                       *)
(***************************************************************************)
Spec ==
    /\ Init /\ [][Next]_vars
    /\ WF_vars(RunHandler)
    /\ \A t \in Timers : WF_vars(Expired(t))

-----------------------------------------------------------------------------
(* Properties *)

TypeOK ==
    /\ conf \in Conf /\ begun \in BOOLEAN /\ generation \in 0 .. 2
    /\ halt \in BOOLEAN /\ paused \in BOOLEAN /\ dont_restart \in BOOLEAN
    /\ client \in Session /\ client_finalized \in BOOLEAN
    /\ relay \in BOOLEAN /\ remote \in 0 .. NumRemotes - 1
    /\ timer \in [Timers -> BOOLEAN]
    /\ ready \in Seq([timer : Timers, fresh : BOOLEAN]) /\ Len(ready) <= MaxReady
    /\ conn_timer_pending \in BOOLEAN /\ asio_work \in BOOLEAN /\ resolving \in BOOLEAN
    /\ calls \in 0 .. MaxCalls

\* What io_context::run() waits for: it returns when there is nothing left.
Work ==
    asio_work \/ resolving \/ Running \/ ready # <<>> \/ \E t \in Timers : timer[t]

(***************************************************************************)
(* connect() "doesn't return until disconnect": whatever was cancelled,    *)
(* paused or ended, the event loop does not run dry before stop().         *)
(***************************************************************************)
NeverRunsDry == begun /\ ~ halt => Work

(***************************************************************************)
(* And it returns then: once stop() has been called nothing is left but    *)
(* queued handlers, none of which starts anything again.  (A relayed       *)
(* transport that no session took over yet is not stopped by anyone.)      *)
(***************************************************************************)
StopDrains ==
    halt => ~ (asio_work \/ resolving \/ Running \/ \E t \in Timers : timer[t])

(***************************************************************************)
(* "Connection timeout in seconds": a session that is not connected is     *)
(* never without the timer, across pauses, reconnects and lost             *)
(* connections.                                                            *)
(***************************************************************************)
ConnTimerGuards ==
    conf.timeout /\ ~ halt /\ Running /\ ~ client.connected
    => timer["conn"] \/ \E i \in DOMAIN ready : ready[i].timer = "conn"

(***************************************************************************)
(* interim_finalize: the tun device of a session is finalized when the     *)
(* session has ended, whichever way, and not before.                       *)
(***************************************************************************)
FinalizedWhenEnded == ~ halt /\ client.made => (client_finalized <=> ~ Running)

(***************************************************************************)
(* An "always-try-to-reconnect" approach: the end of a session that is not *)
(* the end of the client is followed by a new session.                     *)
(***************************************************************************)
Retries == (client.made /\ ~ Running) ~> (Running \/ paused \/ halt)

(***************************************************************************)
(* "With remote list rotation": the client does not stay with a server it  *)
(* never hears from.                                                       *)
(***************************************************************************)
SilentServerLeft ==
    \A r \in 0 .. NumRemotes - 1 :
        (conf.poll /\ Running /\ ~ client.heard /\ remote = r)
        ~> (client.heard \/ remote # r \/ paused \/ halt)

\* "Pause the client -- useful to avoid continuous reconnection attempts
\* when network is down": no session runs while the client is paused.
PausedMeansIdle == paused => ~ Running

=============================================================================
