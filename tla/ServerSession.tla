--------------------------- MODULE ServerSession ---------------------------
(***************************************************************************)
(* ServerProto::Session (openvpn/server/servproto.hpp): one client of a    *)
(* server, between the control channel, the management layer and the       *)
(* housekeeping timer.                                                     *)
(*                                                                         *)
(* disconnect_type and disconnect_at say what will end the session, and    *)
(* when; the one timer serves them and the keys, and is left alone when it *)
(* is nearly right (CoarseTime).  Times are relative to now, in units of   *)
(* half a second.  The management layer is not in the repository: it may   *)
(* call what ManClientInstance::Recv offers at any moment.                 *)
(***************************************************************************)
EXTENDS Integers, Sequences, ControlMessages

CONSTANTS
    Factories,       \* which of man_factory and tun_factory there are
    Pre, Post,       \* the range of CoarseTime
    HaltDelay,       \* from a halt or restart message to the disconnect
    RelayDelay,      \* from RELAY to the end of the transition
    Delays,          \* delays the management layer asks for
    KeyTimes,        \* times at which the keys may want housekeeping, also in the past
    Infinite,        \* Time::infinite()
    MaxLate,         \* bound: how late the event loop runs a handler
    MaxCalls         \* bound on the calls of the management layer

ASSUME ServerAssumption ==
    /\ Factories \subseteq [man : BOOLEAN, tun : BOOLEAN]
    /\ Pre \in Nat /\ Post \in Nat /\ MaxLate \in Nat /\ Infinite \in Nat
    /\ {HaltDelay, RelayDelay} \cup Delays \subseteq 0 .. Infinite - Post - 1
    /\ KeyTimes \subseteq {t \in Int : t < Infinite - Post} \cup {Infinite}

VARIABLES
    server,  \* the session
    calls    \* how many calls the management layer has made

DisconnectTypes == {"DT_NONE", "DT_AUTH_PENDING", "DT_RELAY_TRANSITION", "DT_HALT_RESTART"}

\* schedule and timer are Off when CoarseTime and the timer have no time.
Off == Infinite + 1

(***************************************************************************)
(* queued: a handler of the timer that was queued before the timer was     *)
(* set anew.  out: what this handler has sent.                             *)
(***************************************************************************)
NewServer(manfactory, tunfactory) ==
    [halt |-> FALSE, disconnect_type |-> "DT_NONE", disconnect_at |-> Infinite, timer |-> Off,
     schedule |-> Off, queued |-> FALSE, primary |-> TRUE, tun |-> FALSE, preserve |-> TRUE,
     man_factory |-> manfactory, tun_factory |-> tunfactory, out |-> <<>>]

-----------------------------------------------------------------------------
(* The methods, as functions of the session *)

\* CoarseTime::similar
Similar(s, t) ==
    s.schedule # Off /\ IF t >= s.schedule THEN t - s.schedule <= Post ELSE s.schedule - t <= Pre

Earlier(a, b) == IF a < b THEN a ELSE b
Later(a, b) == IF a < b THEN b ELSE a

\* set_housekeeping_timer; k is next_housekeeping, whose times of keepalive outlive the keys.
SetHousekeepingTimer(s, k) ==
    LET next == Earlier(k, s.disconnect_at)
        t == IF next = Infinite THEN Off ELSE Later(next, 0)
    IN  IF Similar(s, next) THEN s
        ELSE [s EXCEPT !.schedule = t, !.timer = t, !.queued = @ \/ s.timer <= 0]

DisconnectIn(s, d) == [s EXCEPT !.disconnect_at = d]

\* control_send and flush
Sent(s, msgs) == IF s.primary THEN [s EXCEPT !.out = @ \o msgs] ELSE s

\* RAW is a message of the management layer's own; AUTH_FAILED,TEMP stands for it.
HaltTypes == {"HALT", "RESTART", "RESTART_PASSIVE", "RESTART_PSID", "AUTH_FAILED", "RAW"}

HaltRestartMsg(type) ==
    CASE type = "HALT" -> HaltMsg
      [] type = "RESTART" -> RestartMsg(FALSE)
      [] type \in {"RESTART_PASSIVE", "RESTART_PSID"} -> RestartMsg(TRUE)
      [] type = "AUTH_FAILED" -> AuthFailedMsg(FALSE)
      [] type = "RAW" -> AuthFailedMsg(TRUE)

\* push_halt_restart_msg
PushHaltRestartMsg(s, type, k) ==
    IF s.halt \/ s.disconnect_type = "DT_HALT_RESTART" THEN s
    ELSE LET ending == IF type = "RESTART_PASSIVE" THEN s
                       ELSE [DisconnectIn(s, HaltDelay) EXCEPT
                                !.disconnect_type = "DT_HALT_RESTART",
                                !.preserve = @ /\ type = "RESTART_PSID"]
         IN  SetHousekeepingTimer(Sent(ending, <<HaltRestartMsg(type)>>), k)

\* Mutant: options also follow a message that ends the session.
PushReplyLate(s, msgs, k) ==
    IF s.halt \/ s.disconnect_type = "DT_RELAY_TRANSITION" \/ ~s.primary THEN s
    ELSE LET p == [s EXCEPT !.disconnect_type = "DT_NONE", !.disconnect_at = Infinite]
         IN  IF p.tun_factory \/ p.tun
               THEN SetHousekeepingTimer(Sent([p EXCEPT !.tun = TRUE], msgs), k)
               ELSE PushHaltRestartMsg(p, "AUTH_FAILED", k)

\* push_reply
PushReply(s, msgs, k) ==
    IF s.halt \/ s.disconnect_type \in {"DT_RELAY_TRANSITION", "DT_HALT_RESTART"} \/ ~s.primary THEN s
    ELSE LET p == IF s.disconnect_type = "DT_AUTH_PENDING"
                    THEN [s EXCEPT !.disconnect_type = "DT_NONE", !.disconnect_at = Infinite] ELSE s
         IN  IF p.tun_factory \/ p.tun
               THEN SetHousekeepingTimer(Sent([p EXCEPT !.tun = TRUE], msgs), k)
               ELSE PushHaltRestartMsg(p, "AUTH_FAILED", k)

\* relay
Relay(s, k) ==
    IF s.halt \/ s.disconnect_type = "DT_HALT_RESTART" THEN s
    ELSE LET r == IF s.tun /\ s.disconnect_type # "DT_RELAY_TRANSITION"
                    THEN [DisconnectIn(s, RelayDelay) EXCEPT !.disconnect_type = "DT_RELAY_TRANSITION"] ELSE s
         IN  SetHousekeepingTimer(Sent(r, <<RelayMsg>>), k)

\* schedule_disconnect
ScheduleDisconnect(s, d, k) ==
    IF s.halt \/ s.disconnect_type = "DT_HALT_RESTART" THEN s
    ELSE SetHousekeepingTimer(DisconnectIn(s, d), k)

\* schedule_auth_pending_timeout
ScheduleAuthPendingTimeout(s, d, k) ==
    IF s.halt \/ s.disconnect_type \in {"DT_RELAY_TRANSITION", "DT_HALT_RESTART"} \/ d = 0 THEN s
    ELSE SetHousekeepingTimer([DisconnectIn(s, d) EXCEPT !.disconnect_type = "DT_AUTH_PENDING"], k)

\* post_cc_msg
PostCcMsg(s, msg, k) ==
    IF s.halt \/ ~s.primary THEN s ELSE SetHousekeepingTimer(Sent(s, <<msg>>), k)

\* stop
StopServer(s) ==
    IF s.halt THEN s
    ELSE [s EXCEPT !.halt = TRUE, !.timer = Off, !.queued = @ \/ s.timer <= 0,
                   !.primary = FALSE, !.tun = FALSE]

\* Mutant: the schedule is not reset when the timer has fired.
HousekeepingKeepsSchedule(s, invalid, k) ==
    CASE s.halt -> s
      [] ~s.halt /\ invalid /\ s.primary -> StopServer(s)
      [] ~s.halt /\ ~(invalid /\ s.primary) /\ s.disconnect_at > 0 -> SetHousekeepingTimer(s, k)
      [] OTHER ->
            CASE s.disconnect_type = "DT_RELAY_TRANSITION" -> [s EXCEPT !.primary = FALSE]
              [] s.disconnect_type = "DT_AUTH_PENDING" -> PushHaltRestartMsg(s, "AUTH_FAILED", k)
              [] OTHER -> StopServer(s)

\* housekeeping_callback; invalid: the keys were invalidated, by keepalive or by a negotiation.
Housekeeping(s, invalid, k) ==
    IF s.halt THEN s
    ELSE LET r == [s EXCEPT !.schedule = Off]
         IN  CASE invalid /\ s.primary -> StopServer(r)
               [] ~(invalid /\ s.primary) /\ s.disconnect_at > 0 -> SetHousekeepingTimer(r, k)
               [] OTHER ->
                    CASE s.disconnect_type = "DT_RELAY_TRANSITION" -> [r EXCEPT !.primary = FALSE]
                      [] s.disconnect_type = "DT_AUTH_PENDING" -> PushHaltRestartMsg(r, "AUTH_FAILED", k)
                      [] OTHER -> StopServer(r)

-----------------------------------------------------------------------------
(* Actions *)

ServerInit ==
    /\ \E f \in Factories : server = NewServer(f.man, f.tun)
    /\ calls = 0
    /\ toClient = <<>> /\ toServer = 0 /\ asked = FALSE /\ infos = 0

\* The end of a handler that leaves the session as s.
Done(s) ==
    /\ server' = [s EXCEPT !.out = <<>>]
    /\ toClient' = toClient \o s.out /\ Len(toClient') <= MaxToClient

\* get_management
HasMan == server.man_factory /\ ~server.halt

\* A call of the management layer, which exists until the session stops.
ManCall ==
    /\ HasMan /\ calls < MaxCalls
    /\ calls' = calls + 1
    /\ \E k \in KeyTimes :
        \/ /\ \/ \E type \in HaltTypes : Done(PushHaltRestartMsg(server, type, k))
              \/ Done(Relay(server, k))
              \/ \E d \in Delays : Done(ScheduleDisconnect(server, d, k))
              \/ \E d \in Delays : Done(ScheduleAuthPendingTimeout(server, d, k))
              \/ Done(PostCcMsg(server, AuthPendingMsg, k))
           /\ infos' = infos
        \/ /\ infos < Len(Infos) /\ infos' = infos + 1
           /\ Done(PostCcMsg(server, InfoMsg(infos'), k))
    /\ UNCHANGED <<asked, toServer>>

\* Its answer to a PUSH_REQUEST.
ManPushReply ==
    /\ HasMan /\ asked
    /\ asked' = FALSE
    /\ \E k \in KeyTimes, msgs \in PushLists : Done(PushReply(server, msgs, k))
    /\ UNCHANGED <<calls, infos, toServer>>

\* control_recv of a PUSH_REQUEST.
ServerRecv ==
    /\ toServer > 0 /\ toServer' = toServer - 1
    /\ \/ ~server.primary /\ UNCHANGED <<server, toClient, asked>>
       \/ /\ server.primary
          /\ \E k \in KeyTimes :
              IF HasMan
                THEN asked' = TRUE /\ Done(SetHousekeepingTimer(server, k))
                ELSE asked' = asked /\ Done(SetHousekeepingTimer(PushHaltRestartMsg(server, "AUTH_FAILED", k), k))
    /\ UNCHANGED <<calls, infos>>

\* transport_recv of any other packet; garbled: with a control message that is not UTF-8.
TransportRecv ==
    /\ server.primary
    /\ \E k \in KeyTimes, garbled \in BOOLEAN :
        LET s == IF garbled THEN PushHaltRestartMsg(server, "AUTH_FAILED", k) ELSE server
        IN  Done(SetHousekeepingTimer(s, k))
    /\ UNCHANGED <<asked, calls, infos, toServer>>

\* data_limit_notify, by a transport that counts for the server.
DataLimitNotify ==
    /\ ~server.halt
    /\ \E k \in KeyTimes : Done(SetHousekeepingTimer(server, k))
    /\ UNCHANGED <<asked, calls, infos, toServer>>

\* The timer expires, or a handler of it that was queued earlier runs.
HousekeepingCallback ==
    /\ \/ server.timer <= 0
       \/ server.queued
    /\ \E k \in KeyTimes, invalid \in BOOLEAN, stale \in BOOLEAN :
        /\ IF stale THEN server.queued ELSE server.timer <= 0
        /\ Done(Housekeeping(IF stale THEN [server EXCEPT !.queued = FALSE] ELSE [server EXCEPT !.timer = Off],
                             invalid, k))
    /\ UNCHANGED <<asked, calls, infos, toServer>>

\* stop, by the transport.
TransportStops ==
    /\ ~server.halt
    /\ Done(StopServer(server))
    /\ UNCHANGED <<asked, calls, infos, toServer>>

\* Half a second passes.
Aged(t) == IF t >= Infinite THEN t ELSE IF t > -MaxLate THEN t - 1 ELSE t

Tick ==
    /\ ~server.halt /\ server.timer > -MaxLate
    /\ server' = [server EXCEPT !.disconnect_at = Aged(@), !.timer = Aged(@), !.schedule = Aged(@)]
    /\ server' # server
    /\ UNCHANGED <<asked, calls, infos, toClient, toServer>>

\* Any client: it sends a request, or receives what was sent.
AnyClient ==
    /\ \/ toServer < MaxRequests /\ toServer' = toServer + 1 /\ toClient' = toClient
       \/ toClient # <<>> /\ toClient' = <<>> /\ toServer' = toServer
    /\ UNCHANGED <<server, calls, asked, infos>>

ServerNext ==
    \/ AnyClient \/ ManCall \/ ManPushReply \/ ServerRecv \/ TransportRecv \/ DataLimitNotify
    \/ HousekeepingCallback \/ TransportStops \/ Tick

serverVars == <<server, calls, channelVars>>

ServerSpec == ServerInit /\ [][ServerNext]_serverVars

-----------------------------------------------------------------------------
(* Properties *)

(***************************************************************************)
(* A disconnect that is due is never forgotten: as long as disconnect_at   *)
(* is set the timer is, and later than it by no more than CoarseTime       *)
(* allows, whichever of the calls that share the one timer came last; only *)
(* a finished relay transition waits for the transport instead.            *)
(***************************************************************************)
DisconnectArmed ==
    /\ ~server.halt /\ server.disconnect_at < Infinite
    /\ server.disconnect_type = "DT_RELAY_TRANSITION" => server.primary
    => server.timer # Off /\ server.timer <= Later(server.disconnect_at + Pre, 0)

\* What of the session a client can tell.
Promise ==
    [over |-> server.disconnect_type = "DT_HALT_RESTART", keep |-> server.preserve, gone |-> ~server.primary]

Contract == INSTANCE PushServer WITH push <- Promise

(***************************************************************************)
(* The session keeps what PushServer promises the client, whatever the     *)
(* management layer asks for and in whichever order: after HALT, RESTART   *)
(* or AUTH_FAILED there are no options and no second such message, also    *)
(* when it was the timer that sent it, and preserve_session_id agrees with *)
(* what the client was told.                                               *)
(***************************************************************************)
ContractSpec == Contract!PushSpec

=============================================================================
