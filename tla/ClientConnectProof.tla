------------------------ MODULE ClientConnectProof ------------------------
(***************************************************************************)
(* Proofs about ClientConnect: the event loop of a client neither runs dry *)
(* before stop() nor is held after it, an attempt to connect is never      *)
(* without its timeout, and a session is finalized exactly when it ended,  *)
(* for any number of remotes, of calls of the user and of queued handlers. *)
(***************************************************************************)
EXTENDS ClientConnect, TLAPS

Handlers == [timer : Timers, fresh : BOOLEAN]

\* A queue holds a handler of the connection timer, or one that will start a session.
HasConn(q) == \E i \in DOMAIN q : q[i].timer = "conn"
HasRestart(q) == \E i \in DOMAIN q : q[i].timer = "restart_wait" /\ q[i].fresh

\* Nothing has happened before start().
NothingBegun ==
    ~ begun => /\ ~ halt /\ generation = 0 /\ ~ client.made /\ ~ Running
               /\ ready = <<>> /\ ~ resolving /\ \A t \in Timers : ~ timer[t]

(***************************************************************************)
(* What keeps the event loop alive: a session, the first name resolution,  *)
(* the work object of a paused client, or a restart that no other handler  *)
(* has made stale.  Handlers that are queued and will be ignored do not.   *)
(***************************************************************************)
Alive ==
    begun /\ ~ halt
    => \/ Running
       \/ resolving /\ generation = 0
       \/ paused /\ asio_work
       \/ timer["restart_wait"] \/ HasRestart(ready)

\* conn_timer_pending and the timer are two records of one fact.
ConnPending ==
    ~ halt => /\ conn_timer_pending => timer["conn"] \/ HasConn(ready)
              /\ conf.timeout /\ Running /\ ~ client.connected => conn_timer_pending

\* The inductive invariant.
IInv == TypeOK /\ NothingBegun /\ Alive /\ StopDrains /\ ConnPending /\ FinalizedWhenEnded

-----------------------------------------------------------------------------
(* The queue of handlers *)

\* Taking the head leaves the other handlers.
LEMMA TailHandlers ==
    ASSUME NEW q \in Seq(Handlers), q # <<>>
    PROVE  /\ Head(q) \in Handlers /\ Tail(q) \in Seq(Handlers) /\ Len(Tail(q)) <= Len(q)
           /\ HasConn(q) => Head(q).timer = "conn" \/ HasConn(Tail(q))
           /\ HasRestart(q) => (Head(q).timer = "restart_wait" /\ Head(q).fresh) \/ HasRestart(Tail(q))
<1>1. /\ Len(q) \in Nat /\ Len(q) > 0 /\ Head(q) = q[1] /\ Head(q) \in Handlers
      /\ Tail(q) \in Seq(Handlers) /\ Len(Tail(q)) = Len(q) - 1
      /\ \A i \in 1 .. Len(q) - 1 : Tail(q)[i] = q[i + 1]
  OBVIOUS
<1>2. ASSUME NEW i \in DOMAIN q, i # 1
      PROVE  i - 1 \in DOMAIN Tail(q) /\ Tail(q)[i - 1] = q[i]
  BY <1>1, <1>2
<1>3. HasConn(q) => Head(q).timer = "conn" \/ HasConn(Tail(q))
  BY <1>1, <1>2, Zenon DEF HasConn
<1>4. HasRestart(q) => (Head(q).timer = "restart_wait" /\ Head(q).fresh) \/ HasRestart(Tail(q))
  BY <1>1, <1>2, Zenon DEF HasRestart
<1>. QED  BY <1>1, <1>3, <1>4

\* new_client makes every queued handler stale.
LEMMA StaleHandlers ==
    ASSUME NEW q \in Seq(Handlers)
    PROVE  /\ Stale(q) \in Seq(Handlers) /\ Len(Stale(q)) = Len(q)
           /\ HasConn(q) => HasConn(Stale(q))
<1>1. DOMAIN q = 1 .. Len(q) /\ Len(q) \in Nat
  OBVIOUS
<1>2. ASSUME NEW i \in DOMAIN q
      PROVE  [q[i] EXCEPT !.fresh = FALSE] \in Handlers /\ [q[i] EXCEPT !.fresh = FALSE].timer = q[i].timer
  <2>1. \A h \in Handlers : [h EXCEPT !.fresh = FALSE] \in Handlers /\ [h EXCEPT !.fresh = FALSE].timer = h.timer
    BY DEF Handlers
  <2>2. q[i] \in Handlers
    OBVIOUS
  <2>. QED  BY <2>1, <2>2
<1>3. Stale(q) = [i \in 1 .. Len(q) |-> [q[i] EXCEPT !.fresh = FALSE]]
  BY <1>1 DEF Stale
<1>4. Stale(q) \in Seq(Handlers) /\ Len(Stale(q)) = Len(q)
  BY <1>1, <1>2, <1>3
<1>. QED  BY <1>1, <1>2, <1>3, <1>4 DEF HasConn

\* A timer that expires queues its handler.
LEMMA AppendHandlers ==
    ASSUME NEW q \in Seq(Handlers), NEW h \in Handlers
    PROVE  LET r == Append(q, h)
           IN  /\ r \in Seq(Handlers) /\ Len(r) = Len(q) + 1 /\ r # <<>>
               /\ HasConn(q) \/ h.timer = "conn" => HasConn(r)
               /\ HasRestart(q) \/ (h.timer = "restart_wait" /\ h.fresh) => HasRestart(r)
<1>. DEFINE r == Append(q, h)
<1>1. /\ r \in Seq(Handlers) /\ Len(r) = Len(q) + 1 /\ r # <<>> /\ Len(q) \in Nat
      /\ \A i \in 1 .. Len(q) : r[i] = q[i]
      /\ r[Len(q) + 1] = h
  OBVIOUS
<1>. HIDE DEF r
<1>2. Len(q) + 1 \in DOMAIN r /\ \A i \in DOMAIN q : i \in DOMAIN r /\ r[i] = q[i]
  BY <1>1
<1>3. HasConn(q) \/ h.timer = "conn" => HasConn(r)
  BY <1>1, <1>2 DEF HasConn
<1>4. HasRestart(q) \/ (h.timer = "restart_wait" /\ h.fresh) => HasRestart(r)
  BY <1>1, <1>2 DEF HasRestart
<1>. QED  BY <1>1, <1>3, <1>4 DEF r

\* stop() of a session changes two of its fields.
LEMMA StoppedSession ==
    ASSUME NEW s \in Session
    PROVE  /\ Stopped(s) \in Session /\ ~ Stopped(s).running /\ Stopped(s).made = s.made
           /\ ~ Stopped(s).connected
  BY DEF Stopped, Session

-----------------------------------------------------------------------------
(* The parts of handlers *)

\* A new session runs and is not connected yet.
LEMMA NewSessionMade ==
    ASSUME relay \in BOOLEAN
    PROVE  NewSession \in Session /\ NewSession.made /\ NewSession.running /\ ~ NewSession.connected
<1>. DEFINE mode == ~ relay
<1>1. mode \in BOOLEAN /\ NoSession \in Session
  BY DEF NoSession, Session
<1>2. NewSession = [NoSession EXCEPT !.made = TRUE, !.running = TRUE, !.relay_mode = mode] /\ ~ NoSession.connected
  BY DEF NewSession, NoSession
<1>. HIDE DEF mode
<1>. QED  BY <1>1, <1>2 DEF Session

\* new_client: a session runs, and its timeout with it.
LEMMA NewClientStep ==
    ASSUME IInv, NEW q \in Seq(Handlers), Len(q) <= MaxReady, NewClient(q), ~ halt,
           conn_timer_pending => timer["conn"] \/ HasConn(q),
           begun', conf' = conf, paused' \in BOOLEAN, resolving' \in BOOLEAN, calls' \in 0 .. MaxCalls
    PROVE  IInv'
<1>. USE DEF IInv
<1>1. /\ client' \in Session /\ client'.made /\ client'.running /\ ~ client'.connected
  BY NewSessionMade DEF NewClient, TypeOK
<1>2. /\ ready' \in Seq(Handlers) /\ Len(ready') <= MaxReady /\ (HasConn(q) => HasConn(ready'))
  BY StaleHandlers DEF NewClient
<1>3. conf.poll \in BOOLEAN /\ conf.timeout \in BOOLEAN /\ conf.always_on \in BOOLEAN /\ timer["conn"] \in BOOLEAN
  BY DEF TypeOK, Conf, Timers
<1>4. /\ timer' \in [Timers -> BOOLEAN]
      /\ timer'["conn"] = (timer["conn"] \/ (conf.timeout /\ ~ conn_timer_pending))
  <2>. DEFINE c == timer["conn"] \/ (conf.timeout /\ ~ conn_timer_pending)
  <2>1. /\ timer' = [timer EXCEPT !["server_poll"] = conf.poll, !["restart_wait"] = FALSE, !["conn"] = c]
        /\ c \in BOOLEAN /\ timer \in [Timers -> BOOLEAN]
    BY DEF NewClient, NewClientTimers, TypeOK
  <2>. HIDE DEF c
  <2>2. timer' \in [Timers -> BOOLEAN] /\ timer'["conn"] = c
    BY <2>1, <1>3 DEF Timers
  <2>. QED  BY <2>2 DEF c
<1>5. remote' \in 0 .. NumRemotes - 1
  BY ConnectAssumption DEF NewClient, Advanced, TypeOK
<1>6. TypeOK'
  <2>1. conn_timer_pending' \in BOOLEAN /\ generation' \in 0 .. 2 /\ asio_work' \in BOOLEAN
    BY <1>3 DEF NewClient
  <2>. QED  BY <2>1, <1>1, <1>2, <1>4, <1>5 DEF TypeOK, NewClient, Handlers
<1>7. ~ halt'
  BY DEF NewClient
<1>8. ConnPending'
  BY <1>1, <1>2, <1>3, <1>4 DEF ConnPending, NewClient, HasConn, Running
<1>. QED  BY <1>1, <1>6, <1>7, <1>8 DEF NothingBegun, Alive, StopDrains, FinalizedWhenEnded, Running, NewClient

\* pause: the work object stays.
LEMMA PauseStep ==
    ASSUME IInv, NEW q \in Seq(Handlers), Len(q) <= MaxReady, Pause(q), ~ halt, begun',
           conf' = conf, calls' \in 0 .. MaxCalls
    PROVE  IInv'
<1>. USE DEF IInv
<1>1. client' \in Session /\ ~ client'.running /\ client'.made = client.made
  BY StoppedSession DEF Pause, TypeOK
<1>2. timer' \in [Timers -> BOOLEAN] /\ ~ conn_timer_pending'
  BY DEF Pause, CancelTimers
<1>3. TypeOK'
  BY <1>1, <1>2 DEF TypeOK, Pause, CancelTimers, Handlers, Session
<1>4. /\ ~ halt' /\ paused' /\ asio_work' /\ (client.made => client_finalized')
  BY DEF Pause
<1>. QED  BY <1>1, <1>2, <1>3, <1>4 DEF NothingBegun, Alive, StopDrains, FinalizedWhenEnded, ConnPending, Running

\* stop: nothing is left but queued handlers.
LEMMA StopStep ==
    ASSUME IInv, NEW q \in Seq(Handlers), Len(q) <= MaxReady, Stop(q), begun',
           conf' = conf, calls' \in 0 .. MaxCalls
    PROVE  IInv'
<1>. USE DEF IInv
<1>1. client' \in Session /\ ~ client'.running
  BY StoppedSession DEF Stop, TypeOK
<1>2. /\ timer' \in [Timers -> BOOLEAN] /\ ~ conn_timer_pending' /\ \A t \in Timers : ~ timer'[t]
  BY DEF Stop, CancelTimers
<1>3. TypeOK'
  BY <1>1, <1>2 DEF TypeOK, Stop, CancelTimers, Handlers
<1>4. halt' /\ ~ asio_work' /\ ~ resolving'
  BY DEF Stop
<1>. QED  BY <1>1, <1>2, <1>3, <1>4 DEF NothingBegun, Alive, StopDrains, FinalizedWhenEnded, ConnPending, Running

\* queue_restart: the timer that starts the next session runs.
LEMMA QueueRestartStep ==
    ASSUME IInv, NEW s \in Session, QueueRestart(s), ~ halt, begun, begun' = begun,
           conf' = conf, calls' = calls, relay' \in BOOLEAN
    PROVE  IInv'
<1>. USE DEF IInv
<1>1. client' \in Session /\ ~ client'.running
  BY StoppedSession DEF QueueRestart
<1>2. /\ timer' \in [Timers -> BOOLEAN] /\ timer'["restart_wait"] /\ timer'["conn"] = timer["conn"]
  BY DEF QueueRestart, TypeOK, Timers
<1>3. TypeOK'
  BY <1>1, <1>2 DEF TypeOK, QueueRestart
<1>4. /\ ~ halt' /\ client_finalized' /\ ready' = ready /\ conn_timer_pending' = conn_timer_pending
  BY DEF QueueRestart
<1>. QED  BY <1>1, <1>2, <1>3, <1>4
          DEF NothingBegun, Alive, StopDrains, FinalizedWhenEnded, ConnPending, Running, HasConn

-----------------------------------------------------------------------------
(* The actions *)

\* Where a session runs the client was started and has not stopped.
LEMMA RunningMeans ==
    ASSUME IInv, Running
    PROVE  begun /\ ~ halt
  BY DEF IInv, NothingBegun, StopDrains, Running

\* client_proto_terminate leads to stop() or to queue_restart().
LEMMA ProtoTerminateStep ==
    ASSUME IInv, Running, NEW fatal, NEW challenge, NEW s \in Session, ProtoTerminate(fatal, challenge, s)
    PROVE  IInv'
<1>1. begun /\ ~ halt /\ begun' = begun /\ conf' = conf /\ calls' = calls
  BY RunningMeans DEF ProtoTerminate, Environment
<1>2. ready \in Seq(Handlers) /\ Len(ready) <= MaxReady /\ calls \in 0 .. MaxCalls /\ relay \in BOOLEAN
  BY DEF IInv, TypeOK, Handlers
<1>3. CASE Stop(ready)
  BY <1>1, <1>2, <1>3, StopStep
<1>4. CASE QueueRestart(s) /\ relay' = (relay \/ fatal = "RELAY")
  BY <1>1, <1>2, <1>4, QueueRestartStep
<1>. QED  BY <1>3, <1>4, Zenon DEF ProtoTerminate

\* The ways a session ends.
LEMMA EndStep ==
    ASSUME IInv, Fails \/ FailsOnceUp \/ AuthFails \/ Relayed
    PROVE  IInv'
<1>1. client \in Session
  BY DEF IInv, TypeOK
<1>2. [client EXCEPT !.reached = TRUE] \in Session
  BY <1>1 DEF Session
<1>3. \A advance \in BOOLEAN : [client EXCEPT !.advance = advance] \in Session
  BY <1>1 DEF Session
<1>4. CASE Fails
  BY <1>1, <1>4, ProtoTerminateStep DEF Fails
<1>5. CASE FailsOnceUp
  BY <1>2, <1>5, ProtoTerminateStep DEF FailsOnceUp
<1>6. CASE AuthFails
  BY <1>1, <1>3, <1>6, ProtoTerminateStep DEF AuthFails
<1>7. CASE Relayed
  BY <1>1, <1>7, ProtoTerminateStep DEF Relayed
<1>. QED  BY <1>4, <1>5, <1>6, <1>7

\* The first packet of a session.
LEMMA FirstPacketStep ==
    ASSUME IInv, FirstPacket
    PROVE  IInv'
<1>. USE DEF IInv
<1>1. /\ client' \in Session /\ client'.running = client.running /\ client'.made = client.made
      /\ client'.connected = client.connected
  BY DEF FirstPacket, TypeOK, Session
<1>2. TypeOK'
  BY <1>1 DEF FirstPacket, Environment, TypeOK
<1>. QED  BY <1>1, <1>2 DEF FirstPacket, Environment, NothingBegun, Alive, StopDrains, ConnPending,
             FinalizedWhenEnded, Running, HasConn, HasRestart

\* The session is connected, the timeout is over.
LEMMA ProtoConnectedStep ==
    ASSUME IInv, ProtoConnected
    PROVE  IInv'
<1>. USE DEF IInv
<1>1. /\ client' \in Session /\ client'.running = client.running /\ client'.made = client.made
      /\ client'.connected
  BY DEF ProtoConnected, TypeOK, Session
<1>2. /\ timer' \in [Timers -> BOOLEAN] /\ \A t \in Timers : timer'[t] => timer[t]
  BY DEF ProtoConnected, TypeOK, Timers
<1>3. TypeOK'
  BY <1>1, <1>2 DEF ProtoConnected, Environment, TypeOK
<1>4. begun /\ ~ halt /\ begun' /\ ~ halt' /\ client'.running /\ client_finalized' = client_finalized /\ ~ conn_timer_pending'
  BY <1>1, RunningMeans DEF ProtoConnected, Environment, Running
<1>. QED  BY <1>1, <1>3, <1>4 DEF NothingBegun, Alive, StopDrains, ConnPending, FinalizedWhenEnded, Running

\* The server extends the time to connect.
LEMMA AuthPendingTimeoutStep ==
    ASSUME IInv, AuthPendingTimeout
    PROVE  IInv'
<1>. USE DEF IInv
<1>1. /\ timer' \in [Timers -> BOOLEAN] /\ timer'["conn"]
  BY DEF AuthPendingTimeout, TypeOK, Timers
<1>2. TypeOK'
  BY <1>1 DEF AuthPendingTimeout, Environment, TypeOK
<1>3. begun /\ ~ halt /\ begun' /\ ~ halt' /\ client' = client /\ client_finalized' = client_finalized
      /\ conn_timer_pending' /\ Running
  BY RunningMeans DEF AuthPendingTimeout, Environment, Running
<1>. QED  BY <1>1, <1>2, <1>3 DEF NothingBegun, Alive, StopDrains, ConnPending, FinalizedWhenEnded, Running

\* A renegotiation, or an error of the PKI.
LEMMA SideStep ==
    ASSUME IInv, ProtoRenegotiated \/ ExternalPkiError
    PROVE  IInv'
<1>. USE DEF IInv
<1>1. TypeOK'
  BY DEF ProtoRenegotiated, ExternalPkiError, Environment, TypeOK
<1>2. /\ begun /\ ~ halt /\ begun' /\ ~ halt' /\ client' = client /\ client_finalized' = client_finalized
      /\ conn_timer_pending' = conn_timer_pending /\ timer' = timer /\ ready' = ready /\ Running /\ conf' = conf
  BY RunningMeans DEF ProtoRenegotiated, ExternalPkiError, Environment, Running
<1>. QED  BY <1>1, <1>2 DEF NothingBegun, Alive, StopDrains, ConnPending, FinalizedWhenEnded, Running, HasConn

\* start() resolves the remote list, or starts the first session at once.
LEMMA StartStep ==
    ASSUME IInv, Start
    PROVE  IInv'
<1>1. /\ ~ halt /\ begun' /\ conf' = conf /\ paused' = paused /\ calls' = calls /\ generation = 0
      /\ ~ client.made /\ ~ Running
  BY DEF IInv, NothingBegun, Start
<1>2. /\ ready \in Seq(Handlers) /\ Len(ready) <= MaxReady /\ paused \in BOOLEAN /\ resolving \in BOOLEAN
      /\ calls \in 0 .. MaxCalls
  BY DEF IInv, TypeOK, Handlers
<1>3. CASE NewClient(ready) /\ UNCHANGED resolving
  BY <1>1, <1>2, <1>3, NewClientStep DEF IInv, ConnPending
<1>4. CASE conf.cache
  <2>1. /\ resolving' /\ resolving' \in BOOLEAN
        /\ UNCHANGED <<generation, halt, dont_restart, client, client_finalized, relay,
                       remote, timer, ready, conn_timer_pending, asio_work>>
    BY <1>4 DEF Start
  <2>2. TypeOK'
    BY <1>1, <2>1 DEF IInv, TypeOK
  <2>. QED  BY <1>1, <2>1, <2>2 DEF IInv, NothingBegun, Alive, StopDrains, ConnPending, FinalizedWhenEnded,
             Running, HasConn
<1>. QED  BY <1>3, <1>4, Zenon DEF Start

\* The first resolve starts the first session; a later one changes nothing.
LEMMA BulkResolveDoneStep ==
    ASSUME IInv, BulkResolveDone
    PROVE  IInv'
<1>1. /\ begun /\ begun' = begun /\ conf' = conf /\ paused' = paused /\ calls' = calls /\ resolving' = FALSE
      /\ ~ halt
  BY DEF IInv, NothingBegun, StopDrains, BulkResolveDone, Environment
<1>2. /\ ready \in Seq(Handlers) /\ Len(ready) <= MaxReady /\ paused \in BOOLEAN /\ calls \in 0 .. MaxCalls
  BY DEF IInv, TypeOK, Handlers
<1>3. CASE NewClient(ready)
  BY <1>1, <1>2, <1>3, NewClientStep DEF IInv, ConnPending
<1>4. CASE /\ ~ (~ halt /\ generation = 0)
           /\ UNCHANGED <<generation, halt, dont_restart, client, client_finalized, relay, remote,
                          timer, ready, conn_timer_pending, asio_work>>
  <2>1. TypeOK'
    BY <1>1, <1>4 DEF IInv, TypeOK
  <2>. QED  BY <1>1, <1>4, <2>1 DEF IInv, NothingBegun, Alive, StopDrains, ConnPending, FinalizedWhenEnded,
             Running, HasConn, HasRestart
<1>. QED  BY <1>3, <1>4, Zenon DEF BulkResolveDone

\* A timer expires and its handler takes its place.
LEMMA ExpiredStep ==
    ASSUME IInv, NEW t \in Timers, Expired(t)
    PROVE  IInv'
<1>. DEFINE h == [timer |-> t, fresh |-> TRUE]
<1>1. h \in Handlers /\ h.timer = t /\ h.fresh
  BY DEF Handlers
<1>2. /\ ready \in Seq(Handlers) /\ timer \in [Timers -> BOOLEAN] /\ timer[t] /\ Len(ready) < MaxReady
      /\ timer' = [timer EXCEPT ![t] = FALSE] /\ ready' = Append(ready, h)
  BY DEF IInv, TypeOK, Handlers, Expired
<1>. HIDE DEF h
<1>3. /\ ready' \in Seq(Handlers) /\ Len(ready') = Len(ready) + 1
      /\ HasConn(ready) \/ t = "conn" => HasConn(ready')
      /\ HasRestart(ready) \/ t = "restart_wait" => HasRestart(ready')
  BY <1>1, <1>2, AppendHandlers
<1>4. Len(ready') <= MaxReady
  BY <1>2, <1>3, ConnectAssumption
<1>5. /\ timer' \in [Timers -> BOOLEAN] /\ \A u \in Timers : u # t => timer'[u] = timer[u]
  BY <1>2
<1>6. /\ UNCHANGED <<generation, halt, paused, dont_restart, client, client_finalized, relay, remote,
                   conn_timer_pending, asio_work, resolving, conf, begun, calls>>
      /\ "conn" \in Timers /\ "restart_wait" \in Timers
  BY DEF Expired, Environment, Timers
<1>7. TypeOK'
  BY <1>3, <1>4, <1>5, <1>6 DEF IInv, TypeOK, Handlers
<1>8. begun /\ ~ halt
  BY <1>2 DEF IInv, NothingBegun, StopDrains
<1>9. Alive'
  BY <1>3, <1>5, <1>6 DEF IInv, Alive, Running
<1>10. ConnPending'
  BY <1>3, <1>5, <1>6 DEF IInv, ConnPending, Running
<1>. QED  BY <1>6, <1>7, <1>8, <1>9, <1>10 DEF IInv, NothingBegun, StopDrains, FinalizedWhenEnded, Running

\* A handler that is ignored is gone; it was none that the client waits for.
LEMMA IgnoredStep ==
    ASSUME IInv, ready # <<>>, Ignored(Tail(ready)), Environment,
           halt \/ (Head(ready).timer # "conn" /\ ~ (Head(ready).timer = "restart_wait" /\ Head(ready).fresh))
    PROVE  IInv'
<1>1. /\ ready \in Seq(Handlers) /\ Len(ready) <= MaxReady /\ MaxReady \in Nat
  BY ConnectAssumption DEF IInv, TypeOK, Handlers
<1>2. /\ ready' \in Seq(Handlers) /\ Len(ready') <= MaxReady
      /\ ~ halt /\ HasConn(ready) => HasConn(ready')
      /\ ~ halt /\ HasRestart(ready) => HasRestart(ready')
  BY <1>1, TailHandlers DEF Ignored
<1>3. UNCHANGED <<generation, halt, paused, dont_restart, client, client_finalized, relay, remote,
                  timer, conn_timer_pending, asio_work, resolving, conf, begun, calls>>
  BY DEF Ignored, Environment
<1>4. TypeOK'
  BY <1>2, <1>3 DEF IInv, TypeOK, Handlers
<1>5. begun
  BY DEF IInv, NothingBegun
<1>. QED  BY <1>2, <1>3, <1>4, <1>5 DEF IInv, NothingBegun, Alive, StopDrains, ConnPending, FinalizedWhenEnded, Running

\* The event loop runs a handler, be it stale or not.
LEMMA RunHandlerStep ==
    ASSUME IInv, RunHandler
    PROVE  IInv'
<1>. DEFINE h == Head(ready)
            q == Tail(ready)
<1>1. /\ ready # <<>> /\ ready \in Seq(Handlers) /\ Len(ready) <= MaxReady /\ MaxReady \in Nat /\ Environment
      /\ paused \in BOOLEAN /\ resolving \in BOOLEAN /\ calls \in 0 .. MaxCalls
  BY ConnectAssumption DEF IInv, TypeOK, Handlers, RunHandler
<1>2. /\ h \in Handlers /\ q \in Seq(Handlers) /\ Len(q) <= MaxReady
      /\ HasConn(ready) => h.timer = "conn" \/ HasConn(q)
  BY <1>1, TailHandlers
<1>3. begun /\ begun' /\ conf' = conf /\ calls' = calls
  BY <1>1 DEF IInv, NothingBegun, Environment
<1>4. ASSUME Ignored(q), halt \/ (h.timer # "conn" /\ ~ (h.timer = "restart_wait" /\ h.fresh))
      PROVE  IInv'
  BY <1>1, <1>4, IgnoredStep
<1>. HIDE DEF h, q
<1>5. ASSUME NewClient(q), ~ halt, h.timer # "conn", paused' \in BOOLEAN, resolving' \in BOOLEAN
      PROVE  IInv'
  BY <1>1, <1>2, <1>3, <1>5, NewClientStep DEF IInv, ConnPending
<1>6. CASE h.timer = "restart_wait" /\ RestartWaitCallback(h, q)
  <2>1. CASE h.fresh /\ ~ halt /\ paused
    BY <1>1, <1>5, <1>6, <2>1 DEF RestartWaitCallback, Resume
  <2>2. CASE h.fresh /\ ~ halt /\ ~ paused
    BY <1>1, <1>5, <1>6, <2>2 DEF RestartWaitCallback
  <2>3. CASE ~ (h.fresh /\ ~ halt)
    BY <1>4, <1>6, <2>3 DEF RestartWaitCallback
  <2>. QED  BY <2>1, <2>2, <2>3
<1>7. CASE h.timer = "server_poll" /\ ServerPollCallback(h, q)
  <2>1. CASE h.fresh /\ ~ halt /\ ~ client.heard
    BY <1>1, <1>5, <1>7, <2>1 DEF ServerPollCallback
  <2>2. CASE ~ (h.fresh /\ ~ halt /\ ~ client.heard)
    BY <1>4, <1>7, <2>2 DEF ServerPollCallback
  <2>. QED  BY <2>1, <2>2
<1>8. CASE h.timer = "conn" /\ ConnTimerCallback(h, q)
  <2>1. CASE halt
    BY <1>4, <1>8, <2>1 DEF ConnTimerCallback
  <2>2. CASE ~ halt /\ Pause(q)
    BY <1>1, <1>2, <1>3, <2>2, PauseStep
  <2>3. CASE ~ halt /\ Stop(q)
    BY <1>1, <1>2, <1>3, <2>3, StopStep
  <2>. QED  BY <1>8, <2>1, <2>2, <2>3 DEF ConnTimerCallback
<1>9. /\ h.timer = "restart_wait" => RestartWaitCallback(h, q)
      /\ h.timer = "server_poll" => ServerPollCallback(h, q)
      /\ h.timer = "conn" => ConnTimerCallback(h, q)
  <2>1. CASE h.timer = "restart_wait"
    BY <2>1 DEF RunHandler, h, q
  <2>2. CASE h.timer = "server_poll"
    BY <2>2 DEF RunHandler, h, q
  <2>3. CASE h.timer = "conn"
    BY <2>3 DEF RunHandler, h, q
  <2>. QED  BY <2>1, <2>2, <2>3
<1>10. h.timer \in Timers
  BY <1>2 DEF Handlers
<1>. QED  BY <1>6, <1>7, <1>8, <1>9, <1>10 DEF Timers

\* The calls of the user.
LEMMA CallStep ==
    ASSUME IInv, GracefulStop \/ PauseCall \/ ResumeCall \/ ReconnectCall
    PROVE  IInv'
<1>1. /\ ready \in Seq(Handlers) /\ Len(ready) <= MaxReady /\ calls \in 0 .. MaxCalls /\ MaxCalls \in Nat
      /\ resolving \in BOOLEAN
  BY ConnectAssumption DEF IInv, TypeOK, Handlers
<1>2. begun /\ begun' = begun /\ conf' = conf /\ ~ halt
  BY DEF GracefulStop, PauseCall, ResumeCall, ReconnectCall, Call, Environment
<1>3. calls' \in 0 .. MaxCalls
  BY <1>1 DEF GracefulStop, PauseCall, ResumeCall, ReconnectCall, Call, Environment
<1>4. CASE GracefulStop
  BY <1>1, <1>2, <1>3, <1>4, StopStep DEF GracefulStop
<1>5. CASE PauseCall
  BY <1>1, <1>2, <1>3, <1>5, PauseStep DEF PauseCall
<1>6. CASE ResumeCall
  BY <1>1, <1>2, <1>3, <1>6, NewClientStep DEF ResumeCall, Resume, IInv, ConnPending
<1>7. CASE ReconnectCall
  <2>1. /\ timer' \in [Timers -> BOOLEAN] /\ timer'["restart_wait"] /\ timer'["conn"] = timer["conn"]
    BY <1>7 DEF ReconnectCall, IInv, TypeOK, Timers
  <2>2. UNCHANGED <<generation, halt, paused, dont_restart, client, client_finalized, relay, remote,
                    ready, conn_timer_pending, asio_work, resolving>>
    BY <1>7 DEF ReconnectCall
  <2>3. TypeOK'
    BY <1>2, <1>3, <2>1, <2>2 DEF IInv, TypeOK
  <2>. QED  BY <1>2, <2>1, <2>2, <2>3
            DEF IInv, NothingBegun, Alive, StopDrains, ConnPending, FinalizedWhenEnded, Running, HasConn
<1>. QED  BY <1>4, <1>5, <1>6, <1>7

-----------------------------------------------------------------------------
(* The theorems *)

\* At first there is no session, no handler and no timer.
LEMMA InitInv == Init => IInv
<1>. SUFFICES ASSUME Init PROVE IInv
  OBVIOUS
<1>1. client \in Session /\ ~ client.made /\ ~ client.running
  BY DEF Init, NoSession, Session
<1>2. timer \in [Timers -> BOOLEAN] /\ \A t \in Timers : ~ timer[t]
  BY DEF Init
<1>3. ready \in Seq([timer : Timers, fresh : BOOLEAN]) /\ Len(ready) = 0
  BY DEF Init
<1>4. TypeOK
  <2>1. 0 \in 0 .. NumRemotes - 1 /\ 0 \in 0 .. MaxCalls /\ 0 <= MaxReady
    BY ConnectAssumption
  <2>2. conf \in Conf /\ generation \in 0 .. 2 /\ remote \in 0 .. NumRemotes - 1 /\ calls \in 0 .. MaxCalls
    BY <2>1 DEF Init
  <2>3. /\ begun \in BOOLEAN /\ halt \in BOOLEAN /\ paused \in BOOLEAN /\ dont_restart \in BOOLEAN
        /\ client_finalized \in BOOLEAN /\ relay \in BOOLEAN /\ conn_timer_pending \in BOOLEAN
        /\ asio_work \in BOOLEAN /\ resolving \in BOOLEAN
    BY Zenon DEF Init
  <2>. QED  BY <1>1, <1>2, <1>3, <2>1, <2>2, <2>3, Zenon DEF TypeOK
<1>. QED  BY <1>1, <1>2, <1>4 DEF Init, IInv, NothingBegun, Alive, StopDrains, ConnPending, FinalizedWhenEnded, Running

\* Every handler preserves the inductive invariant.
LEMMA NextInv == IInv /\ [Next]_vars => IInv'
<1>. SUFFICES ASSUME IInv, [Next]_vars PROVE IInv'
  OBVIOUS
<1>1. CASE UNCHANGED vars
  BY <1>1 DEF vars, IInv, TypeOK, NothingBegun, Alive, StopDrains, ConnPending, FinalizedWhenEnded, Running,
     HasConn, HasRestart
<1>2. CASE Start
  BY <1>2, StartStep
<1>3. CASE BulkResolveDone
  BY <1>3, BulkResolveDoneStep
<1>4. CASE FirstPacket
  BY <1>4, FirstPacketStep
<1>5. CASE ProtoConnected
  BY <1>5, ProtoConnectedStep
<1>6. CASE AuthPendingTimeout
  BY <1>6, AuthPendingTimeoutStep
<1>7. CASE ProtoRenegotiated \/ ExternalPkiError
  BY <1>7, SideStep
<1>8. CASE Fails \/ FailsOnceUp \/ AuthFails \/ Relayed
  BY <1>8, EndStep
<1>9. CASE \E t \in Timers : Expired(t)
  BY <1>9, ExpiredStep
<1>10. CASE RunHandler
  BY <1>10, RunHandlerStep
<1>11. CASE GracefulStop \/ PauseCall \/ ResumeCall \/ ReconnectCall
  BY <1>11, CallStep
<1>. QED  BY <1>1, <1>2, <1>3, <1>4, <1>5, <1>6, <1>7, <1>8, <1>9, <1>10, <1>11 DEF Next

\* The inductive invariant holds in every state of every execution.
THEOREM Inductive == Spec => []IInv
  BY InitInv, NextInv, PTL DEF Spec

(***************************************************************************)
(* Every variable of the client keeps its type; in particular the position *)
(* stays in the remote list, whatever its length, through every rotation.  *)
(***************************************************************************)
THEOREM TypeCorrect == Spec => []TypeOK
<1>1. IInv => TypeOK
  BY DEF IInv
<1>. QED  BY <1>1, Inductive, PTL

(***************************************************************************)
(* connect() does not return before stop(): of all that may be cancelled,  *)
(* paused, made stale or ended, something is left that the event loop      *)
(* waits for.                                                              *)
(***************************************************************************)
THEOREM NeverDry == Spec => []NeverRunsDry
<1>1. IInv => NeverRunsDry
  <2>. SUFFICES ASSUME IInv, begun, ~ halt PROVE Work
    BY DEF NeverRunsDry
  <2>1. HasRestart(ready) => ready # <<>>
    BY DEF HasRestart
  <2>2. "restart_wait" \in Timers
    BY DEF Timers
  <2>. QED  BY <2>1, <2>2 DEF IInv, Alive, Work
<1>. QED  BY <1>1, Inductive, PTL

(***************************************************************************)
(* After stop() no timer, session, resolve or work object holds the event  *)
(* loop, and no handler that was still queued brings one back.             *)
(***************************************************************************)
THEOREM StopIsFinal == Spec => []StopDrains
<1>1. IInv => StopDrains
  BY DEF IInv
<1>. QED  BY <1>1, Inductive, PTL

(***************************************************************************)
(* A session that is not connected has the connection timer, running or    *)
(* expired with its handler queued, across pauses, reconnects and restarts *)
(* of the session.                                                         *)
(***************************************************************************)
THEOREM TimeoutGuards == Spec => []ConnTimerGuards
<1>1. IInv => ConnTimerGuards
  BY DEF IInv, ConnPending, ConnTimerGuards, HasConn
<1>. QED  BY <1>1, Inductive, PTL

(***************************************************************************)
(* A session is finalized when it has ended, whichever of the ways it      *)
(* ended, and never while it runs.                                         *)
(***************************************************************************)
THEOREM Finalized == Spec => []FinalizedWhenEnded
<1>1. IInv => FinalizedWhenEnded
  BY DEF IInv
<1>. QED  BY <1>1, Inductive, PTL

=============================================================================
