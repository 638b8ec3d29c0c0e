---------------------------- MODULE SessionProof ----------------------------
(***************************************************************************)
(* Proofs about Session: a client is not sent back and forth by            *)
(* AUTH_FAILED, keeps the session id its server keeps, shows INFO messages *)
(* in order, and a session that has stopped is final, for every profile,   *)
(* every list of options, any number of sessions and of messages on their  *)
(* way.                                                                    *)
(***************************************************************************)
EXTENDS Session, TLAPS

Creds == [session_id : BOOLEAN, password : BOOLEAN, needed : BOOLEAN, interaction : BOOLEAN, refused : Nat]

ClientType ==
    [relay_mode : BOOLEAN, halt : BOOLEAN, active : BOOLEAN, partial : BOOLEAN, complete : BOOLEAN,
     options : SUBSET Bodies, fatal : Fatals, ended : Fatals, connected : BOOLEAN, tun : {"none", "running", "stopped"},
     timers : SUBSET Timers, counting : BOOLEAN, posts : 0 .. MaxPosts,
     info_hold : Seq(Nat), holding : BOOLEAN, shown : Seq(Nat), read : Seq(Nat),
     terminated : 0 .. 1, receiving : BOOLEAN, token : BOOLEAN, creds : Creds, config : Config]

\* A session id that was refused is not offered again.
RefusedOnce(creds) == creds.refused = 0 \/ (creds.refused = 1 /\ ~creds.session_id)

\* INFO events are held back until CONNECTED was shown and the timer has fired.
InfoHeld(c) ==
    /\ c.shown \o c.info_hold = c.read
    /\ c.shown # <<>> => c.connected
    /\ ~c.holding => c.info_hold = <<>> /\ c.connected
    /\ "info_hold_timer" \in c.timers => c.connected

\* What every method of the session preserves.
ClientInv(c) ==
    /\ c \in ClientType
    /\ c.terminated = 1 => c.halt
    /\ RefusedOnce(c.creds)
    /\ c.token => c.complete
    /\ InfoHeld(c)

\* A message that leaves the client its session id.
Harmless(m) == m \notin {HaltMsg, RestartMsg(FALSE), AuthFailedMsg(FALSE)}

ChannelInv ==
    /\ toClient \in Seq(Messages) /\ toServer \in 0 .. MaxRequests
    /\ infos \in 0 .. Len(Infos) /\ push \in [over : BOOLEAN, keep : BOOLEAN, gone : BOOLEAN]

\* While the server keeps the session id, nothing on its way takes it from the client.
KeepInv ==
    push.keep => /\ client.token => client.creds.session_id
                 /\ \A i \in DOMAIN toClient : Harmless(toClient[i])

\* The inductive invariant.
SInv == ClientInv(client) /\ ChannelInv /\ KeepInv

-----------------------------------------------------------------------------
(* The methods of the session *)

\* r has the session id, the token and the options of c.
SameId(r, c) == r.creds.session_id = c.creds.session_id /\ r.token = c.token

\* r shows, holds and has read what c has, and sets no timer for it.
SameInfo(r, c) ==
    /\ r.shown = c.shown /\ r.info_hold = c.info_hold /\ r.read = c.read /\ r.holding = c.holding
    /\ r.connected = c.connected
    /\ "info_hold_timer" \in r.timers => "info_hold_timer" \in c.timers

\* What a method leaves alone stays right.
LEMMA SameInfoHeld ==
    ASSUME NEW c, NEW r, InfoHeld(c), SameInfo(r, c)
    PROVE  InfoHeld(r)
  BY DEF InfoHeld, SameInfo

\* stop() calls the parent once and leaves it the error that was recorded.
LEMMA StopMethod ==
    ASSUME NEW c, ClientInv(c), NEW terminate \in BOOLEAN
    PROVE  /\ ClientInv(Stop(c, terminate)) /\ Stop(c, terminate).halt
           /\ Stop(c, terminate).creds = c.creds /\ Stop(c, terminate).token = c.token
<1>1. CASE c.halt
  BY <1>1 DEF Stop
<1>2. CASE ~c.halt
  <2>. DEFINE t == IF terminate THEN c.terminated + 1 ELSE c.terminated
              u == IF c.tun = "running" THEN "stopped" ELSE c.tun
              r == [c EXCEPT !.halt = TRUE, !.ended = c.fatal, !.counting = FALSE, !.terminated = t, !.tun = u]
  <2>1. c \in ClientType /\ t \in 0 .. 1 /\ u \in {"none", "running", "stopped"}
    BY <1>2 DEF ClientInv, ClientType
  <2>2. Stop(c, terminate) = r
    BY <1>2 DEF Stop
  <2>. HIDE DEF t, u
  <2>3. /\ r \in ClientType /\ r.halt /\ r.creds = c.creds /\ r.token = c.token /\ r.complete = c.complete
    BY <2>1 DEF ClientType
  <2>4. SameInfo(r, c)
    BY <2>1 DEF ClientType, SameInfo
  <2>. HIDE DEF r
  <2>5. ClientInv(r)
    BY <2>3, <2>4, SameInfoHeld DEF ClientInv
  <2>. QED  BY <2>2, <2>3, <2>5
<1>. QED  BY <1>1, <1>2

\* An error is recorded before stop().
LEMMA FailMethod ==
    ASSUME NEW c, ClientInv(c), NEW fatal \in Fatals
    PROVE  ClientInv(Fail(c, fatal)) /\ Fail(c, fatal).halt /\ SameId(Fail(c, fatal), c)
<1>. DEFINE r == [c EXCEPT !.fatal = fatal]
<1>1. c \in ClientType
  BY DEF ClientInv
<1>2. /\ r \in ClientType /\ r.halt = c.halt /\ r.creds = c.creds /\ r.token = c.token /\ r.complete = c.complete
      /\ r.terminated = c.terminated /\ SameInfo(r, c)
  BY <1>1 DEF ClientType, SameInfo
<1>. HIDE DEF r
<1>3. ClientInv(r)
  BY <1>2, SameInfoHeld DEF ClientInv
<1>4. CASE fatal = "UNDEF"
  BY <1>4, StopMethod DEF Fail, SameId
<1>5. CASE fatal # "UNDEF"
  <2>1. Fail(c, fatal) = Stop(r, TRUE)
    BY <1>5 DEF Fail, r
  <2>. QED  BY <1>2, <1>3, <2>1, StopMethod DEF SameId
<1>. QED  BY <1>4, <1>5

\* An exception loses the other messages of the packet.
LEMMA ThrowMethod ==
    ASSUME NEW c, ClientInv(c), NEW fatal \in Fatals
    PROVE  ClientInv(Throw(c, fatal)) /\ Throw(c, fatal).halt /\ SameId(Throw(c, fatal), c)
<1>. DEFINE f == Fail(c, fatal)
            r == [f EXCEPT !.receiving = FALSE]
<1>1. ClientInv(f) /\ f.halt /\ SameId(f, c) /\ f \in ClientType
  BY FailMethod DEF ClientInv
<1>. HIDE DEF f
<1>2. /\ r \in ClientType /\ r.halt = f.halt /\ r.creds = f.creds /\ r.token = f.token /\ r.complete = f.complete
      /\ r.terminated = f.terminated /\ SameInfo(r, f)
  BY <1>1 DEF ClientType, SameInfo
<1>3. Throw(c, fatal) = r
  BY DEF Throw, f
<1>. HIDE DEF r
<1>. QED  BY <1>1, <1>2, <1>3, SameInfoHeld DEF ClientInv, SameId

\* Other credentials, and nothing else, still make a session.
LEMMA CredsChange ==
    ASSUME NEW c, ClientInv(c), NEW creds \in Creds, RefusedOnce(creds)
    PROVE  LET r == [c EXCEPT !.creds = creds]
           IN  ClientInv(r) /\ r.creds = creds /\ r.token = c.token /\ r.complete = c.complete /\ r.halt = c.halt
<1>. DEFINE r == [c EXCEPT !.creds = creds]
<1>1. c \in ClientType
  BY DEF ClientInv
<1>2. /\ r \in ClientType /\ r.halt = c.halt /\ r.creds = creds /\ r.token = c.token /\ r.complete = c.complete
      /\ r.terminated = c.terminated /\ SameInfo(r, c)
  BY <1>1 DEF ClientType, SameInfo
<1>. HIDE DEF r
<1>3. ClientInv(r)
  BY <1>2, SameInfoHeld DEF ClientInv
<1>. QED  BY <1>2, <1>3 DEF r

\* A session that was given a token has a session id.
IdKept(c) == c.token => c.creds.session_id

\* recv_auth_failed: the id is purged, and a refusal counted once at most.
LEMMA RecvAuthFailedMethod ==
    ASSUME NEW c, ClientInv(c), NEW temp \in BOOLEAN
    PROVE  ClientInv(RecvAuthFailed(c, temp)) /\ (temp => SameId(RecvAuthFailed(c, temp), c))
<1>1. CASE temp
  BY <1>1, StopMethod DEF RecvAuthFailed, SameId
<1>2. CASE ~temp
  <2>. DEFINE k == [c.creds EXCEPT !.session_id = FALSE]
              k1 == [k EXCEPT !.refused = IF c.halt THEN @ ELSE @ + 1]
              p == [c EXCEPT !.creds.session_id = FALSE]
              p1 == [p EXCEPT !.creds.refused = IF c.halt THEN @ ELSE @ + 1]
              reconnect == ~c.creds.interaction /\ (~c.creds.needed \/ c.creds.password)
  <2>1. c.creds \in Creds /\ RefusedOnce(c.creds) /\ c \in ClientType
    BY DEF ClientInv, ClientType
  <2>2. k \in Creds /\ RefusedOnce(k) /\ k.refused = c.creds.refused
    BY <2>1 DEF Creds, RefusedOnce
  <2>3. c.creds.session_id => k1 \in Creds /\ RefusedOnce(k1)
    <3>1. c.creds.session_id => k.refused = 0
      BY <2>1, <2>2 DEF RefusedOnce
    <3>2. k \in Creds /\ ~k.session_id
      BY <2>1, <2>2 DEF Creds
    <3>. HIDE DEF k
    <3>. QED  BY <3>1, <3>2 DEF Creds, RefusedOnce
  <2>4. p = [c EXCEPT !.creds = k]
    BY <2>1 DEF ClientType
  <2>5. p1 = [p EXCEPT !.creds = [p.creds EXCEPT !.refused = IF c.halt THEN p.creds.refused ELSE p.creds.refused + 1]]
    BY <2>1 DEF ClientType
  <2>. HIDE DEF k, p
  <2>6. ClientInv(p) /\ p.creds = k
    BY <2>2, <2>4, CredsChange
  <2>7. c.creds.session_id => ClientInv(p1)
    BY <2>3, <2>5, <2>6, CredsChange
  <2>. HIDE DEF p1, reconnect
  <2>8. RecvAuthFailed(c, temp) = CASE ~c.creds.session_id -> Fail(p, "AUTH_FAILED")
                                    [] c.creds.session_id /\ reconnect -> Stop(p1, TRUE)
                                    [] OTHER -> Fail(p, "SESSION_EXPIRED")
    BY <1>2, Zenon DEF RecvAuthFailed, p1, p, reconnect
  <2>9. "AUTH_FAILED" \in Fatals /\ "SESSION_EXPIRED" \in Fatals
    BY DEF Fatals
  <2>10. CASE ~c.creds.session_id
    BY <2>6, <2>8, <2>9, <2>10, <1>2, FailMethod
  <2>11. CASE c.creds.session_id /\ reconnect
    BY <2>7, <2>8, <2>11, <1>2, StopMethod
  <2>12. CASE c.creds.session_id /\ ~reconnect
    BY <2>6, <2>8, <2>9, <2>12, <1>2, FailMethod
  <2>. QED  BY <2>10, <2>11, <2>12
<1>. QED  BY <1>1, <1>2

\* recv_halt_restart: the id is purged unless [P] says otherwise.
LEMMA RecvHaltRestartMethod ==
    ASSUME NEW c, ClientInv(c), NEW restart \in BOOLEAN, NEW psid \in BOOLEAN
    PROVE  LET r == RecvHaltRestart(c, restart, psid)
           IN  ClientInv(r) /\ r.token = c.token /\ (psid => SameId(r, c))
<1>. DEFINE id == c.creds.session_id /\ psid
            k == [c.creds EXCEPT !.session_id = id]
            p == [c EXCEPT !.creds.session_id = id]
            fatal == IF restart THEN "CLIENT_RESTART" ELSE "CLIENT_HALT"
<1>1. c.creds \in Creds /\ RefusedOnce(c.creds) /\ c \in ClientType /\ id \in BOOLEAN
  BY DEF ClientInv, ClientType, Creds
<1>2. (id => c.creds.session_id) /\ (psid => id = c.creds.session_id)
  BY <1>1 DEF Creds
<1>3. RecvHaltRestart(c, restart, psid) = Fail(p, fatal)
  BY DEF RecvHaltRestart
<1>. HIDE DEF id
<1>4. k \in Creds /\ RefusedOnce(k) /\ k.session_id = id
  BY <1>1, <1>2 DEF Creds, RefusedOnce
<1>5. p = [c EXCEPT !.creds = k]
  BY <1>1 DEF ClientType
<1>. HIDE DEF k, p
<1>6. ClientInv(p) /\ p.creds = k /\ p.token = c.token
  BY <1>4, <1>5, CredsChange
<1>7. fatal \in Fatals
  BY DEF Fatals
<1>. HIDE DEF fatal
<1>8. ClientInv(Fail(p, fatal)) /\ SameId(Fail(p, fatal), p)
  BY <1>6, <1>7, FailMethod
<1>. QED  BY <1>2, <1>3, <1>4, <1>6, <1>8 DEF SameId

\* extract_auth_token: the id is there, and may be refused again.
LEMMA ExtractAuthTokenMethod ==
    ASSUME NEW c, ClientInv(c), c.complete, NEW opts
    PROVE  LET r == ExtractAuthToken(c, opts)
           IN  ClientInv(r) /\ r.halt = c.halt /\ r.complete /\ (IdKept(c) => IdKept(r))
<1>1. CASE "token" \notin opts
  BY <1>1 DEF ExtractAuthToken
<1>2. CASE "token" \in opts
  <2>. DEFINE k == [c.creds EXCEPT !.session_id = TRUE, !.refused = 0]
              p == [c EXCEPT !.creds = k]
              r == [p EXCEPT !.token = TRUE]
  <2>1. c.creds \in Creds /\ RefusedOnce(c.creds) /\ c \in ClientType
    BY DEF ClientInv, ClientType
  <2>2. k \in Creds /\ RefusedOnce(k) /\ k.session_id
    BY <2>1 DEF Creds, RefusedOnce
  <2>3. ExtractAuthToken(c, opts) = r
    BY <1>2, <2>1 DEF ExtractAuthToken, ClientType
  <2>. HIDE DEF k
  <2>4. ClientInv(p) /\ p.creds = k /\ p.complete = c.complete /\ p.halt = c.halt /\ p \in ClientType
    BY <2>2, CredsChange DEF ClientInv
  <2>. HIDE DEF p
  <2>5. /\ r \in ClientType /\ r.halt = p.halt /\ r.creds = p.creds /\ r.token /\ r.complete = p.complete
        /\ r.terminated = p.terminated /\ SameInfo(r, p)
    BY <2>4 DEF ClientType, SameInfo
  <2>. HIDE DEF r
  <2>6. ClientInv(r)
    BY <2>4, <2>5, SameInfoHeld DEF ClientInv
  <2>. QED  BY <2>2, <2>3, <2>4, <2>5, <2>6 DEF IdKept
<1>. QED  BY <1>1, <1>2

\* Appending to the second of two sequences, and the empty sequence.
LEMMA ConcatAppend ==
    ASSUME NEW s \in Seq(Nat), NEW h \in Seq(Nat), NEW n \in Nat
    PROVE  s \o Append(h, n) = Append(s \o h, n) /\ s \o <<>> = s /\ Append(s, n) \o <<>> = Append(s, n)
<1>1. s \o Append(h, n) = Append(s \o h, n)
  <2>. DEFINE a == s \o Append(h, n)
              b == Append(s \o h, n)
  <2>1. a \in Seq(Nat) /\ Len(a) = Len(s) + (Len(h) + 1) /\ b \in Seq(Nat) /\ Len(b) = (Len(s) + Len(h)) + 1
    OBVIOUS
  <2>2. ASSUME NEW i \in 1 .. Len(a) PROVE a[i] = b[i]
    <3>1. CASE i <= Len(s)
      BY <3>1
    <3>2. CASE i > Len(s) /\ i <= Len(s) + Len(h)
      BY <3>2
    <3>3. CASE i = Len(s) + Len(h) + 1
      BY <3>3
    <3>. QED  BY <2>1, <3>1, <3>2, <3>3
  <2>3. Len(a) = Len(b)
    BY <2>1
  <2>. HIDE DEF a, b
  <2>4. DOMAIN a = 1 .. Len(a) /\ DOMAIN b = 1 .. Len(b)
    BY <2>1
  <2>5. a = [i \in 1 .. Len(a) |-> a[i]] /\ b = [i \in 1 .. Len(b) |-> b[i]]
    BY <2>1
  <2>6. a = b
    BY <2>2, <2>3, <2>5
  <2>. QED  BY <2>6 DEF a, b
<1>2. s \o <<>> = s /\ Append(s, n) \o <<>> = Append(s, n)
  OBVIOUS
<1>. QED  BY <1>1, <1>2

\* recv_info: the event is held back or shown, after all that came before it.
LEMMA RecvInfoMethod ==
    ASSUME NEW c, ClientInv(c), NEW m, m.info \in [pre : BOOLEAN, web : BOOLEAN], m.n \in Nat
    PROVE  ClientInv(RecvInfo(c, m)) /\ SameId(RecvInfo(c, m), c)
<1>. DEFINE i == c.creds.interaction \/ m.info.web
            k == [c.creds EXCEPT !.interaction = i]
            w == [c EXCEPT !.creds.interaction = i]
            r == [w EXCEPT !.read = Append(@, m.n)]
            held == [r EXCEPT !.info_hold = Append(@, m.n)]
            seen == [r EXCEPT !.shown = Append(@, m.n)]
<1>1. c.creds \in Creds /\ RefusedOnce(c.creds) /\ c \in ClientType /\ i \in BOOLEAN
  BY DEF ClientInv, ClientType, Creds
<1>2. RecvInfo(c, m) = CASE m.info.pre -> w
                         [] ~m.info.pre /\ c.holding -> held
                         [] OTHER -> seen
  BY Zenon DEF RecvInfo
<1>. HIDE DEF i
<1>3. k \in Creds /\ RefusedOnce(k) /\ k.session_id = c.creds.session_id
  BY <1>1 DEF Creds, RefusedOnce
<1>4. w = [c EXCEPT !.creds = k] /\ SameInfo(w, c)
  BY <1>1 DEF ClientType, SameInfo
<1>. HIDE DEF k, w
<1>5. ClientInv(w) /\ SameId(w, c)
  BY <1>3, <1>4, CredsChange DEF SameId
<1>6. /\ w \in ClientType /\ w.holding = c.holding /\ InfoHeld(w) /\ w.shown \in Seq(Nat) /\ w.info_hold \in Seq(Nat)
      /\ w.read \in Seq(Nat)
  BY <1>4, <1>5 DEF ClientInv, SameInfo, ClientType
<1>. DEFINE read1 == Append(w.read, m.n)
            hold1 == Append(w.info_hold, m.n)
            shown1 == Append(w.shown, m.n)
<1>7. /\ w.shown \o hold1 = read1
      /\ w.info_hold = <<>> => shown1 \o w.info_hold = read1
      /\ read1 \in Seq(Nat) /\ hold1 \in Seq(Nat) /\ shown1 \in Seq(Nat)
  <2>1. w.shown \o w.info_hold = w.read
    BY <1>6 DEF InfoHeld
  <2>2. w.shown \o hold1 = read1
    <3>1. w.shown \o Append(w.info_hold, m.n) = Append(w.shown \o w.info_hold, m.n)
      BY <1>6, ConcatAppend, Zenon
    <3>. QED  BY <2>1, <3>1
  <2>3. w.info_hold = <<>> => w.shown = w.read
    BY <1>6, <2>1, ConcatAppend
  <2>4. w.info_hold = <<>> => shown1 \o w.info_hold = read1
    BY <1>6, <2>3, ConcatAppend
  <2>5. /\ read1 \in Seq(Nat) /\ hold1 \in Seq(Nat) /\ shown1 \in Seq(Nat)
    BY <1>6
  <2>. QED  BY <2>2, <2>4, <2>5
<1>8. CASE m.info.pre
  BY <1>2, <1>5, <1>8
<1>9. CASE ~m.info.pre /\ c.holding
  <2>0. held = [[w EXCEPT !.read = read1] EXCEPT !.info_hold = hold1]
    BY <1>6 DEF ClientType
  <2>. HIDE DEF held, read1, hold1, shown1
  <2>1. /\ held \in ClientType /\ held.halt = w.halt /\ held.creds = w.creds /\ held.token = w.token
        /\ held.complete = w.complete /\ held.terminated = w.terminated /\ held.connected = w.connected
        /\ held.holding = w.holding /\ held.timers = w.timers /\ held.shown = w.shown
        /\ held.info_hold = hold1 /\ held.read = read1
    BY <1>6, <1>7, <2>0 DEF ClientType
  <2>2. InfoHeld(held)
    BY <1>6, <1>7, <1>9, <2>1 DEF InfoHeld
  <2>. QED  BY <1>2, <1>5, <1>9, <2>1, <2>2 DEF ClientInv, SameId
<1>10. CASE ~m.info.pre /\ ~c.holding
  <2>0. seen = [[w EXCEPT !.read = read1] EXCEPT !.shown = shown1]
    BY <1>6 DEF ClientType
  <2>. HIDE DEF seen, read1, hold1, shown1
  <2>1. /\ seen \in ClientType /\ seen.halt = w.halt /\ seen.creds = w.creds /\ seen.token = w.token
        /\ seen.complete = w.complete /\ seen.terminated = w.terminated /\ seen.connected = w.connected
        /\ seen.holding = w.holding /\ seen.timers = w.timers /\ seen.shown = shown1
        /\ seen.info_hold = w.info_hold /\ seen.read = read1
    BY <1>6, <1>7, <2>0 DEF ClientType
  <2>2. InfoHeld(seen)
    BY <1>6, <1>7, <1>10, <2>1 DEF InfoHeld
  <2>. QED  BY <1>2, <1>5, <1>10, <2>1, <2>2 DEF ClientInv, SameId
<1>. QED  BY <1>1, <1>8, <1>9, <1>10 DEF ClientType

\* The session is up; from now on INFO events may be shown.
LEMMA ConnectedMethod ==
    ASSUME NEW c, ClientInv(c)
    PROVE  LET r == Connected([c EXCEPT !.tun = "running"])
           IN  ClientInv(r) /\ SameId(r, c)
<1>. DEFINE p == [c EXCEPT !.tun = "running"]
            more == IF c.config.inactive THEN {"inactive_timer"} ELSE {}
            timers1 == c.timers \cup {"info_hold_timer"} \cup more
            r == [p EXCEPT !.connected = TRUE, !.counting = c.config.inactive, !.timers = timers1]
<1>1. c \in ClientType /\ c.config.inactive \in BOOLEAN /\ c.timers \subseteq Timers /\ InfoHeld(c)
  BY DEF ClientInv, ClientType, Config
<1>2. timers1 \in SUBSET Timers
  BY <1>1 DEF Timers
<1>3. Connected(p) = r
  <2>1. p.config = c.config /\ p.timers = c.timers
    BY <1>1 DEF ClientType
  <2>. HIDE DEF p
  <2>. QED  BY <2>1 DEF Connected
<1>. HIDE DEF timers1
<1>4. /\ p \in ClientType /\ p.halt = c.halt /\ p.creds = c.creds /\ p.token = c.token /\ p.complete = c.complete
      /\ p.terminated = c.terminated /\ p.shown = c.shown /\ p.info_hold = c.info_hold /\ p.read = c.read
      /\ p.holding = c.holding
  BY <1>1 DEF ClientType
<1>. HIDE DEF p
<1>5. /\ r \in ClientType /\ r.halt = p.halt /\ r.creds = p.creds /\ r.token = p.token /\ r.complete = p.complete
      /\ r.terminated = p.terminated /\ r.shown = p.shown /\ r.info_hold = p.info_hold /\ r.read = p.read
      /\ r.holding = p.holding /\ r.connected
  BY <1>1, <1>2, <1>4 DEF ClientType
<1>. HIDE DEF r
<1>6. InfoHeld(r)
  BY <1>1, <1>4, <1>5 DEF InfoHeld
<1>7. ClientInv(r) /\ SameId(r, c)
  BY <1>4, <1>5, <1>6 DEF ClientInv, SameId
<1>. QED  BY <1>3, <1>7 DEF p

\* The options are complete: the token is taken and the tun device set up, or an error ends the session.
LEMMA ConfigureMethod ==
    ASSUME NEW c, ClientInv(c), c.complete, NEW tunok \in BOOLEAN
    PROVE  LET r == Configure(c, tunok)
           IN  ClientInv(r) /\ (IdKept(c) => IdKept(r))
<1>. DEFINE t == ExtractAuthToken(c, c.options)
            q == [t EXCEPT !.creds.password = FALSE]
            n == IF c.config.auth_nocache THEN q ELSE t
            x == [n EXCEPT !.tun = "stopped"]
            up == Connected([n EXCEPT !.tun = "running"])
<1>1. ClientInv(t) /\ (IdKept(c) => IdKept(t)) /\ t \in ClientType /\ t.creds \in Creds /\ RefusedOnce(t.creds)
  <2>1. ClientInv(t) /\ (IdKept(c) => IdKept(t))
    BY ExtractAuthTokenMethod
  <2>. HIDE DEF t
  <2>. QED  BY <2>1 DEF ClientInv, ClientType
<1>2. Configure(c, tunok) = CASE c.relay_mode -> Fail(c, "RELAY_ERROR")
                  [] ~c.relay_mode /\ "unusable" \in c.options -> Throw(t, "UNDEF")
                  [] ~c.relay_mode /\ "unusable" \notin c.options /\ ~tunok -> Throw(x, "TUN_SETUP_FAILED")
                  [] OTHER -> IF "compress" \in c.options THEN Throw(up, "COMPRESS_ERROR") ELSE up
  BY Zenon DEF Configure
<1>. HIDE DEF t
<1>3. ClientInv(q) /\ SameId(q, t)
  <2>. DEFINE k == [t.creds EXCEPT !.password = FALSE]
  <2>1. k \in Creds /\ RefusedOnce(k) /\ k.session_id = t.creds.session_id
    BY <1>1 DEF Creds, RefusedOnce
  <2>2. q = [t EXCEPT !.creds = k]
    BY <1>1 DEF ClientType
  <2>. HIDE DEF k, q
  <2>. QED  BY <1>1, <2>1, <2>2, CredsChange DEF SameId
<1>. HIDE DEF q
<1>4. ClientInv(n) /\ SameId(n, t)
  BY <1>1, <1>3 DEF SameId
<1>. HIDE DEF n
<1>5. ClientInv(x) /\ SameId(x, n)
  <2>1. n \in ClientType
    BY <1>4 DEF ClientInv
  <2>2. /\ x \in ClientType /\ x.halt = n.halt /\ x.creds = n.creds /\ x.token = n.token /\ x.complete = n.complete
        /\ x.terminated = n.terminated /\ SameInfo(x, n)
    BY <2>1 DEF ClientType, SameInfo
  <2>. HIDE DEF x
  <2>. QED  BY <1>4, <2>2, SameInfoHeld DEF ClientInv, SameId
<1>6. ClientInv(up) /\ SameId(up, n)
  BY <1>4, ConnectedMethod
<1>. HIDE DEF x, up
<1>7. {"RELAY_ERROR", "UNDEF", "TUN_SETUP_FAILED", "COMPRESS_ERROR"} \subseteq Fatals
  BY DEF Fatals
<1>8. CASE c.relay_mode
  BY <1>2, <1>7, <1>8, FailMethod DEF SameId, IdKept
<1>9. CASE ~c.relay_mode /\ "unusable" \in c.options
  BY <1>1, <1>2, <1>7, <1>9, ThrowMethod DEF SameId, IdKept
<1>10. CASE ~c.relay_mode /\ "unusable" \notin c.options /\ ~tunok
  <2>1. Configure(c, tunok) = Throw(x, "TUN_SETUP_FAILED")
    BY <1>2, <1>10
  <2>2. ClientInv(Throw(x, "TUN_SETUP_FAILED")) /\ SameId(Throw(x, "TUN_SETUP_FAILED"), x)
    BY <1>5, <1>7, ThrowMethod
  <2>. QED  BY <1>1, <1>4, <1>5, <2>1, <2>2 DEF SameId, IdKept
<1>11. CASE ~c.relay_mode /\ "unusable" \notin c.options /\ tunok
  <2>1. Configure(c, tunok) = IF "compress" \in c.options THEN Throw(up, "COMPRESS_ERROR") ELSE up
    BY <1>2, <1>11
  <2>2. ClientInv(Throw(up, "COMPRESS_ERROR")) /\ SameId(Throw(up, "COMPRESS_ERROR"), up)
    BY <1>6, <1>7, ThrowMethod
  <2>. QED  BY <1>1, <1>4, <1>6, <2>1, <2>2 DEF SameId, IdKept
<1>. QED  BY <1>8, <1>9, <1>10, <1>11

\* recv_push_reply: the parts are collected, and the last one configures the session.
LEMMA RecvPushReplyMethod ==
    ASSUME NEW c, ClientInv(c), NEW m, m.body \in Bodies, m.more \in BOOLEAN, NEW tunok \in BOOLEAN
    PROVE  LET r == RecvPushReply(c, m, tunok)
           IN  ClientInv(r) /\ (IdKept(c) => IdKept(r))
<1>. DEFINE z == [c EXCEPT !.partial = TRUE, !.options = {}]
            opts == c.options \cup {m.body}
            a == [c EXCEPT !.partial = TRUE, !.options = opts, !.complete = ~m.more]
<1>1. c \in ClientType /\ opts \in SUBSET Bodies
  BY DEF ClientInv, ClientType
<1>2. RecvPushReply(c, m, tunok) = CASE m.body = "malformed" -> Throw(c, "UNDEF")
          [] m.body # "malformed" /\ c.complete -> ExtractAuthToken(c, {m.body})
          [] m.body = "rejected" /\ ~c.complete -> RecvHaltRestart(z, TRUE, FALSE)
          [] OTHER -> IF m.more THEN a ELSE Configure(a, tunok)
  BY Zenon DEF RecvPushReply
<1>3. "UNDEF" \in Fatals
  BY DEF Fatals
<1>. HIDE DEF z, a, opts
<1>4. CASE m.body = "malformed"
  BY <1>2, <1>3, <1>4, ThrowMethod DEF SameId, IdKept
<1>5. CASE m.body # "malformed" /\ c.complete
  BY <1>2, <1>5, ExtractAuthTokenMethod
<1>6. CASE m.body = "rejected" /\ ~c.complete
  <2>1. /\ z \in ClientType /\ z.halt = c.halt /\ z.creds = c.creds /\ z.token = c.token /\ z.complete = c.complete
        /\ z.terminated = c.terminated /\ SameInfo(z, c)
    BY <1>1 DEF ClientType, SameInfo, z
  <2>2. ClientInv(z) /\ ~z.token
    BY <1>6, <2>1, SameInfoHeld DEF ClientInv
  <2>3. ClientInv(RecvHaltRestart(z, TRUE, FALSE)) /\ ~RecvHaltRestart(z, TRUE, FALSE).token
    BY <2>2, RecvHaltRestartMethod
  <2>4. RecvPushReply(c, m, tunok) = RecvHaltRestart(z, TRUE, FALSE)
    BY <1>2, <1>6
  <2>. QED  BY <2>3, <2>4 DEF IdKept
<1>7. CASE m.body # "malformed" /\ m.body # "rejected" /\ ~c.complete
  <2>1. /\ a \in ClientType /\ a.halt = c.halt /\ a.creds = c.creds /\ a.token = c.token /\ a.complete = ~m.more
        /\ a.terminated = c.terminated /\ SameInfo(a, c)
    <3>. DEFINE fin == ~m.more
    <3>1. fin \in BOOLEAN /\ a = [c EXCEPT !.partial = TRUE, !.options = opts, !.complete = fin]
      BY DEF a
    <3>. HIDE DEF fin
    <3>2. /\ a \in ClientType /\ a.halt = c.halt /\ a.creds = c.creds /\ a.token = c.token /\ a.complete = fin
          /\ a.terminated = c.terminated /\ SameInfo(a, c)
      BY <1>1, <3>1 DEF ClientType, SameInfo
    <3>. QED  BY <3>2 DEF fin
  <2>2. ~c.token
    BY <1>7 DEF ClientInv
  <2>3. ClientInv(a) /\ IdKept(a)
    BY <2>1, <2>2, SameInfoHeld DEF ClientInv, IdKept
  <2>4. RecvPushReply(c, m, tunok) = IF m.more THEN a ELSE Configure(a, tunok)
    BY <1>2, <1>7
  <2>5. CASE m.more
    BY <2>3, <2>4, <2>5
  <2>6. CASE ~m.more
    BY <2>1, <2>3, <2>4, <2>6, ConfigureMethod
  <2>. QED  BY <2>5, <2>6
<1>. QED  BY <1>1, <1>4, <1>5, <1>6, <1>7 DEF ClientType

\* control_recv, of any message: a harmless one leaves the session id.
LEMMA ControlRecvMethod ==
    ASSUME NEW c, ClientInv(c), NEW m \in Messages, NEW tunok \in BOOLEAN
    PROVE  LET r == ControlRecv(c, m, tunok)
           IN  ClientInv(r) /\ (IdKept(c) /\ Harmless(m) => IdKept(r))
<1>1. CASE m \in PushReplies
  <2>1. m.kind = "PUSH_REPLY" /\ m.body \in Bodies /\ m.more \in BOOLEAN
    BY <1>1 DEF PushReplies, PushReplyMsg
  <2>2. ControlRecv(c, m, tunok) = RecvPushReply(c, m, tunok)
    BY <2>1 DEF ControlRecv
  <2>. QED  BY <2>1, <2>2, RecvPushReplyMethod
<1>2. ASSUME NEW temp \in BOOLEAN, m = AuthFailedMsg(temp) PROVE ClientInv(ControlRecv(c, m, tunok)) /\ (IdKept(c) /\ Harmless(m) => IdKept(ControlRecv(c, m, tunok)))
  <2>1. m.kind = "AUTH_FAILED" /\ m.temp = temp
    BY <1>2 DEF AuthFailedMsg
  <2>2. ControlRecv(c, m, tunok) = RecvAuthFailed(c, temp)
    BY <2>1 DEF ControlRecv
  <2>3. Harmless(m) => temp
    BY <1>2 DEF Harmless
  <2>. QED  BY <2>2, <2>3, RecvAuthFailedMethod DEF SameId, IdKept
<1>3. ASSUME NEW psid \in BOOLEAN, m = RestartMsg(psid) PROVE ClientInv(ControlRecv(c, m, tunok)) /\ (IdKept(c) /\ Harmless(m) => IdKept(ControlRecv(c, m, tunok)))
  <2>1. m.kind = "RESTART" /\ m.psid = psid
    BY <1>3 DEF RestartMsg
  <2>2. ControlRecv(c, m, tunok) = RecvHaltRestart(c, TRUE, psid)
    BY <2>1 DEF ControlRecv
  <2>3. Harmless(m) => psid
    BY <1>3 DEF Harmless
  <2>4. LET r == RecvHaltRestart(c, TRUE, psid) IN ClientInv(r) /\ r.token = c.token /\ (psid => SameId(r, c))
    BY RecvHaltRestartMethod
  <2>. QED  BY <2>2, <2>3, <2>4, Zenon DEF SameId, IdKept
<1>4. CASE m \in {InfoMsg(n) : n \in DOMAIN Infos}
  <2>1. m.kind = "INFO" /\ m.n \in Nat /\ m.info \in [pre : BOOLEAN, web : BOOLEAN]
    <3>1. PICK n \in DOMAIN Infos : m = InfoMsg(n)
      BY <1>4
    <3>. DEFINE Info == [pre : BOOLEAN, web : BOOLEAN]
    <3>0. Infos \in Seq(Info)
      BY ChannelAssumption
    <3>. HIDE DEF Info
    <3>2. Infos[n] \in Info /\ n \in Nat
      BY <3>0
    <3>3. m.kind = "INFO" /\ m.n = n /\ m.info = Infos[n]
      BY <3>1 DEF InfoMsg
    <3>. QED  BY <3>2, <3>3 DEF Info
  <2>2. ControlRecv(c, m, tunok) = RecvInfo(c, m)
    BY <2>1 DEF ControlRecv
  <2>. QED  BY <2>1, <2>2, RecvInfoMethod DEF SameId, IdKept
<1>5. CASE m = HaltMsg
  <2>1. m.kind = "HALT" /\ ~Harmless(m)
    BY <1>5 DEF HaltMsg, Harmless
  <2>2. ControlRecv(c, m, tunok) = RecvHaltRestart(c, FALSE, FALSE)
    BY <2>1 DEF ControlRecv
  <2>. QED  BY <2>1, <2>2, RecvHaltRestartMethod
<1>6. CASE m = AuthPendingMsg
  <2>1. m.kind = "AUTH_PENDING"
    BY <1>6 DEF AuthPendingMsg
  <2>. QED  BY <2>1 DEF ControlRecv, RecvAuthPending
<1>7. CASE m = RelayMsg
  <2>. DEFINE fatal == IF c.relay_mode THEN "RELAY" ELSE "RELAY_ERROR"
  <2>1. m.kind = "RELAY" /\ fatal \in Fatals
    BY <1>7 DEF RelayMsg, Fatals
  <2>2. ControlRecv(c, m, tunok) = Fail(c, fatal)
    BY <2>1 DEF ControlRecv
  <2>. HIDE DEF fatal
  <2>. QED  BY <2>1, <2>2, FailMethod DEF SameId, IdKept
<1>. QED  BY <1>1, <1>2, <1>3, <1>4, <1>5, <1>6, <1>7 DEF Messages

-----------------------------------------------------------------------------
(* The steps of the client *)

\* A handler that leaves the channel to the server's side alone, but for messages it has taken.
LEMMA ClientStepInv ==
    ASSUME SInv, ClientInv(client'), UNCHANGED <<push, infos>>, toServer' \in 0 .. MaxRequests,
           toClient' \in {toClient, <<>>} \/ (toClient # <<>> /\ toClient' = Tail(toClient)),
           push.keep => IdKept(client')
    PROVE  SInv'
<1>. USE DEF SInv
<1>1. toClient \in Seq(Messages)
  BY DEF ChannelInv
<1>2. toClient' \in Seq(Messages)
  <2>1. <<>> \in Seq(Messages) /\ (toClient # <<>> => Tail(toClient) \in Seq(Messages))
    BY <1>1
  <2>. QED  BY <1>1, <2>1, Zenon
<1>3. (\A i \in DOMAIN toClient : Harmless(toClient[i])) => \A i \in DOMAIN toClient' : Harmless(toClient'[i])
  <2>1. CASE toClient' \in {toClient, <<>>}
    BY <2>1
  <2>2. CASE toClient # <<>> /\ toClient' = Tail(toClient)
    <3>1. ASSUME NEW i \in DOMAIN toClient' PROVE i + 1 \in DOMAIN toClient /\ toClient'[i] = toClient[i + 1]
      BY <1>1, <2>2
    <3>. QED  BY <3>1
  <2>. QED  BY <2>1, <2>2
<1>4. ChannelInv'
  BY <1>2 DEF ChannelInv
<1>5. KeepInv'
  BY <1>3 DEF KeepInv, IdKept
<1>. QED  BY <1>4, <1>5

\* A session that differs in its timers, its posted handlers and its state of activity only.
LEMMA TimersChange ==
    ASSUME NEW c, ClientInv(c), NEW timers \in SUBSET Timers, NEW posts \in 0 .. MaxPosts, NEW active \in BOOLEAN,
           NEW receiving \in BOOLEAN, "info_hold_timer" \in timers => "info_hold_timer" \in c.timers
    PROVE  LET r == [c EXCEPT !.timers = timers, !.posts = posts, !.active = active, !.receiving = receiving]
           IN  ClientInv(r) /\ SameId(r, c) /\ r.halt = c.halt
<1>. DEFINE r == [c EXCEPT !.timers = timers, !.posts = posts, !.active = active, !.receiving = receiving]
<1>1. c \in ClientType
  BY DEF ClientInv
<1>2. /\ r \in ClientType /\ r.halt = c.halt /\ r.creds = c.creds /\ r.token = c.token /\ r.complete = c.complete
      /\ r.terminated = c.terminated /\ SameInfo(r, c)
  BY <1>1 DEF ClientType, SameInfo
<1>. HIDE DEF r
<1>3. ClientInv(r) /\ SameId(r, c)
  BY <1>2, SameInfoHeld DEF ClientInv, SameId
<1>. QED  BY <1>2, <1>3 DEF r

\* The fields TimersChange may set to what they are.
LEMMA ClientFields ==
    ASSUME SInv
    PROVE  /\ ClientInv(client) /\ client \in ClientType /\ client.timers \in SUBSET Timers
           /\ client.posts \in 0 .. MaxPosts /\ client.active \in BOOLEAN /\ client.receiving \in BOOLEAN
           /\ (push.keep => IdKept(client)) /\ toServer \in 0 .. MaxRequests
  BY DEF SInv, ClientInv, ClientType, KeepInv, IdKept, ChannelInv

\* The handler of a timer has been called.
LEMMA FiredMethod ==
    ASSUME SInv, NEW t
    PROVE  ClientInv(Fired(t)) /\ SameId(Fired(t), client)
<1>. DEFINE timers1 == client.timers \ {t}
            r == [client EXCEPT !.timers = timers1, !.posts = client.posts, !.active = client.active,
                                !.receiving = client.receiving]
<1>1. timers1 \in SUBSET Timers /\ ("info_hold_timer" \in timers1 => "info_hold_timer" \in client.timers)
  BY ClientFields
<1>2. Fired(t) = r
  <2>1. client \in ClientType
    BY ClientFields
  <2>. HIDE DEF timers1
  <2>2. r = [client EXCEPT !.timers = timers1]
    BY <2>1 DEF ClientType
  <2>. QED  BY <2>2 DEF Fired, timers1
<1>. HIDE DEF timers1
<1>3. ClientInv(r) /\ SameId(r, client)
  BY <1>1, ClientFields, TimersChange
<1>. QED  BY <1>2, <1>3

\* A message is received.
LEMMA ClientRecvStep ==
    ASSUME SInv, ClientStep(ClientRecv)
    PROVE  SInv'
<1>1. PICK more \in BOOLEAN, tunok \in BOOLEAN :
          client' = ControlRecv([client EXCEPT !.receiving = more], Head(toClient), tunok)
  BY DEF ClientStep, ClientRecv
<1>2. toClient # <<>> /\ toClient \in Seq(Messages) /\ Head(toClient) \in Messages /\ Head(toClient) = toClient[1]
      /\ 1 \in DOMAIN toClient
  BY DEF ClientStep, ClientRecv, SInv, ChannelInv
<1>. DEFINE c == [client EXCEPT !.receiving = more]
            r == [client EXCEPT !.timers = client.timers, !.posts = client.posts, !.active = client.active,
                                !.receiving = more]
<1>3. ClientInv(c) /\ SameId(c, client)
  <2>1. c = r
    BY ClientFields DEF ClientType
  <2>2. ClientInv(r) /\ SameId(r, client)
    BY ClientFields, TimersChange
  <2>. QED  BY <2>1, <2>2
<1>. HIDE DEF c, r
<1>4. ClientInv(client') /\ (IdKept(c) /\ Harmless(Head(toClient)) => IdKept(client'))
  BY <1>1, <1>2, <1>3, ControlRecvMethod DEF c
<1>5. push.keep => IdKept(client')
  BY <1>2, <1>3, <1>4, ClientFields DEF SameId, IdKept, SInv, KeepInv
<1>6. toClient' = <<>> \/ toClient' = Tail(toClient)
  BY DEF ClientStep, ClientRecv, Transport
<1>7. UNCHANGED <<push, infos>> /\ toServer' \in 0 .. MaxRequests
  BY ClientFields DEF ClientStep, ClientRecv
<1>. QED  BY <1>2, <1>4, <1>5, <1>6, <1>7, ClientStepInv

\* The session becomes active.
LEMMA ActiveStep ==
    ASSUME SInv, ClientStep(Active)
    PROVE  SInv'
<1>. DEFINE timers1 == client.timers \cup {"push_request_timer"}
            r == [client EXCEPT !.timers = timers1, !.posts = client.posts, !.active = TRUE,
                                !.receiving = client.receiving]
<1>1. timers1 \in SUBSET Timers /\ ("info_hold_timer" \in timers1 => "info_hold_timer" \in client.timers)
  BY ClientFields DEF Timers
<1>2. client' = [client EXCEPT !.active = TRUE, !.timers = timers1]
      /\ UNCHANGED <<push, infos, toClient, toServer>>
  BY DEF ClientStep, Active, channelVars
<1>. HIDE DEF timers1
<1>3. client' = r
  BY <1>2, ClientFields DEF ClientType
<1>4. ClientInv(r) /\ SameId(r, client)
  BY <1>1, ClientFields, TimersChange
<1>5. push.keep => IdKept(client')
  BY <1>3, <1>4, ClientFields DEF SameId, IdKept
<1>. QED  BY <1>2, <1>3, <1>4, <1>5, ClientFields, ClientStepInv

\* The request for the options is sent again, or its timer not set again.
LEMMA PushRequestTimerStep ==
    ASSUME SInv, ClientStep(PushRequestTimer)
    PROVE  SInv'
<1>1. UNCHANGED <<push, infos, toClient>> /\ toServer' \in 0 .. MaxRequests
  BY ClientFields, ChannelAssumption DEF ClientStep, PushRequestTimer
<1>2. ClientInv(client') /\ SameId(client', client)
  BY FiredMethod, ClientFields DEF ClientStep, PushRequestTimer, SameId
<1>3. push.keep => IdKept(client')
  BY <1>2, ClientFields DEF SameId, IdKept
<1>. QED  BY <1>1, <1>2, <1>3, ClientStepInv

\* The events that were held back are shown, all of them and in their order.
LEMMA InfoHoldTimerStep ==
    ASSUME SInv, ClientStep(InfoHoldTimer)
    PROVE  SInv'
<1>1. UNCHANGED <<push, infos, toClient, toServer>>
  BY DEF ClientStep, InfoHoldTimer, channelVars
<1>. DEFINE f == Fired("info_hold_timer")
            shown1 == f.shown \o client.info_hold
            none == <<>>
            r == [f EXCEPT !.shown = shown1, !.info_hold = none, !.holding = FALSE]
<1>2. client' = IF client.halt THEN f ELSE r
  BY DEF ClientStep, InfoHoldTimer
<1>3. client.connected /\ client \in ClientType
  BY ClientFields DEF SInv, ClientInv, InfoHeld, ClientStep, InfoHoldTimer
<1>4. /\ f.connected /\ f.info_hold = client.info_hold /\ f.shown = client.shown /\ f.read = client.read
  BY <1>3 DEF Fired, ClientType
<1>5. ClientInv(f) /\ SameId(f, client) /\ f \in ClientType
  BY FiredMethod DEF ClientInv
<1>. HIDE DEF f
<1>6. shown1 \in Seq(Nat) /\ shown1 = f.read /\ shown1 \o none = shown1 /\ none \in Seq(Nat)
  BY <1>4, <1>5 DEF ClientInv, InfoHeld, ClientType
<1>. HIDE DEF shown1, none
<1>7. /\ r \in ClientType /\ r.halt = f.halt /\ r.creds = f.creds /\ r.token = f.token /\ r.complete = f.complete
      /\ r.terminated = f.terminated /\ r.shown = shown1 /\ r.info_hold = none /\ r.read = f.read
      /\ r.connected = f.connected
  BY <1>5, <1>6 DEF ClientType
<1>. HIDE DEF r
<1>8. InfoHeld(r)
  BY <1>4, <1>6, <1>7 DEF InfoHeld, none
<1>9. ClientInv(r) /\ SameId(r, client)
  BY <1>5, <1>7, <1>8 DEF ClientInv, SameId
<1>10. ClientInv(client') /\ (push.keep => IdKept(client'))
  BY <1>2, <1>5, <1>9, ClientFields DEF SameId, IdKept
<1>. QED  BY <1>1, <1>10, ClientFields, ClientStepInv

\* The bytes of the tun post a handler, and it sets the timer.
LEMMA TunBytesStep ==
    ASSUME SInv, ClientStep(TunBytes) \/ ClientStep(ResetInactiveTimer)
    PROVE  SInv'
<1>1. UNCHANGED <<push, infos, toClient, toServer>>
  BY DEF ClientStep, TunBytes, ResetInactiveTimer, channelVars
<1>2. \E timers \in SUBSET Timers, posts \in 0 .. MaxPosts :
        /\ "info_hold_timer" \in timers => "info_hold_timer" \in client.timers
        /\ client' = [client EXCEPT !.timers = timers, !.posts = posts, !.active = client.active,
                                    !.receiving = client.receiving]
  <2>1. client \in ClientType /\ client.timers \in SUBSET Timers /\ client.posts \in 0 .. MaxPosts /\ MaxPosts \in Nat
    BY ClientFields, ClientAssumption
  <2>2. CASE TunBytes
    <3>. DEFINE posts == client.posts + 1
    <3>1. posts \in 0 .. MaxPosts /\ client' = [client EXCEPT !.posts = posts]
      BY <2>1, <2>2 DEF TunBytes
    <3>. HIDE DEF posts
    <3>2. client' = [client EXCEPT !.timers = client.timers, !.posts = posts, !.active = client.active,
                                   !.receiving = client.receiving]
      BY <2>1, <3>1 DEF ClientType
    <3>. QED  BY <2>1, <3>1, <3>2
  <2>3. CASE ResetInactiveTimer
    <3>1. PICK enough \in BOOLEAN :
            client' = [client EXCEPT !.posts = @ - 1,
                                     !.timers = IF enough THEN @ \cup {"inactive_timer"} ELSE @]
      BY <2>3 DEF ResetInactiveTimer
    <3>. DEFINE posts == client.posts - 1
                timers == IF enough THEN client.timers \cup {"inactive_timer"} ELSE client.timers
    <3>2. /\ posts \in 0 .. MaxPosts /\ timers \in SUBSET Timers
          /\ "info_hold_timer" \in timers => "info_hold_timer" \in client.timers
      <4>1. client.posts > 0
        BY <2>3 DEF ResetInactiveTimer
      <4>2. posts \in 0 .. MaxPosts
        BY <2>1, <4>1
      <4>3. "inactive_timer" \in Timers /\ "inactive_timer" # "info_hold_timer"
        BY DEF Timers
      <4>4. timers \in SUBSET Timers /\ ("info_hold_timer" \in timers => "info_hold_timer" \in client.timers)
        BY <2>1, <4>3
      <4>. QED  BY <4>2, <4>4
    <3>3. client' = [client EXCEPT !.posts = posts, !.timers = timers]
      BY <3>1
    <3>. HIDE DEF posts, timers
    <3>4. client' = [client EXCEPT !.timers = timers, !.posts = posts, !.active = client.active,
                                   !.receiving = client.receiving]
      BY <2>1, <3>2, <3>3 DEF ClientType
    <3>. QED  BY <3>2, <3>4
  <2>. QED  BY <2>2, <2>3 DEF ClientStep
<1>3. ClientInv(client') /\ SameId(client', client)
  <2>1. PICK timers \in SUBSET Timers, posts \in 0 .. MaxPosts :
          /\ "info_hold_timer" \in timers => "info_hold_timer" \in client.timers
          /\ client' = [client EXCEPT !.timers = timers, !.posts = posts, !.active = client.active,
                                      !.receiving = client.receiving]
    BY <1>2
  <2>. DEFINE r == [client EXCEPT !.timers = timers, !.posts = posts, !.active = client.active,
                                  !.receiving = client.receiving]
  <2>2. ClientInv(r) /\ SameId(r, client)
    BY <2>1, ClientFields, TimersChange
  <2>3. client' = r
    BY <2>1
  <2>. HIDE DEF r
  <2>. QED  BY <2>2, <2>3
<1>4. push.keep => IdKept(client')
  BY <1>3, ClientFields DEF SameId, IdKept
<1>. QED  BY <1>1, <1>3, <1>4, ClientFields, ClientStepInv

\* The session stops without a message.
LEMMA StoppingStep ==
    ASSUME SInv, ClientStep(InactiveTimer) \/ ClientStep(Breaks) \/ ClientStep(ManagerStops)
    PROVE  SInv'
<1>1. UNCHANGED <<push, infos, toServer>> /\ toClient' \in {toClient, <<>>}
  BY DEF ClientStep, InactiveTimer, Breaks, ManagerStops, Transport
<1>2. "INACTIVE_TIMEOUT" \in Fatals /\ FALSE \in BOOLEAN
  BY DEF Fatals
<1>3. ClientInv(client') /\ SameId(client', client)
  <2>. DEFINE f == Fired("inactive_timer")
  <2>1. ClientInv(f) /\ SameId(f, client) /\ ClientInv(client)
    BY FiredMethod, ClientFields
  <2>2. CASE InactiveTimer
    <3>. HIDE DEF f
    <3>1. ClientInv(Fail(f, "INACTIVE_TIMEOUT")) /\ SameId(Fail(f, "INACTIVE_TIMEOUT"), f)
      BY <1>2, <2>1, FailMethod
    <3>2. client' = f \/ client' = Fail(f, "INACTIVE_TIMEOUT")
      BY <2>2 DEF InactiveTimer, f
    <3>. QED  BY <2>1, <3>1, <3>2 DEF SameId
  <2>3. CASE Breaks
    BY <2>1, <2>3, FailMethod, ClientAssumption DEF Breaks
  <2>4. CASE ManagerStops
    BY <1>2, <2>1, <2>4, StopMethod DEF ManagerStops, SameId
  <2>. QED  BY <2>2, <2>3, <2>4 DEF ClientStep
<1>4. push.keep => IdKept(client')
  BY <1>3, ClientFields DEF SameId, IdKept
<1>. QED  BY <1>1, <1>3, <1>4, ClientFields, ClientStepInv

-----------------------------------------------------------------------------
(* The steps of the server, and the next session *)

\* Messages that are sent are of the protocol, and harmless while the id is kept.
LEMMA SaysInv ==
    ASSUME SInv, UNCHANGED client, NEW msgs \in Seq(Messages), toClient' = toClient \o msgs,
           push' \in [over : BOOLEAN, keep : BOOLEAN, gone : BOOLEAN],
           push'.keep => push.keep /\ \A i \in DOMAIN msgs : Harmless(msgs[i]),
           toServer' \in 0 .. MaxRequests, infos' \in 0 .. Len(Infos)
    PROVE  SInv'
<1>. USE DEF SInv
<1>1. toClient \in Seq(Messages)
  BY DEF ChannelInv
<1>2. toClient' \in Seq(Messages)
  BY <1>1
<1>3. ASSUME NEW i \in DOMAIN toClient'
      PROVE  (i \in DOMAIN toClient /\ toClient'[i] = toClient[i])
             \/ (i - Len(toClient) \in DOMAIN msgs /\ toClient'[i] = msgs[i - Len(toClient)])
  BY <1>1
<1>4. ChannelInv'
  BY <1>2 DEF ChannelInv
<1>5. KeepInv'
  <2>. SUFFICES ASSUME push'.keep PROVE (client.token => client.creds.session_id) /\ \A i \in DOMAIN toClient' : Harmless(toClient'[i])
    BY DEF KeepInv
  <2>1. push.keep /\ \A i \in DOMAIN msgs : Harmless(msgs[i])
    OBVIOUS
  <2>2. (client.token => client.creds.session_id) /\ \A i \in DOMAIN toClient : Harmless(toClient[i])
    BY <2>1 DEF KeepInv
  <2>. QED  BY <1>3, <2>1, <2>2
<1>. QED  BY <1>4, <1>5

\* Of the messages three are not harmless.
LEMMA HarmlessMessages ==
    /\ \A m \in PushReplies : Harmless(m)
    /\ \A n \in DOMAIN Infos : Harmless(InfoMsg(n))
    /\ Harmless(RestartMsg(TRUE)) /\ Harmless(RelayMsg) /\ Harmless(AuthPendingMsg)
<1>1. ASSUME NEW m, m.kind \notin {"HALT", "RESTART", "AUTH_FAILED"} PROVE Harmless(m)
  <2>1. HaltMsg.kind = "HALT" /\ RestartMsg(FALSE).kind = "RESTART" /\ AuthFailedMsg(FALSE).kind = "AUTH_FAILED"
    BY DEF HaltMsg, RestartMsg, AuthFailedMsg
  <2>. QED  BY <1>1, <2>1 DEF Harmless
<1>2. \A m \in PushReplies : m.kind = "PUSH_REPLY"
  BY DEF PushReplies, PushReplyMsg
<1>3. \A n \in DOMAIN Infos : InfoMsg(n).kind = "INFO"
  BY DEF InfoMsg
<1>4. RelayMsg.kind = "RELAY" /\ AuthPendingMsg.kind = "AUTH_PENDING"
  BY DEF RelayMsg, AuthPendingMsg
<1>5. Harmless(RestartMsg(TRUE))
  <2>1. /\ RestartMsg(TRUE).kind = "RESTART" /\ RestartMsg(TRUE).psid /\ ~RestartMsg(FALSE).psid
        /\ HaltMsg.kind = "HALT" /\ AuthFailedMsg(FALSE).kind = "AUTH_FAILED"
    BY DEF HaltMsg, RestartMsg, AuthFailedMsg
  <2>. QED  BY <2>1 DEF Harmless
<1>. QED  BY <1>1, <1>2, <1>3, <1>4, <1>5

\* A message that ends the session.
LEMMA FinalStep ==
    ASSUME SInv, ServerStep(Final)
    PROVE  SInv'
<1>1. /\ UNCHANGED client /\ push \in [over : BOOLEAN, keep : BOOLEAN, gone : BOOLEAN]
      /\ toServer \in 0 .. MaxRequests /\ infos \in 0 .. Len(Infos) /\ MaxRequests \in Nat
  BY ChannelAssumption DEF ServerStep, SInv, ChannelInv
<1>2. PICK m \in Messages, keep \in BOOLEAN : Ends(m, keep) /\ (keep => Harmless(m))
  <2>1. {HaltMsg, RestartMsg(TRUE), RestartMsg(FALSE), AuthFailedMsg(FALSE), AuthFailedMsg(TRUE)} \subseteq Messages
    BY DEF Messages
  <2>2. CASE Ends(RestartMsg(TRUE), TRUE)
    BY <2>1, <2>2, HarmlessMessages
  <2>3. CASE \E m \in {HaltMsg, RestartMsg(FALSE), AuthFailedMsg(FALSE), AuthFailedMsg(TRUE)} : Ends(m, FALSE)
    BY <2>1, <2>3
  <2>. QED  BY <2>2, <2>3 DEF ServerStep, Final
<1>3. <<m>> \in Seq(Messages) /\ toClient' = toClient \o <<m>> /\ DOMAIN <<m>> = {1} /\ <<m>>[1] = m
  BY <1>2 DEF Ends, Says
<1>4. /\ push' \in [over : BOOLEAN, keep : BOOLEAN, gone : BOOLEAN]
      /\ push'.keep => push.keep /\ keep
  <2>. DEFINE k == push.keep /\ keep
  <2>1. k \in BOOLEAN /\ push' = [over |-> TRUE, keep |-> k, gone |-> push.gone]
    BY <1>1, <1>2 DEF Ends
  <2>2. k => push.keep /\ keep
    OBVIOUS
  <2>. HIDE DEF k
  <2>3. push' \in [over : BOOLEAN, keep : BOOLEAN, gone : BOOLEAN] /\ push'.keep = k
    BY <1>1, <2>1
  <2>. QED  BY <2>2, <2>3
<1>5. toServer' \in 0 .. MaxRequests /\ infos' = infos
  BY <1>1, <1>2 DEF Ends
<1>. QED  BY <1>1, <1>2, <1>3, <1>4, <1>5, SaysInv

\* Options, notes and announcements.
LEMMA TalkStep ==
    ASSUME SInv, ServerStep(Answer) \/ ServerStep(Announce) \/ ServerStep(Note)
    PROVE  SInv'
<1>1. /\ UNCHANGED <<client, push, toServer>> /\ push \in [over : BOOLEAN, keep : BOOLEAN, gone : BOOLEAN]
      /\ toServer \in 0 .. MaxRequests /\ infos \in 0 .. Len(Infos)
  BY DEF ServerStep, SInv, ChannelInv, Answer, Announce, Note
<1>2. infos' \in 0 .. Len(Infos)
  BY <1>1, ChannelAssumption DEF ServerStep, Answer, Announce, Note
<1>3. \E msgs \in Seq(Messages) : toClient' = toClient \o msgs /\ \A i \in DOMAIN msgs : Harmless(msgs[i])
  <2>1. ASSUME NEW m \in Messages, Harmless(m), toClient' = toClient \o <<m>>
        PROVE  \E msgs \in Seq(Messages) : toClient' = toClient \o msgs /\ \A i \in DOMAIN msgs : Harmless(msgs[i])
    <3>1. <<m>> \in Seq(Messages) /\ DOMAIN <<m>> = {1} /\ <<m>>[1] = m
      OBVIOUS
    <3>. QED  BY <2>1, <3>1
  <2>2. CASE Answer
    <3>1. PICK msgs \in PushLists : toClient' = toClient \o msgs
      BY <2>2 DEF Answer, Says
    <3>2. msgs \in Seq(PushReplies) /\ PushReplies \subseteq Messages
      BY ChannelAssumption DEF Messages
    <3>3. msgs \in Seq(Messages) /\ \A i \in DOMAIN msgs : msgs[i] \in PushReplies
      BY <3>2
    <3>. QED  BY <3>1, <3>3, HarmlessMessages
  <2>3. CASE Announce
    <3>1. RestartMsg(TRUE) \in Messages /\ RelayMsg \in Messages
      BY DEF Messages
    <3>. QED  BY <2>1, <2>3, <3>1, HarmlessMessages DEF Announce, Says
  <2>4. CASE Note
    <3>1. AuthPendingMsg \in Messages /\ \A n \in DOMAIN Infos : InfoMsg(n) \in Messages
      BY DEF Messages
    <3>2. infos' = infos + 1 => infos' \in DOMAIN Infos
      BY <1>1, <1>2, ChannelAssumption
    <3>. QED  BY <2>1, <2>4, <3>1, <3>2, HarmlessMessages DEF Note, Says
  <2>. QED  BY <2>2, <2>3, <2>4 DEF ServerStep
<1>. QED  BY <1>1, <1>2, <1>3, SaysInv

\* A request is heard or lost, or the server leaves.
LEMMA QuietStep ==
    ASSUME SInv, ServerStep(Ask) \/ ServerStep(Ignore) \/ ServerStep(Leave)
    PROVE  SInv'
<1>1. /\ toClient \in Seq(Messages) /\ push \in [over : BOOLEAN, keep : BOOLEAN, gone : BOOLEAN]
      /\ toServer \in 0 .. MaxRequests /\ infos \in 0 .. Len(Infos) /\ MaxRequests \in Nat
  BY ChannelAssumption DEF SInv, ChannelInv
<1>2. UNCHANGED <<client, infos, toClient>> /\ toServer' \in 0 .. MaxRequests
  BY <1>1 DEF ServerStep, Ask, Ignore, Leave, channelVars
<1>3. push' \in [over : BOOLEAN, keep : BOOLEAN, gone : BOOLEAN] /\ push'.keep = push.keep
  <2>1. CASE UNCHANGED push
    BY <1>1, <2>1
  <2>2. CASE Leave
    <3>1. push' = [over |-> push.over, keep |-> push.keep, gone |-> TRUE]
      BY <2>2 DEF Leave
    <3>2. push.over \in BOOLEAN /\ push.keep \in BOOLEAN /\ TRUE \in BOOLEAN
      BY <1>1
    <3>. QED  BY <3>1, <3>2
  <2>. QED  BY <2>1, <2>2 DEF ServerStep, Ask, Ignore
<1>4. ChannelInv' /\ KeepInv'
  BY <1>1, <1>2, <1>3 DEF SInv, ChannelInv, KeepInv
<1>. QED  BY <1>2, <1>4 DEF SInv

\* A new session has the credentials of the last one.
LEMMA NewClientInv ==
    ASSUME NEW creds \in Creds, RefusedOnce(creds), NEW config \in Config, NEW relayed \in BOOLEAN
    PROVE  ClientInv(NewClient(creds, config, relayed)) /\ ~NewClient(creds, config, relayed).token
<1>. DEFINE mode == config.relay /\ ~relayed
            c == NewClient(creds, config, relayed)
            none == <<>>
            nothing == {}
<1>1. mode \in BOOLEAN /\ none \in Seq(Nat) /\ none \o none = none /\ nothing \in SUBSET Bodies /\ nothing \in SUBSET Timers
  BY DEF Config
<1>2. "UNDEF" \in Fatals /\ 0 \in 0 .. MaxPosts /\ 0 \in 0 .. 1 /\ "none" \in {"none", "running", "stopped"}
  BY ClientAssumption DEF Fatals
<1>3. c = [relay_mode |-> mode,
     halt |-> FALSE, active |-> FALSE, partial |-> FALSE, complete |-> FALSE, options |-> nothing,
     fatal |-> "UNDEF", ended |-> "UNDEF", connected |-> FALSE, tun |-> "none", timers |-> nothing, counting |-> FALSE, posts |-> 0,
     info_hold |-> none, holding |-> TRUE, shown |-> none, read |-> none, terminated |-> 0, receiving |-> FALSE,
     token |-> FALSE, creds |-> creds, config |-> config]
  BY DEF NewClient
<1>. HIDE DEF mode, c, none, nothing
<1>4. c \in ClientType
  BY <1>1, <1>2, <1>3 DEF ClientType
<1>5. /\ c.terminated = 0 /\ c.creds = creds /\ ~c.token /\ c.shown = none /\ c.info_hold = none /\ c.read = none
      /\ c.holding /\ c.timers = nothing
  BY <1>3
<1>6. InfoHeld(c)
  BY <1>1, <1>5 DEF InfoHeld, none, nothing
<1>7. ClientInv(c)
  BY <1>4, <1>5, <1>6 DEF ClientInv
<1>. QED  BY <1>5, <1>7 DEF c

\* ClientConnect starts the next session.
LEMMA ReconnectStep ==
    ASSUME SInv, Reconnect
    PROVE  SInv'
<1>1. client.creds \in Creds /\ RefusedOnce(client.creds) /\ client.config \in Config
  BY DEF SInv, ClientInv, ClientType
<1>. DEFINE relayed == client.ended = "RELAY"
<1>2. relayed \in BOOLEAN /\ client' = NewClient(client.creds, client.config, relayed)
  BY DEF Reconnect
<1>. HIDE DEF relayed
<1>3. ClientInv(client') /\ ~client'.token
  BY <1>1, <1>2, NewClientInv
<1>4. ChannelInv'
  <2>1. 0 \in 0 .. MaxRequests /\ 0 \in 0 .. Len(Infos)
    BY ChannelAssumption
  <2>. QED  BY <2>1 DEF Reconnect, ChannelInv
<1>5. KeepInv'
  BY <1>3 DEF KeepInv, Reconnect
<1>. QED  BY <1>3, <1>4, <1>5 DEF SInv

\* The first session.
LEMMA InitInv == Init => SInv
<1>. SUFFICES ASSUME Init PROVE SInv
  OBVIOUS
<1>1. PICK config \in Configs : client = NewClient(NewCreds(config.password), config, FALSE)
  BY DEF Init, ClientInit
<1>2. config \in Config /\ config.password \in BOOLEAN /\ FALSE \in BOOLEAN
  BY ClientAssumption DEF Config
<1>. DEFINE creds == NewCreds(config.password)
<1>3. creds \in Creds /\ RefusedOnce(creds)
  BY <1>2 DEF NewCreds, Creds, RefusedOnce
<1>. HIDE DEF creds
<1>4. ClientInv(client) /\ ~client.token
  BY <1>1, <1>2, <1>3, NewClientInv DEF creds
<1>5. ChannelInv
  <2>1. 0 \in 0 .. MaxRequests /\ 0 \in 0 .. Len(Infos)
    BY ChannelAssumption
  <2>. QED  BY <2>1 DEF Init, PushInit, ChannelInv
<1>6. KeepInv
  BY <1>4 DEF KeepInv, Init, PushInit
<1>. QED  BY <1>4, <1>5, <1>6 DEF SInv

\* Every step of the client and the server preserves the inductive invariant.
LEMMA NextInv == SInv /\ [Next]_vars => SInv'
<1>. SUFFICES ASSUME SInv, [Next]_vars PROVE SInv'
  OBVIOUS
<1>1. CASE UNCHANGED vars
  BY <1>1 DEF vars, pushVars, channelVars, SInv, ChannelInv, KeepInv
<1>2. CASE ClientStep(ClientNext)
  <2>1. CASE ClientStep(Active)
    BY <2>1, ActiveStep
  <2>2. CASE ClientStep(ClientRecv)
    BY <2>2, ClientRecvStep
  <2>3. CASE ClientStep(PushRequestTimer)
    BY <2>3, PushRequestTimerStep
  <2>4. CASE ClientStep(InfoHoldTimer)
    BY <2>4, InfoHoldTimerStep
  <2>5. CASE ClientStep(InactiveTimer) \/ ClientStep(Breaks) \/ ClientStep(ManagerStops)
    BY <2>5, StoppingStep
  <2>6. CASE ClientStep(TunBytes) \/ ClientStep(ResetInactiveTimer)
    BY <2>6, TunBytesStep
  <2>. QED  BY <1>2, <2>1, <2>2, <2>3, <2>4, <2>5, <2>6, Zenon DEF ClientStep, ClientNext
<1>3. CASE Answers
  BY <1>3, TalkStep DEF Answers, ServerStep
<1>4. CASE OtherMessages
  BY <1>4, TalkStep, FinalStep DEF OtherMessages, ServerStep
<1>5. CASE ServerStep(Ask \/ Ignore \/ Leave)
  BY <1>5, QuietStep DEF ServerStep
<1>6. CASE Reconnect
  BY <1>6, ReconnectStep
<1>. QED  BY <1>1, <1>2, <1>3, <1>4, <1>5, <1>6 DEF Next

-----------------------------------------------------------------------------
(* The theorems *)

\* The inductive invariant holds in every state of every execution.
THEOREM Inductive == Spec => []SInv
  BY InitInv, NextInv, PTL DEF Spec

(***************************************************************************)
(* The types; in particular stop() calls client_proto_terminate once at    *)
(* most, however many messages, timers and errors come after it.           *)
(***************************************************************************)
THEOREM TypeCorrect == Spec => []SessionTypeOK
<1>1. SInv => SessionTypeOK
  <2>. SUFFICES ASSUME SInv PROVE SessionTypeOK
    OBVIOUS
  <2>1. client \in ClientType /\ toClient \in Seq(Messages) /\ toServer \in 0 .. MaxRequests
    BY DEF SInv, ClientInv, ChannelInv
  <2>2. \A i \in DOMAIN toClient : toClient[i] \in Messages
    BY <2>1
  <2>3. /\ client.fatal \in Fatals /\ client.ended \in Fatals /\ client.timers \in SUBSET Timers /\ client.tun \in {"none", "running", "stopped"}
        /\ client.terminated \in 0 .. 1 /\ client.posts \in 0 .. MaxPosts
    BY <2>1 DEF ClientType
  <2>. QED  BY <2>1, <2>2, <2>3 DEF SessionTypeOK
<1>. QED  BY <1>1, Inductive, PTL

(***************************************************************************)
(* The application is given the INFO messages once each, in the order the  *)
(* server sent them, and none of them before CONNECTED, however many come  *)
(* and whenever the hold timer fires.                                      *)
(***************************************************************************)
THEOREM InfoOrdered == Spec => []InfoInOrder
<1>1. SInv => InfoInOrder
  BY DEF SInv, ClientInv, InfoHeld, InfoInOrder
<1>. QED  BY <1>1, Inductive, PTL

(***************************************************************************)
(* Over any number of sessions AUTH_FAILED brings the client back once at  *)
(* most for every token it was given: the refused id is not offered again. *)
(***************************************************************************)
THEOREM NoLoop == Spec => []NoAuthLoop
<1>1. SInv => NoAuthLoop
  BY DEF SInv, ClientInv, RefusedOnce, NoAuthLoop
<1>. QED  BY <1>1, Inductive, PTL

(***************************************************************************)
(* As long as the server preserves the session id the client keeps the one *)
(* it was given: no message on its way, no error and no timeout takes it.  *)
(***************************************************************************)
THEOREM IdPreserved == Spec => []PreservedIdIsKept
<1>1. SInv => PreservedIdIsKept
  BY DEF SInv, KeepInv, PreservedIdIsKept
<1>. QED  BY <1>1, Inductive, PTL

\* The fields of a session that others see.
Visible == {"halt", "fatal", "ended", "connected", "tun", "shown", "terminated", "creds"}

\* They are fields, and neither the timers nor the posted handlers are among them.
LEMMA VisibleFields ==
    ASSUME SInv
    PROVE  Visible \subseteq DOMAIN client /\ \A f \in Visible : f # "timers" /\ f # "posts"
  BY DEF SInv, ClientInv, ClientType, Visible

Counted == sessions \in Nat

\* Sessions are counted.
LEMMA SessionsCounted == Spec => []Counted
<1>1. Init => Counted
  BY DEF Init, Counted
<1>2. Counted /\ [Next]_vars => Counted'
  BY DEF Counted, Next, vars, ClientStep, ServerStep, Answers, OtherMessages, Reconnect
<1>. QED  BY <1>1, <1>2, PTL DEF Spec

-----------------------------------------------------------------------------
(* The messages that are left in the packet when a session stops *)

\* The errors of a session that may start a tun although it has stopped.
Open == {"CLIENT_RESTART", "RELAY_ERROR"}

\* A message after which the server sends no options.
Closing(m) == m.kind \in {"HALT", "AUTH_FAILED"}

\* r is what a method makes of c, on message m.
Follows(r, c, m) ==
    /\ r.relay_mode = c.relay_mode /\ (r.receiving => c.receiving)
    /\ c.halt => r.halt /\ r.ended = c.ended /\ (r.tun # c.tun => m \in PushReplies /\ ~c.relay_mode)
    /\ ~c.halt /\ r.halt /\ r.receiving => r.ended \in Open \/ c.relay_mode \/ Closing(m)

\* Nothing happens to the fields Follows is about.
SameHalt(r, c) ==
    r.halt = c.halt /\ r.ended = c.ended /\ r.tun = c.tun /\ r.relay_mode = c.relay_mode /\ r.receiving = c.receiving

\* stop(), in a session that has stopped and in one that has not.
LEMMA StopFollows ==
    ASSUME NEW c \in ClientType, NEW terminate \in BOOLEAN
    PROVE  LET r == Stop(c, terminate)
           IN  /\ r.halt /\ r.relay_mode = c.relay_mode /\ r.receiving = c.receiving
               /\ r.ended = IF c.halt THEN c.ended ELSE c.fatal
               /\ c.halt => r.tun = c.tun
<1>1. CASE c.halt
  BY <1>1 DEF Stop, ClientType
<1>2. CASE ~c.halt
  <2>. DEFINE t == IF terminate THEN c.terminated + 1 ELSE c.terminated
              u == IF c.tun = "running" THEN "stopped" ELSE c.tun
              r == [c EXCEPT !.halt = TRUE, !.ended = c.fatal, !.counting = FALSE, !.terminated = t, !.tun = u]
  <2>1. Stop(c, terminate) = r
    BY <1>2 DEF Stop
  <2>. HIDE DEF t, u
  <2>2. /\ r.halt /\ r.relay_mode = c.relay_mode /\ r.receiving = c.receiving /\ r.ended = c.fatal
    BY DEF ClientType
  <2>. HIDE DEF r
  <2>. QED  BY <1>2, <2>1, <2>2
<1>. QED  BY <1>1, <1>2

\* An error is found by ClientConnect if it is the first.
LEMMA FailFollows ==
    ASSUME NEW c \in ClientType, NEW fatal \in Fatals \ {"UNDEF"}
    PROVE  LET r == Fail(c, fatal)
           IN  /\ r.halt /\ r.relay_mode = c.relay_mode /\ r.receiving = c.receiving
               /\ r.ended = IF c.halt THEN c.ended ELSE fatal
               /\ c.halt => r.tun = c.tun
<1>. DEFINE p == [c EXCEPT !.fatal = fatal]
<1>1. Fail(c, fatal) = Stop(p, TRUE)
  BY DEF Fail
<1>2. p \in ClientType /\ SameHalt(p, c) /\ p.fatal = fatal
  BY DEF ClientType, SameHalt
<1>. HIDE DEF p
<1>3. LET r == Stop(p, TRUE)
      IN  /\ r.halt /\ r.relay_mode = p.relay_mode /\ r.receiving = p.receiving
          /\ r.ended = IF p.halt THEN p.ended ELSE p.fatal
          /\ p.halt => r.tun = p.tun
  BY <1>2, StopFollows
<1>. QED  BY <1>1, <1>2, <1>3 DEF SameHalt

\* An exception leaves no messages in the packet.
LEMMA ThrowFollows ==
    ASSUME NEW c, ClientInv(c), NEW fatal \in Fatals
    PROVE  LET r == Throw(c, fatal)
           IN  /\ r.relay_mode = c.relay_mode /\ ~r.receiving /\ r.halt
               /\ c.halt => r.ended = c.ended /\ r.tun = c.tun
<1>. DEFINE f == Fail(c, fatal)
            r == [f EXCEPT !.receiving = FALSE]
<1>1. f \in ClientType /\ c \in ClientType
  BY FailMethod DEF ClientInv
<1>2. f.relay_mode = c.relay_mode /\ f.halt /\ (c.halt => f.ended = c.ended /\ f.tun = c.tun)
  <2>1. CASE fatal = "UNDEF"
    <3>1. f = Stop(c, TRUE)
      BY <2>1 DEF Fail
    <3>. HIDE DEF f
    <3>. QED  BY <1>1, <3>1, StopFollows
  <2>2. CASE fatal # "UNDEF"
    BY <1>1, <2>2, FailFollows
  <2>. QED  BY <2>1, <2>2
<1>3. Throw(c, fatal) = r
  BY DEF Throw
<1>. HIDE DEF f
<1>4. r.relay_mode = f.relay_mode /\ ~r.receiving /\ r.halt = f.halt /\ r.ended = f.ended /\ r.tun = f.tun
  BY <1>1 DEF ClientType
<1>. HIDE DEF r
<1>. QED  BY <1>2, <1>3, <1>4

\* The options start a tun, or an error ends the session.
LEMMA ConfigureFollows ==
    ASSUME NEW c, ClientInv(c), c.complete, NEW tunok \in BOOLEAN, NEW m \in PushReplies
    PROVE  Follows(Configure(c, tunok), c, m)
<1>. DEFINE t == ExtractAuthToken(c, c.options)
            q == [t EXCEPT !.creds.password = FALSE]
            n == IF c.config.auth_nocache THEN q ELSE t
            x == [n EXCEPT !.tun = "stopped"]
            y == [n EXCEPT !.tun = "running"]
            up == Connected(y)
<1>0. c \in ClientType
  BY DEF ClientInv
<1>1. ClientInv(t) /\ t \in ClientType /\ SameHalt(t, c) /\ t.creds \in Creds /\ RefusedOnce(t.creds)
  <2>1. ClientInv(t)
    BY ExtractAuthTokenMethod
  <2>2. SameHalt(t, c)
    BY <1>0 DEF ExtractAuthToken, SameHalt, ClientType
  <2>. HIDE DEF t
  <2>. QED  BY <2>1, <2>2 DEF ClientInv, ClientType
<1>2. Configure(c, tunok) = CASE c.relay_mode -> Fail(c, "RELAY_ERROR")
                  [] ~c.relay_mode /\ "unusable" \in c.options -> Throw(t, "UNDEF")
                  [] ~c.relay_mode /\ "unusable" \notin c.options /\ ~tunok -> Throw(x, "TUN_SETUP_FAILED")
                  [] OTHER -> IF "compress" \in c.options THEN Throw(up, "COMPRESS_ERROR") ELSE up
  BY Zenon DEF Configure
<1>. HIDE DEF t
<1>3. ClientInv(q) /\ SameHalt(q, t)
  <2>. DEFINE k == [t.creds EXCEPT !.password = FALSE]
  <2>1. k \in Creds /\ RefusedOnce(k)
    BY <1>1 DEF Creds, RefusedOnce
  <2>2. q = [t EXCEPT !.creds = k] /\ SameHalt(q, t)
    BY <1>1 DEF ClientType, SameHalt
  <2>. HIDE DEF k, q
  <2>. QED  BY <1>1, <2>1, <2>2, CredsChange
<1>. HIDE DEF q
<1>4. ClientInv(n) /\ SameHalt(n, c) /\ n \in ClientType
  BY <1>1, <1>3 DEF SameHalt, ClientInv
<1>. HIDE DEF n
<1>5. ClientInv(x) /\ x.halt = n.halt /\ x.ended = n.ended /\ x.relay_mode = n.relay_mode
  <2>1. /\ x \in ClientType /\ x.halt = n.halt /\ x.creds = n.creds /\ x.token = n.token /\ x.complete = n.complete
        /\ x.terminated = n.terminated /\ x.ended = n.ended /\ x.relay_mode = n.relay_mode /\ SameInfo(x, n)
    BY <1>4 DEF ClientType, SameInfo
  <2>. HIDE DEF x
  <2>. QED  BY <1>4, <2>1, SameInfoHeld DEF ClientInv
<1>6. ClientInv(up) /\ up.halt = n.halt /\ up.ended = n.ended /\ up.relay_mode = n.relay_mode /\ up.receiving = n.receiving
  <2>1. y \in ClientType /\ y.halt = n.halt /\ y.ended = n.ended /\ y.relay_mode = n.relay_mode /\ y.receiving = n.receiving
    BY <1>4 DEF ClientType
  <2>2. ClientInv(up)
    BY <1>4, ConnectedMethod
  <2>. HIDE DEF y
  <2>3. up.halt = y.halt /\ up.ended = y.ended /\ up.relay_mode = y.relay_mode /\ up.receiving = y.receiving
    BY <2>1 DEF Connected, ClientType
  <2>. QED  BY <2>1, <2>2, <2>3
<1>. HIDE DEF x, up
<1>7. {"RELAY_ERROR", "UNDEF", "TUN_SETUP_FAILED", "COMPRESS_ERROR"} \subseteq Fatals
  BY DEF Fatals
<1>8. CASE c.relay_mode
  <2>. DEFINE r == Fail(c, "RELAY_ERROR")
  <2>1. /\ r.halt /\ r.relay_mode = c.relay_mode /\ r.receiving = c.receiving
        /\ c.halt => r.ended = c.ended /\ r.tun = c.tun
    BY <1>0, <1>7, FailFollows
  <2>2. Configure(c, tunok) = r
    BY <1>2, <1>8
  <2>. HIDE DEF r
  <2>. QED  BY <1>8, <2>1, <2>2 DEF Follows
<1>9. ASSUME NEW p, NEW fatal \in Fatals, ClientInv(p), p.halt = c.halt, p.ended = c.ended, p.relay_mode = c.relay_mode,
             ~c.relay_mode, Configure(c, tunok) = Throw(p, fatal)
      PROVE  Follows(Configure(c, tunok), c, m)
  BY <1>9, ThrowFollows DEF Follows
<1>10. CASE ~c.relay_mode /\ "unusable" \in c.options
  BY <1>1, <1>2, <1>7, <1>9, <1>10 DEF SameHalt
<1>11. CASE ~c.relay_mode /\ "unusable" \notin c.options /\ ~tunok
  <2>1. Configure(c, tunok) = Throw(x, "TUN_SETUP_FAILED")
    BY <1>2, <1>11
  <2>. QED  BY <1>4, <1>5, <1>7, <1>9, <1>11, <2>1 DEF SameHalt
<1>12. CASE ~c.relay_mode /\ "unusable" \notin c.options /\ tunok
  <2>1. Configure(c, tunok) = IF "compress" \in c.options THEN Throw(up, "COMPRESS_ERROR") ELSE up
    BY <1>2, <1>12
  <2>2. CASE "compress" \in c.options
    BY <1>4, <1>6, <1>7, <1>9, <1>12, <2>1, <2>2 DEF SameHalt
  <2>3. CASE "compress" \notin c.options
    BY <1>4, <1>6, <1>12, <2>1, <2>3 DEF SameHalt, Follows
  <2>. QED  BY <2>2, <2>3
<1>. QED  BY <1>0, <1>8, <1>10, <1>11, <1>12 DEF ClientType

\* HALT and RESTART.
LEMMA RecvHaltRestartFollows ==
    ASSUME NEW c, ClientInv(c), NEW restart \in BOOLEAN, NEW psid \in BOOLEAN, NEW m, ~restart => Closing(m)
    PROVE  Follows(RecvHaltRestart(c, restart, psid), c, m)
<1>. DEFINE id == c.creds.session_id /\ psid
            p == [c EXCEPT !.creds.session_id = id]
            fatal == IF restart THEN "CLIENT_RESTART" ELSE "CLIENT_HALT"
            r == Fail(p, fatal)
<1>1. c \in ClientType /\ id \in BOOLEAN
  BY DEF ClientInv, ClientType, Creds
<1>2. RecvHaltRestart(c, restart, psid) = r
  BY DEF RecvHaltRestart
<1>. HIDE DEF id
<1>3. p \in ClientType /\ SameHalt(p, c)
  <2>. DEFINE k == [c.creds EXCEPT !.session_id = id]
  <2>1. k \in Creds /\ p = [c EXCEPT !.creds = k]
    BY <1>1 DEF ClientType, Creds
  <2>. HIDE DEF k, p
  <2>. QED  BY <1>1, <2>1 DEF ClientType, SameHalt
<1>4. fatal \in Fatals \ {"UNDEF"} /\ (restart => fatal \in Open)
  BY DEF Fatals, Open
<1>. HIDE DEF p, fatal
<1>5. /\ r.halt /\ r.relay_mode = p.relay_mode /\ r.receiving = p.receiving
      /\ r.ended = IF p.halt THEN p.ended ELSE fatal
      /\ p.halt => r.tun = p.tun
  BY <1>3, <1>4, FailFollows
<1>. HIDE DEF r
<1>. QED  BY <1>2, <1>3, <1>4, <1>5 DEF SameHalt, Follows

\* AUTH_FAILED.
LEMMA RecvAuthFailedFollows ==
    ASSUME NEW c, ClientInv(c), NEW temp \in BOOLEAN, NEW m, Closing(m)
    PROVE  Follows(RecvAuthFailed(c, temp), c, m)
<1>. DEFINE p == [c EXCEPT !.creds.session_id = FALSE]
            p1 == [p EXCEPT !.creds.refused = IF c.halt THEN @ ELSE @ + 1]
            reconnect == ~c.creds.interaction /\ (~c.creds.needed \/ c.creds.password)
<1>1. c \in ClientType /\ c.creds \in Creds /\ SameHalt(c, c)
  BY DEF ClientInv, ClientType, SameHalt
<1>2. p \in ClientType /\ SameHalt(p, c) /\ p.creds \in Creds
  <2>. DEFINE k == [c.creds EXCEPT !.session_id = FALSE]
  <2>1. k \in Creds /\ p = [c EXCEPT !.creds = k]
    BY <1>1 DEF ClientType, Creds
  <2>. HIDE DEF k, p
  <2>. QED  BY <1>1, <2>1 DEF ClientType, SameHalt
<1>. HIDE DEF p
<1>3. p1 \in ClientType /\ SameHalt(p1, c)
  <2>. DEFINE n == IF c.halt THEN p.creds.refused ELSE p.creds.refused + 1
              k == [p.creds EXCEPT !.refused = n]
  <2>1. n \in Nat
    BY <1>2 DEF Creds
  <2>2. p1 = [p EXCEPT !.creds = k]
    BY <1>2 DEF ClientType
  <2>. HIDE DEF n, p1
  <2>3. k \in Creds
    BY <1>2, <2>1 DEF Creds
  <2>. HIDE DEF k
  <2>. QED  BY <1>2, <2>2, <2>3 DEF ClientType, SameHalt
<1>. HIDE DEF p1, reconnect
<1>4. \/ RecvAuthFailed(c, temp) = Stop(c, TRUE) \/ RecvAuthFailed(c, temp) = Stop(p1, TRUE)
      \/ RecvAuthFailed(c, temp) = Fail(p, "AUTH_FAILED") \/ RecvAuthFailed(c, temp) = Fail(p, "SESSION_EXPIRED")
  <2>1. CASE temp
    BY <2>1 DEF RecvAuthFailed
  <2>2. CASE ~temp
    <3>1. RecvAuthFailed(c, temp) = CASE ~c.creds.session_id -> Fail(p, "AUTH_FAILED")
                                    [] c.creds.session_id /\ reconnect -> Stop(p1, TRUE)
                                    [] OTHER -> Fail(p, "SESSION_EXPIRED")
      BY <2>2, Zenon DEF RecvAuthFailed, p1, p, reconnect
    <3>. QED  BY <3>1
  <2>. QED  BY <2>1, <2>2
<1>5. {"AUTH_FAILED", "SESSION_EXPIRED"} \subseteq Fatals \ {"UNDEF"}
  BY DEF Fatals
<1>6. ASSUME NEW q \in ClientType, SameHalt(q, c), RecvAuthFailed(c, temp) = Stop(q, TRUE)
      PROVE  Follows(RecvAuthFailed(c, temp), c, m)
  <2>. DEFINE r == Stop(q, TRUE)
  <2>1. /\ r.halt /\ r.relay_mode = q.relay_mode /\ r.receiving = q.receiving
        /\ q.halt => r.ended = q.ended /\ r.tun = q.tun
    BY StopFollows
  <2>. HIDE DEF r
  <2>2. RecvAuthFailed(c, temp) = r
    BY <1>6 DEF r
  <2>. QED  BY <1>6, <2>1, <2>2 DEF SameHalt, Follows
<1>7. ASSUME NEW fatal \in Fatals \ {"UNDEF"}, RecvAuthFailed(c, temp) = Fail(p, fatal)
      PROVE  Follows(RecvAuthFailed(c, temp), c, m)
  <2>. DEFINE r == Fail(p, fatal)
  <2>1. /\ r.halt /\ r.relay_mode = p.relay_mode /\ r.receiving = p.receiving
        /\ p.halt => r.ended = p.ended /\ r.tun = p.tun
    BY <1>2, FailFollows
  <2>. HIDE DEF r
  <2>2. RecvAuthFailed(c, temp) = r
    BY <1>7 DEF r
  <2>. QED  BY <1>2, <2>1, <2>2 DEF SameHalt, Follows
<1>. QED  BY <1>1, <1>2, <1>3, <1>4, <1>5, <1>6, <1>7

\* PUSH_REPLY, a part of the options.
LEMMA RecvPushReplyFollows ==
    ASSUME NEW c, ClientInv(c), NEW m \in PushReplies, m.body \in Bodies, m.more \in BOOLEAN, NEW tunok \in BOOLEAN
    PROVE  Follows(RecvPushReply(c, m, tunok), c, m)
<1>. DEFINE z == [c EXCEPT !.partial = TRUE, !.options = {}]
            opts == c.options \cup {m.body}
            a == [c EXCEPT !.partial = TRUE, !.options = opts, !.complete = ~m.more]
<1>1. c \in ClientType /\ opts \in SUBSET Bodies
  BY DEF ClientInv, ClientType
<1>2. RecvPushReply(c, m, tunok) = CASE m.body = "malformed" -> Throw(c, "UNDEF")
          [] m.body # "malformed" /\ c.complete -> ExtractAuthToken(c, {m.body})
          [] m.body = "rejected" /\ ~c.complete -> RecvHaltRestart(z, TRUE, FALSE)
          [] OTHER -> IF m.more THEN a ELSE Configure(a, tunok)
  BY Zenon DEF RecvPushReply
<1>3. "UNDEF" \in Fatals
  BY DEF Fatals
<1>. HIDE DEF z, a, opts
<1>4. CASE m.body = "malformed"
  BY <1>2, <1>3, <1>4, ThrowFollows DEF Follows
<1>5. CASE m.body # "malformed" /\ c.complete
  <2>1. SameHalt(ExtractAuthToken(c, {m.body}), c)
    BY <1>1 DEF ExtractAuthToken, SameHalt, ClientType
  <2>. QED  BY <1>2, <1>5, <2>1 DEF SameHalt, Follows
<1>6. CASE m.body = "rejected" /\ ~c.complete
  <2>1. /\ z \in ClientType /\ z.halt = c.halt /\ z.creds = c.creds /\ z.token = c.token /\ z.complete = c.complete
        /\ z.terminated = c.terminated /\ SameInfo(z, c) /\ SameHalt(z, c)
    BY <1>1 DEF ClientType, SameInfo, SameHalt, z
  <2>2. ClientInv(z)
    BY <1>6, <2>1, SameInfoHeld DEF ClientInv
  <2>3. Follows(RecvHaltRestart(z, TRUE, FALSE), z, m)
    BY <2>2, RecvHaltRestartFollows
  <2>4. RecvPushReply(c, m, tunok) = RecvHaltRestart(z, TRUE, FALSE)
    BY <1>2, <1>6
  <2>. QED  BY <2>1, <2>3, <2>4 DEF SameHalt, Follows
<1>7. CASE m.body # "malformed" /\ m.body # "rejected" /\ ~c.complete
  <2>1. /\ a \in ClientType /\ a.halt = c.halt /\ a.creds = c.creds /\ a.token = c.token /\ a.complete = ~m.more
        /\ a.terminated = c.terminated /\ SameInfo(a, c) /\ SameHalt(a, c)
    <3>. DEFINE fin == ~m.more
    <3>1. fin \in BOOLEAN /\ a = [c EXCEPT !.partial = TRUE, !.options = opts, !.complete = fin]
      BY DEF a
    <3>. HIDE DEF fin
    <3>2. /\ a \in ClientType /\ a.halt = c.halt /\ a.creds = c.creds /\ a.token = c.token /\ a.complete = fin
          /\ a.terminated = c.terminated /\ SameInfo(a, c) /\ SameHalt(a, c)
      BY <1>1, <3>1 DEF ClientType, SameInfo, SameHalt
    <3>. QED  BY <3>2 DEF fin
  <2>2. ~c.token
    BY <1>7 DEF ClientInv
  <2>3. ClientInv(a)
    BY <2>1, <2>2, SameInfoHeld DEF ClientInv
  <2>4. RecvPushReply(c, m, tunok) = IF m.more THEN a ELSE Configure(a, tunok)
    BY <1>2, <1>7
  <2>5. CASE m.more
    BY <2>1, <2>4, <2>5 DEF SameHalt, Follows
  <2>6. CASE ~m.more
    <3>1. Follows(Configure(a, tunok), a, m)
      BY <2>1, <2>3, <2>6, ConfigureFollows
    <3>. QED  BY <2>1, <2>4, <2>6, <3>1 DEF SameHalt, Follows
  <2>. QED  BY <2>5, <2>6
<1>. QED  BY <1>1, <1>4, <1>5, <1>6, <1>7 DEF ClientType

\* Any message.
LEMMA ControlRecvFollows ==
    ASSUME NEW c, ClientInv(c), NEW m \in Messages, NEW tunok \in BOOLEAN
    PROVE  Follows(ControlRecv(c, m, tunok), c, m)
<1>0. c \in ClientType
  BY DEF ClientInv
<1>1. CASE m \in PushReplies
  <2>1. m.kind = "PUSH_REPLY" /\ m.body \in Bodies /\ m.more \in BOOLEAN
    BY <1>1 DEF PushReplies, PushReplyMsg
  <2>2. ControlRecv(c, m, tunok) = RecvPushReply(c, m, tunok)
    BY <2>1 DEF ControlRecv
  <2>. QED  BY <1>1, <2>1, <2>2, RecvPushReplyFollows
<1>2. ASSUME NEW temp \in BOOLEAN, m = AuthFailedMsg(temp) PROVE Follows(ControlRecv(c, m, tunok), c, m)
  <2>1. m.kind = "AUTH_FAILED" /\ m.temp = temp
    BY <1>2 DEF AuthFailedMsg
  <2>2. ControlRecv(c, m, tunok) = RecvAuthFailed(c, temp) /\ Closing(m)
    BY <2>1 DEF ControlRecv, Closing
  <2>. QED  BY <2>2, RecvAuthFailedFollows
<1>3. ASSUME NEW psid \in BOOLEAN, m = RestartMsg(psid) PROVE Follows(ControlRecv(c, m, tunok), c, m)
  <2>1. m.kind = "RESTART" /\ m.psid = psid
    BY <1>3 DEF RestartMsg
  <2>2. ControlRecv(c, m, tunok) = RecvHaltRestart(c, TRUE, psid)
    BY <2>1 DEF ControlRecv
  <2>. QED  BY <2>2, RecvHaltRestartFollows
<1>4. CASE m \in {InfoMsg(n) : n \in DOMAIN Infos}
  <2>1. m.kind = "INFO"
    BY <1>4 DEF InfoMsg
  <2>2. ControlRecv(c, m, tunok) = RecvInfo(c, m)
    BY <2>1 DEF ControlRecv
  <2>3. SameHalt(RecvInfo(c, m), c)
    <3>. DEFINE i == c.creds.interaction \/ m.info.web
                w == [c EXCEPT !.creds.interaction = i]
                r == [w EXCEPT !.read = Append(@, m.n)]
                held == [r EXCEPT !.info_hold = Append(@, m.n)]
                seen == [r EXCEPT !.shown = Append(@, m.n)]
    <3>1. RecvInfo(c, m) \in {w, held, seen}
      BY Zenon DEF RecvInfo
    <3>. HIDE DEF i
    <3>2. SameHalt(w, c) /\ DOMAIN w = DOMAIN c
      BY <1>0 DEF ClientType, SameHalt
    <3>. HIDE DEF w
    <3>3. SameHalt(held, w) /\ SameHalt(seen, w)
      BY <1>0, <3>2 DEF ClientType, SameHalt
    <3>. QED  BY <3>1, <3>2, <3>3 DEF SameHalt
  <2>. QED  BY <2>2, <2>3 DEF SameHalt, Follows
<1>5. CASE m = HaltMsg
  <2>1. m.kind = "HALT" /\ Closing(m)
    BY <1>5 DEF HaltMsg, Closing
  <2>2. ControlRecv(c, m, tunok) = RecvHaltRestart(c, FALSE, FALSE)
    BY <2>1 DEF ControlRecv
  <2>. QED  BY <2>1, <2>2, RecvHaltRestartFollows
<1>6. CASE m = AuthPendingMsg
  <2>1. m.kind = "AUTH_PENDING"
    BY <1>6 DEF AuthPendingMsg
  <2>2. ControlRecv(c, m, tunok) = c
    BY <2>1 DEF ControlRecv, RecvAuthPending
  <2>. QED  BY <2>2 DEF Follows
<1>7. CASE m = RelayMsg
  <2>. DEFINE fatal == IF c.relay_mode THEN "RELAY" ELSE "RELAY_ERROR"
              r == Fail(c, fatal)
  <2>1. m.kind = "RELAY" /\ fatal \in Fatals \ {"UNDEF"} /\ (c.relay_mode \/ fatal \in Open)
    BY <1>7 DEF RelayMsg, Fatals, Open
  <2>2. ControlRecv(c, m, tunok) = r
    BY <2>1 DEF ControlRecv
  <2>. HIDE DEF fatal
  <2>3. /\ r.halt /\ r.relay_mode = c.relay_mode /\ r.receiving = c.receiving
        /\ r.ended = IF c.halt THEN c.ended ELSE fatal
        /\ c.halt => r.tun = c.tun
    BY <1>0, <2>1, FailFollows
  <2>. HIDE DEF r
  <2>. QED  BY <2>1, <2>2, <2>3 DEF Follows
<1>. QED  BY <1>1, <1>2, <1>3, <1>4, <1>5, <1>6, <1>7 DEF Messages

\* No options come after a message that closes the session.
OrderInv ==
    /\ \A i \in DOMAIN toClient : Closing(toClient[i]) => push.over
    /\ \A i \in DOMAIN toClient, j \in DOMAIN toClient :
         Closing(toClient[i]) /\ i < j => toClient[j] \notin PushReplies

\* Options are left for a session that has stopped only if its error is an open one or it expects a relay.
LeftInv ==
    client.halt /\ client.receiving
    => client.ended \in Open \/ client.relay_mode \/ \A i \in DOMAIN toClient : toClient[i] \notin PushReplies

\* What the messages on their way can still do to a session that has stopped.
PacketInv == OrderInv /\ LeftInv

\* Messages are taken from the front.
LEMMA TakenOrder ==
    ASSUME SInv, OrderInv, push' = push,
           toClient' \in {toClient, <<>>} \/ (toClient # <<>> /\ toClient' = Tail(toClient))
    PROVE  OrderInv'
<1>1. toClient \in Seq(Messages)
  BY DEF SInv, ChannelInv
<1>2. CASE toClient' \in {toClient, <<>>}
  BY <1>2 DEF OrderInv
<1>3. CASE toClient # <<>> /\ toClient' = Tail(toClient)
  <2>1. ASSUME NEW i \in DOMAIN toClient'
        PROVE  i + 1 \in DOMAIN toClient /\ toClient'[i] = toClient[i + 1] /\ i \in Nat
    BY <1>1, <1>3
  <2>. QED  BY <2>1 DEF OrderInv
<1>. QED  BY <1>2, <1>3

\* Messages are added at the end, options not after one that closes the session.
LEMMA SaidOrder ==
    ASSUME SInv, OrderInv, NEW msgs \in Seq(Messages), toClient' = toClient \o msgs,
           push.over => push'.over,
           push.over => \A i \in DOMAIN msgs : msgs[i] \notin PushReplies,
           \A i \in DOMAIN msgs : Closing(msgs[i]) => push'.over /\ DOMAIN msgs = {1}
    PROVE  OrderInv'
<1>1. toClient \in Seq(Messages)
  BY DEF SInv, ChannelInv
<1>2. ASSUME NEW i \in DOMAIN toClient'
      PROVE  \/ i \in DOMAIN toClient /\ toClient'[i] = toClient[i]
             \/ /\ i - Len(toClient) \in DOMAIN msgs /\ toClient'[i] = msgs[i - Len(toClient)]
                /\ i > Len(toClient)
  BY <1>1
<1>3. ASSUME NEW i \in DOMAIN toClient', Closing(toClient'[i]) PROVE push'.over
  BY <1>2, <1>3 DEF OrderInv
<1>4. ASSUME NEW i \in DOMAIN toClient', NEW j \in DOMAIN toClient', Closing(toClient'[i]), i < j
      PROVE  toClient'[j] \notin PushReplies
  <2>1. i \in Nat /\ j \in Nat /\ Len(toClient) \in Nat /\ DOMAIN toClient = 1 .. Len(toClient)
    BY <1>1
  <2>2. CASE i \in DOMAIN toClient /\ toClient'[i] = toClient[i]
    <3>1. push.over
      BY <1>4, <2>2 DEF OrderInv
    <3>. QED  BY <1>2, <1>4, <2>2, <3>1 DEF OrderInv
  <2>3. CASE /\ i - Len(toClient) \in DOMAIN msgs /\ toClient'[i] = msgs[i - Len(toClient)]
             /\ i > Len(toClient)
    <3>1. DOMAIN msgs = {1}
      BY <1>4, <2>3
    <3>. QED  BY <1>2, <1>4, <2>1, <2>3, <3>1
  <2>. QED  BY <1>2, <2>2, <2>3
<1>. QED  BY <1>3, <1>4 DEF OrderInv

\* The kinds of the messages.
LEMMA Kinds ==
    /\ \A m \in PushReplies : m.kind = "PUSH_REPLY" /\ ~Closing(m)
    /\ \A n \in DOMAIN Infos : InfoMsg(n).kind = "INFO"
    /\ RelayMsg.kind = "RELAY" /\ AuthPendingMsg.kind = "AUTH_PENDING" /\ HaltMsg.kind = "HALT"
    /\ \A b \in BOOLEAN : RestartMsg(b).kind = "RESTART" /\ AuthFailedMsg(b).kind = "AUTH_FAILED"
<1>1. \A m \in PushReplies : m.kind = "PUSH_REPLY"
  BY DEF PushReplies, PushReplyMsg
<1>. QED  BY <1>1 DEF Closing, RelayMsg, AuthPendingMsg, HaltMsg, RestartMsg, AuthFailedMsg, InfoMsg

\* A step of the server.
LEMMA ServerOrder ==
    ASSUME SInv, OrderInv, ServerStep(Final) \/ ServerStep(Answer) \/ ServerStep(Announce) \/ ServerStep(Note)
                           \/ ServerStep(Ask) \/ ServerStep(Ignore) \/ ServerStep(Leave)
    PROVE  OrderInv'
<1>0. push \in [over : BOOLEAN, keep : BOOLEAN, gone : BOOLEAN]
  BY DEF SInv, ChannelInv
<1>1. ASSUME NEW m \in Messages, toClient' = toClient \o <<m>>, push.over => push'.over, m \notin PushReplies,
             Closing(m) => push'.over
      PROVE  OrderInv'
  <2>1. <<m>> \in Seq(Messages) /\ DOMAIN <<m>> = {1} /\ <<m>>[1] = m
    OBVIOUS
  <2>. QED  BY <1>1, <2>1, SaidOrder
<1>2. CASE Final
  <2>1. PICK m, keep : Ends(m, keep) /\ m \in {HaltMsg, RestartMsg(TRUE), RestartMsg(FALSE), AuthFailedMsg(FALSE), AuthFailedMsg(TRUE)}
    BY <1>2 DEF Final
  <2>2. m \in Messages /\ m \notin PushReplies
    BY <2>1, Kinds DEF Messages
  <2>3. toClient' = toClient \o <<m>> /\ push'.over
    BY <2>1 DEF Ends, Says
  <2>. QED  BY <1>1, <2>2, <2>3
<1>3. CASE Answer
  <2>1. PICK msgs \in PushLists : toClient' = toClient \o msgs
    BY <1>3 DEF Answer, Says
  <2>2. msgs \in Seq(PushReplies) /\ PushReplies \subseteq Messages
    BY ChannelAssumption DEF Messages
  <2>3. msgs \in Seq(Messages) /\ \A i \in DOMAIN msgs : msgs[i] \in PushReplies
    BY <2>2
  <2>4. ~push.over
    BY <1>3 DEF Answer
  <2>. QED  BY <2>1, <2>3, <2>4, Kinds, SaidOrder
<1>4. CASE Announce
  <2>1. /\ RestartMsg(TRUE) \in Messages /\ RelayMsg \in Messages
        /\ RestartMsg(TRUE) \notin PushReplies /\ RelayMsg \notin PushReplies
        /\ ~Closing(RestartMsg(TRUE)) /\ ~Closing(RelayMsg)
    BY Kinds DEF Messages, Closing
  <2>. QED  BY <1>1, <1>4, <2>1 DEF Announce, Says
<1>5. CASE Note
  <2>1. AuthPendingMsg \in Messages /\ AuthPendingMsg \notin PushReplies /\ ~Closing(AuthPendingMsg)
    BY Kinds DEF Messages, Closing
  <2>2. \A n \in DOMAIN Infos : InfoMsg(n) \in Messages /\ InfoMsg(n) \notin PushReplies /\ ~Closing(InfoMsg(n))
    BY Kinds DEF Messages, Closing
  <2>3. infos < Len(Infos) /\ infos' = infos + 1 => infos' \in DOMAIN Infos
    BY ChannelAssumption DEF SInv, ChannelInv
  <2>. QED  BY <1>1, <1>5, <2>1, <2>2, <2>3 DEF Note, Says
<1>6. CASE Ask \/ Ignore
  BY <1>6 DEF Ask, Ignore, OrderInv
<1>7. CASE Leave
  <2>1. toClient' = toClient /\ push'.over = push.over
    BY <1>7 DEF Leave, channelVars
  <2>. QED  BY <2>1 DEF OrderInv
<1>. QED  BY <1>2, <1>3, <1>4, <1>5, <1>6, <1>7 DEF ServerStep

\* A message is received: what it makes of the session, and what is left in the packet.
LEMMA RecvFollows ==
    ASSUME SInv, ClientStep(ClientRecv)
    PROVE  /\ toClient # <<>> /\ Head(toClient) \in Messages /\ (client.halt => client.receiving)
           /\ client'.relay_mode = client.relay_mode
           /\ client.halt => /\ client'.ended = client.ended
                             /\ client'.tun # client.tun => Head(toClient) \in PushReplies /\ ~client.relay_mode
           /\ ~client.halt /\ client'.halt /\ client'.receiving
              => client'.ended \in Open \/ client.relay_mode \/ Closing(Head(toClient))
<1>1. PICK more \in BOOLEAN, tunok \in BOOLEAN :
          client' = ControlRecv([client EXCEPT !.receiving = more], Head(toClient), tunok)
  BY DEF ClientStep, ClientRecv
<1>2. toClient # <<>> /\ Head(toClient) \in Messages /\ (client.halt => client.receiving)
  BY DEF ClientStep, ClientRecv, SInv, ChannelInv
<1>. DEFINE c == [client EXCEPT !.receiving = more]
            r == [client EXCEPT !.timers = client.timers, !.posts = client.posts, !.active = client.active,
                                !.receiving = more]
<1>3. ClientInv(c) /\ c.halt = client.halt /\ c.ended = client.ended /\ c.tun = client.tun /\ c.relay_mode = client.relay_mode
  <2>1. c = r /\ c.halt = client.halt /\ c.ended = client.ended /\ c.tun = client.tun /\ c.relay_mode = client.relay_mode
    BY ClientFields DEF ClientType
  <2>2. ClientInv(r)
    BY ClientFields, TimersChange
  <2>. QED  BY <2>1, <2>2
<1>. HIDE DEF c, r
<1>4. Follows(client', c, Head(toClient))
  BY <1>1, <1>2, <1>3, ControlRecvFollows DEF c
<1>. QED  BY <1>2, <1>3, <1>4 DEF Follows

\* Every step keeps the order, and what is left to a session that has stopped.
LEMMA PacketNext == SInv /\ PacketInv /\ [Next]_vars => PacketInv'
<1>. SUFFICES ASSUME SInv, OrderInv, LeftInv, [Next]_vars PROVE OrderInv' /\ LeftInv'
  BY DEF PacketInv
<1>0. toClient \in Seq(Messages) /\ client \in ClientType
  BY ClientFields DEF SInv, ChannelInv
<1>1. CASE UNCHANGED vars
  BY <1>1 DEF vars, pushVars, channelVars, OrderInv, LeftInv
<1>2. CASE ClientStep(ClientRecv)
  <2>1. toClient' = <<>> \/ toClient' = Tail(toClient)
    BY <1>2 DEF ClientStep, ClientRecv, Transport
  <2>2. OrderInv'
    BY <1>2, <2>1, RecvFollows, TakenOrder DEF ClientStep
  <2>3. ASSUME client'.halt, client'.receiving, client'.ended \notin Open, ~client'.relay_mode, NEW i \in DOMAIN toClient'
        PROVE  toClient'[i] \notin PushReplies
    <3>1. toClient' = Tail(toClient)
      BY <1>2, <2>3 DEF ClientStep, ClientRecv, Transport
    <3>2. toClient # <<>>
      BY <1>2, RecvFollows
    <3>3. i + 1 \in DOMAIN toClient /\ toClient'[i] = toClient[i + 1] /\ 1 \in DOMAIN toClient /\ Head(toClient) = toClient[1] /\ 1 < i + 1
      BY <1>0, <2>3, <3>1, <3>2
    <3>4. CASE client.halt
      BY <1>2, <2>3, <3>3, <3>4, RecvFollows DEF LeftInv
    <3>5. CASE ~client.halt
      <4>1. Closing(toClient[1])
        BY <1>2, <2>3, <3>3, <3>5, RecvFollows
      <4>. QED  BY <3>3, <4>1 DEF OrderInv
    <3>. QED  BY <3>4, <3>5
  <2>. QED  BY <2>2, <2>3 DEF LeftInv
<1>3. CASE ClientStep(ClientNext) /\ ~ClientRecv
  <2>1. /\ push' = push /\ toClient' \in {toClient, <<>>} /\ ~client.receiving
    BY <1>3 DEF ClientStep, ClientNext, Active, PushRequestTimer, InfoHoldTimer, InactiveTimer, TunBytes,
                ResetInactiveTimer, Breaks, ManagerStops, Transport, Idle, channelVars
  <2>2. OrderInv'
    BY <2>1, TakenOrder
  <2>3. ~client'.receiving
    <3>. DEFINE f == Fired("inactive_timer")
    <3>1. \A t : Fired(t).receiving = client.receiving
      BY <1>0 DEF Fired, ClientType
    <3>2. ClientInv(client) /\ ClientInv(f)
      BY FiredMethod, ClientFields
    <3>3. ASSUME NEW c, ClientInv(c), NEW fatal \in Fatals PROVE Fail(c, fatal).receiving = c.receiving
      <4>1. c \in ClientType
        BY <3>3 DEF ClientInv
      <4>2. CASE fatal = "UNDEF"
        BY <4>1, <4>2, StopFollows DEF Fail
      <4>3. CASE fatal # "UNDEF"
        BY <4>1, <4>3, FailFollows
      <4>. QED  BY <4>2, <4>3
    <3>4. "INACTIVE_TIMEOUT" \in Fatals
      BY DEF Fatals
    <3>5. CASE Active \/ TunBytes \/ ResetInactiveTimer
      BY <1>0, <2>1, <3>5 DEF Active, TunBytes, ResetInactiveTimer, ClientType
    <3>6. CASE PushRequestTimer
      BY <2>1, <3>1, <3>6 DEF PushRequestTimer
    <3>7. CASE InfoHoldTimer
      <4>. DEFINE g == Fired("info_hold_timer")
      <4>1. g \in ClientType /\ g.receiving = client.receiving
        BY <3>1, FiredMethod DEF ClientInv
      <4>2. client' = g \/ client' = [g EXCEPT !.shown = @ \o client.info_hold, !.info_hold = <<>>, !.holding = FALSE]
        BY <3>7 DEF InfoHoldTimer
      <4>. HIDE DEF g
      <4>. QED  BY <2>1, <4>1, <4>2 DEF ClientType
    <3>8. CASE InactiveTimer
      <4>1. client' = f \/ client' = Fail(f, "INACTIVE_TIMEOUT")
        BY <3>8 DEF InactiveTimer
      <4>2. f.receiving = client.receiving
        BY <3>1
      <4>. HIDE DEF f
      <4>. QED  BY <2>1, <3>2, <3>3, <3>4, <4>1, <4>2
    <3>9. CASE Breaks
      BY <2>1, <3>2, <3>3, <3>9, ClientAssumption DEF Breaks
    <3>10. CASE ManagerStops
      BY <1>0, <2>1, <3>10, StopFollows DEF ManagerStops
    <3>. QED  BY <1>3, <3>5, <3>6, <3>7, <3>8, <3>9, <3>10, Zenon DEF ClientStep, ClientNext
  <2>. QED  BY <2>2, <2>3 DEF LeftInv
<1>4. CASE Answers \/ OtherMessages \/ ServerStep(Ask \/ Ignore \/ Leave)
  <2>1. UNCHANGED client /\ ~client.halt
    BY <1>4 DEF Answers, OtherMessages, ServerStep
  <2>2. OrderInv'
    BY <1>4, ServerOrder DEF Answers, OtherMessages, ServerStep
  <2>. QED  BY <2>1, <2>2 DEF LeftInv
<1>5. CASE Reconnect
  <2>1. toClient' = <<>>
    BY <1>5 DEF Reconnect
  <2>. QED  BY <2>1 DEF OrderInv, LeftInv
<1>. QED  BY <1>1, <1>2, <1>3, <1>4, <1>5 DEF Next, ClientStep

\* The order of the messages, in every state of every execution.
LEMMA PacketOrder == Spec => []PacketInv
<1>1. Init => PacketInv
  BY DEF Init, PushInit, PacketInv, OrderInv, LeftInv
<1>. QED  BY <1>1, Inductive, PacketNext, PTL DEF Spec

(***************************************************************************)
(* A session that has stopped and whose handler has returned shows nothing *)
(* more: none of the handlers that are still to come, of timers that       *)
(* expired before they were cancelled and of posts, changes what the       *)
(* application, the manager or the next session see of it.  The other      *)
(* messages of the packet in which it stopped start no tun after a HALT or *)
(* an AUTH_FAILED: no options come after these, whatever the packet holds. *)
(***************************************************************************)
THEOREM HaltFinal == Spec => HaltIsFinal
<1>1. ASSUME SInv, Counted, Next, client.halt, Idle, sessions' = sessions
      PROVE  \A f \in Visible : client'[f] = client[f]
  <2>1. CASE UNCHANGED client
    BY <2>1
  <2>2. ~client.receiving
    BY <1>1 DEF Idle
  <2>3. CASE ClientStep(ClientNext)
    <3>1. CASE client' \in {Fired("push_request_timer"), Fired("info_hold_timer"), Fired("inactive_timer")}
      <4>1. PICK t : client' = Fired(t)
        BY <3>1
      <4>. DEFINE timers == client.timers \ {t}
      <4>2. client' = [client EXCEPT !.timers = timers]
        BY <4>1 DEF Fired
      <4>. HIDE DEF timers
      <4>3. \A f \in Visible : [client EXCEPT !.timers = timers][f] = client[f]
        BY <1>1, VisibleFields
      <4>. QED  BY <4>2, <4>3
    <3>2. CASE TunBytes
      <4>. DEFINE posts == client.posts + 1
      <4>1. client' = [client EXCEPT !.posts = posts]
        BY <3>2 DEF TunBytes
      <4>. HIDE DEF posts
      <4>. QED  BY <1>1, <4>1, VisibleFields
    <3>3. CASE ResetInactiveTimer
      <4>1. PICK enough \in BOOLEAN :
              client' = [client EXCEPT !.posts = @ - 1,
                                       !.timers = IF enough THEN @ \cup {"inactive_timer"} ELSE @]
        BY <3>3 DEF ResetInactiveTimer
      <4>. DEFINE posts == client.posts - 1
                  timers == IF enough THEN client.timers \cup {"inactive_timer"} ELSE client.timers
      <4>2. client' = [client EXCEPT !.posts = posts, !.timers = timers]
        BY <4>1
      <4>. HIDE DEF posts, timers
      <4>3. \A f \in Visible : [client EXCEPT !.posts = posts, !.timers = timers][f] = client[f]
        BY <1>1, VisibleFields
      <4>. QED  BY <4>2, <4>3
    <3>4. CASE PushRequestTimer
      BY <2>1, <3>1, <3>4 DEF PushRequestTimer
    <3>5. CASE InfoHoldTimer
      BY <1>1, <3>1, <3>5 DEF InfoHoldTimer
    <3>6. CASE InactiveTimer
      BY <1>1, <3>1, <3>6 DEF InactiveTimer
    <3>7. ~Active /\ ~ClientRecv /\ ~Breaks /\ ~ManagerStops
      BY <1>1, <2>2 DEF Active, ClientRecv, Breaks, ManagerStops
    <3>. QED  BY <2>3, <3>2, <3>3, <3>4, <3>5, <3>6, <3>7 DEF ClientStep, ClientNext
  <2>4. ~Reconnect
    BY <1>1 DEF Reconnect, Counted
  <2>5. Answers \/ OtherMessages \/ ServerStep(Ask \/ Ignore \/ Leave) => UNCHANGED client
    BY DEF Answers, OtherMessages, ServerStep
  <2>. QED  BY <1>1, <2>1, <2>3, <2>4, <2>5 DEF Next
<1>2. ASSUME SInv, PacketInv, Counted, Next, client.halt, sessions' = sessions, client'.tun # client.tun
      PROVE  client.ended \in Open
  <2>1. CASE Idle
    <3>1. "tun" \in Visible
      BY DEF Visible
    <3>. QED  BY <1>1, <1>2, <2>1, <3>1
  <2>2. CASE ~Idle
    <3>1. ClientStep(ClientRecv)
      <4>1. ~Reconnect
        BY <1>2 DEF Reconnect, Counted
      <4>2. ~Answers /\ ~OtherMessages /\ ~ServerStep(Ask \/ Ignore \/ Leave)
        BY <2>2 DEF Answers, OtherMessages, ServerStep
      <4>. QED  BY <1>2, <2>2, <4>1, <4>2 DEF Next, ClientStep, ClientNext, Active, PushRequestTimer, InfoHoldTimer,
                                              InactiveTimer, TunBytes, ResetInactiveTimer, Breaks, ManagerStops
    <3>2. toClient # <<>> /\ client.receiving /\ Head(toClient) \in PushReplies /\ ~client.relay_mode
      BY <1>2, <3>1, RecvFollows
    <3>3. 1 \in DOMAIN toClient /\ Head(toClient) = toClient[1]
      BY <1>2, <3>2 DEF SInv, ChannelInv
    <3>. QED  BY <1>2, <3>2, <3>3 DEF PacketInv, LeftInv
  <2>. QED  BY <2>1, <2>2
<1>3. SInv /\ PacketInv /\ Counted /\ [Next]_vars
      => [client.halt /\ sessions' = sessions
          => /\ Idle => \A f \in Visible : client'[f] = client[f]
             /\ client'.tun # client.tun => client.ended \in Open]_vars
  BY <1>1, <1>2
<1>. QED  BY <1>3, Inductive, PacketOrder, SessionsCounted, PTL DEF Spec, HaltIsFinal, Visible, Open

=============================================================================
