------------------------- MODULE KeyScheduleProof -------------------------
(***************************************************************************)
(* Proofs about KeySchedule.  One pass of process_events looks at the      *)
(* primary, then at the secondary; each half is first reduced to a list of *)
(* cases (PrimaryCase, SecondaryCase), and the invariant is carried from   *)
(* the state before the pass over Midway, what holds between the halves,   *)
(* to the state after it.                                                  *)
(***************************************************************************)
EXTENDS KeySchedule, TLAPS

-----------------------------------------------------------------------------
(* The inductive invariant *)

\* No key of this session waits for Decrypt-Green (see DataLimitDefer).
Plain == server \/ ~ limited

\* How late the clock may be: an event is due at 0.
Late == 1 - MaxLeap

\* What the event a key has scheduled says of its state.
KeyInv(k) ==
    /\ k.current \in {"KEV_NONE", "KEV_ACTIVE", "KEV_RENEGOTIATE_QUEUE"}
    /\ k.next \in {"KEV_NONE", "KEV_NEGOTIATE", "KEV_BECOME_PRIMARY", "KEV_PRIMARY_PENDING",
                   "KEV_RENEGOTIATE", "KEV_RENEGOTIATE_FORCE", "KEV_EXPIRE"}
    /\ k.next = "KEV_NONE" => k.invalidated
    /\ k.invalidated => k.next \in {"KEV_NONE", "KEV_EXPIRE"}
    /\ k.current = "KEV_ACTIVE" /\ ~ k.invalidated => k.next = "KEV_BECOME_PRIMARY"
    /\ k.fired => k.active
    /\ k.current = "KEV_RENEGOTIATE_QUEUE" => k.fired
    /\ k.next = "KEV_NEGOTIATE" =>
          ~ k.active /\ k.age + k.left <= HandshakeWindow /\ k.left >= Late /\ (healthy => k.left > 0)
    /\ k.next = "KEV_BECOME_PRIMARY" =>
          /\ k.active /\ k.left >= Late /\ k.left <= BecomePrimary
          /\ k.left >= 0 => k.since = BecomePrimary - k.left
          /\ k.left < 0 => k.since = BecomePrimary
    /\ k.next = "KEV_PRIMARY_PENDING" => k.active /\ ~ Plain
    /\ k.next = "KEV_RENEGOTIATE_FORCE" => server

\* The age at which the event of a key is due, if the key hit no limit.
LifeInv(k) ==
    ~ k.fired =>
    /\ k.next = "KEV_RENEGOTIATE" => k.age + k.left <= Renegotiate
    /\ k.next = "KEV_EXPIRE" => k.age + k.left <= Expire
    /\ k.next = "KEV_RENEGOTIATE_FORCE" /\ ~ k.active => k.age + k.left <= Expire + BecomePrimary + 1
    /\ k.next = "KEV_BECOME_PRIMARY" => k.age + k.left <= Expire + 2 * BecomePrimary + MaxLeap
    /\ k.next = "KEV_BECOME_PRIMARY" /\ ~ server => k.age + k.left <= Expire + BecomePrimary + MaxLeap - 1
    /\ k.next = "KEV_PRIMARY_PENDING" =>
          k.age + k.left <= Expire + BecomePrimary + 2 * MaxLeap - 2 + 2 * HandshakeWindow

\* A retiring primary has a successor.
SuccessorInv(p, s) ==
    Plain /\ p.next \in {"KEV_EXPIRE", "KEV_RENEGOTIATE_FORCE"} =>
      s # NoKey /\ (s.next \in {"KEV_NEGOTIATE", "KEV_BECOME_PRIMARY"} \/ (~ healthy /\ (errors \/ p.invalidated) /\ s.next = "KEV_NONE"))

\* A request of the secondary crosses to the primary once.
QueueInv(p, s) ==
    s # NoKey =>
    /\ s.current = "KEV_RENEGOTIATE_QUEUE" => server
    /\ s.next # "KEV_RENEGOTIATE_FORCE"
    /\ p.next = "KEV_RENEGOTIATE_FORCE" /\ s.next = "KEV_BECOME_PRIMARY" =>
          \/ s.fired /\ s.current # "KEV_RENEGOTIATE_QUEUE"
          \/ s.current = "KEV_ACTIVE"
    /\ p.next = "KEV_BECOME_PRIMARY" /\ s.next = "KEV_BECOME_PRIMARY" =>
          s.current = "KEV_ACTIVE" \/ s.left <= p.left

\* The age at which a request that crossed over is due, n being the pass.
ForcedInv(p, s, n) ==
    p.next = "KEV_RENEGOTIATE_FORCE" /\ p.active /\ ~ p.fired =>
      \/ p.age + p.left <= Expire + 2 * BecomePrimary + MaxLeap + 2
      \/ s # NoKey /\ s.next = "KEV_BECOME_PRIMARY" /\ s.left <= 0 /\ n > 0

\* An event of the secondary is raised in a session that is up.
RaisedInv(p, s) ==
    s # NoKey /\ s.current # "KEV_NONE" =>
      ~ p.invalidated /\ ~ s.invalidated /\ p.current = "KEV_NONE"

\* Before and after a handler, nothing is raised and no event is later than the clock.
IdleInv(p, s, n) ==
    n = 0 => \A k \in {p, s} \ {NoKey} : k.current = "KEV_NONE" /\ (k.next # "KEV_NONE" => k.left >= Late)

PairInv(p, s, n) ==
    /\ KeyInv(p) /\ LifeInv(p)
    /\ s # NoKey => KeyInv(s) /\ LifeInv(s)
    /\ healthy /\ Plain => ~ p.invalidated
    /\ SuccessorInv(p, s)
    /\ QueueInv(p, s)
    /\ ForcedInv(p, s, n)
    /\ RaisedInv(p, s)
    /\ IdleInv(p, s, n)

IInv == TypeOK /\ PairInv(primary, secondary, pass)

-----------------------------------------------------------------------------
(* What one key becomes *)

\* r is the key k, with what an event may change of it left open.
Like(r, k) ==
    /\ r \in Key
    /\ r.key_id = k.key_id /\ r.age = k.age /\ r.since = k.since
    /\ r.active <=> k.active
    /\ r.fired <=> k.fired

\* r is the key k with nothing raised and a new next event.
Scheduled(r, k, next, left) ==
    /\ Like(r, k)
    /\ r.invalidated <=> k.invalidated
    /\ r.current = "KEV_NONE" /\ r.next = next /\ r.left = left

\* r is the key k after kev_error: no event is left unless it was invalidated before.
Failed(r, k) ==
    /\ Like(r, k)
    /\ r.invalidated /\ r.current = "KEV_NONE"
    /\ r.next = (IF k.invalidated THEN k.next ELSE "KEV_NONE")
    /\ r.left = (IF k.invalidated THEN k.left ELSE 0)

ExpiresIn(k) == IF k.fired THEN 2 * HandshakeWindow ELSE Expire - k.age

LEMMA Constants ==
    /\ HandshakeWindow \in Nat /\ HandshakeWindow > 0 /\ BecomePrimary \in Nat
    /\ Renegotiate \in Nat /\ Expire \in Nat /\ MaxLeap \in Nat /\ MaxLeap > 0
    /\ KeyIdMask \in Nat /\ KeyIdMask > 0
    /\ MaxAge \in Nat /\ MaxAge > Expire /\ MaxAge >= HandshakeWindow
    /\ HandshakeWindow <= Renegotiate /\ Renegotiate <= Expire
BY TimeAssumption, SMT DEF MaxAge, Overrun

LEMMA KeyFields ==
    ASSUME NEW k \in Key
    PROVE  /\ k.key_id \in 0 .. KeyIdMask /\ k.age \in Nat /\ k.age \in 0 .. MaxAge
           /\ k.active \in BOOLEAN /\ k.fired \in BOOLEAN /\ k.invalidated \in BOOLEAN
           /\ k.current \in Events /\ k.next \in Events /\ k.left \in Int
           /\ k.since \in 0 .. BecomePrimary /\ k.req \in {"none", "now", "queued"} /\ k.wait \in 0 .. 3
           /\ k # NoKey
BY Constants, NoKeyAssumption, SMT DEF Key

LEMMA SetEventKey ==
    ASSUME NEW k \in Key, NEW current \in Events, NEW next \in Events, NEW left \in Int
    PROVE  /\ SetEvent(k, current, next, left) \in Key
           /\ Like(SetEvent(k, current, next, left), k)
           /\ SetEvent(k, current, next, left).invalidated <=> k.invalidated
           /\ SetEvent(k, current, next, left).current = current
           /\ SetEvent(k, current, next, left).next = next
           /\ SetEvent(k, current, next, left).left = left
<1>. DEFINE r == [k EXCEPT !.current = current, !.next = next, !.left = left]
<1>1. r \in Key
  BY Zenon DEF Key
<1>2. r.key_id = k.key_id /\ r.age = k.age /\ r.since = k.since
      /\ r.active = k.active /\ r.fired = k.fired /\ r.invalidated = k.invalidated
  BY SMT DEF Key
<1>3. r.current = current /\ r.next = next /\ r.left = left
  BY SMT DEF Key
<1>4. SetEvent(k, current, next, left) = r
  BY Zenon DEF SetEvent
<1>. HIDE DEF r
<1>. QED
  BY <1>1, <1>2, <1>3, <1>4, Zenon DEF Like

LEMMA ClearedKey ==
    ASSUME NEW k \in Key, NEW r, r = [k EXCEPT !.current = "KEV_NONE"]
    PROVE  r \in Key /\ Scheduled(r, k, k.next, k.left)
BY SMT DEF Key, Like, Scheduled, Events

LEMMA ScheduledKey ==
    ASSUME NEW k \in Key, NEW next \in Events, NEW left \in Int
    PROVE  SetEvent(k, "KEV_NONE", next, left) \in Key
           /\ Scheduled(SetEvent(k, "KEV_NONE", next, left), k, next, left)
<1>1. "KEV_NONE" \in Events
  BY DEF Events
<1>. QED
  BY <1>1, SetEventKey, SMT DEF Scheduled

LEMMA ExpireKey ==
    ASSUME NEW k \in Key, NEW ev \in Events
    PROVE  /\ ExpiresIn(k) \in Int
           /\ PrepareExpire(k, ev) = SetEvent(k, ev, "KEV_EXPIRE", ExpiresIn(k))
           /\ PrepareExpire(k, ev) \in Key
           /\ Like(PrepareExpire(k, ev), k)
           /\ PrepareExpire(k, ev).invalidated <=> k.invalidated
           /\ PrepareExpire(k, ev).current = ev
           /\ PrepareExpire(k, ev).next = "KEV_EXPIRE"
           /\ PrepareExpire(k, ev).left = ExpiresIn(k)
<1>1. ExpiresIn(k) \in Int
  BY Constants, KeyFields, SMT DEF ExpiresIn
<1>2. PrepareExpire(k, ev) = SetEvent(k, ev, "KEV_EXPIRE", ExpiresIn(k))
  BY Zenon DEF PrepareExpire, ExpiresIn
<1>3. "KEV_EXPIRE" \in Events
  BY DEF Events
<1>. HIDE DEF ExpiresIn
<1>. DEFINE r == SetEvent(k, ev, "KEV_EXPIRE", ExpiresIn(k))
<1>4. r \in Key /\ Like(r, k) /\ (r.invalidated <=> k.invalidated)
      /\ r.current = ev /\ r.next = "KEV_EXPIRE" /\ r.left = ExpiresIn(k)
  BY <1>1, <1>3, SetEventKey
<1>. QED
  BY <1>1, <1>2, <1>4, Zenon

LEMMA RetiredKey ==
    ASSUME NEW k \in Key
    PROVE  /\ PrepareExpire(k, "KEV_NONE") \in Key
           /\ Scheduled(PrepareExpire(k, "KEV_NONE"), k, "KEV_EXPIRE", ExpiresIn(k))
<1>1. "KEV_NONE" \in Events
  BY DEF Events
<1>. QED
  BY <1>1, ExpireKey, Zenon DEF Scheduled

LEMMA InvalidatedKey ==
    ASSUME NEW k \in Key
    PROVE  /\ Invalidated(k) \in Key /\ Like(Invalidated(k), k)
           /\ Invalidated(k).invalidated /\ Invalidated(k).current = k.current
           /\ Invalidated(k).next = IF k.invalidated THEN k.next ELSE "KEV_NONE"
           /\ Invalidated(k).left = IF k.invalidated THEN k.left ELSE 0
           /\ k.invalidated => Invalidated(k) = k
<1>1. CASE k.invalidated
  <2>1. Invalidated(k) = k
    BY <1>1, Zenon DEF Invalidated
  <2>2. Like(k, k)
    BY Zenon DEF Like
  <2>. QED
    BY <1>1, <2>1, <2>2, Zenon
<1>2. CASE ~ k.invalidated
  <2>1. Invalidated(k) = [k EXCEPT !.invalidated = TRUE, !.next = "KEV_NONE", !.left = 0]
    BY <1>2, Zenon DEF Invalidated
  <2>. DEFINE r == [k EXCEPT !.invalidated = TRUE, !.next = "KEV_NONE", !.left = 0]
  <2>2. r \in Key
    <3>1. "KEV_NONE" \in Events /\ TRUE \in BOOLEAN /\ 0 \in Int
      BY SMT DEF Events
    <3>. QED
      BY <3>1, Zenon DEF Key
  <2>3. r.key_id = k.key_id /\ r.age = k.age /\ r.since = k.since
        /\ r.active = k.active /\ r.fired = k.fired /\ r.current = k.current
    BY SMT DEF Key
  <2>4. r.invalidated = TRUE /\ r.next = "KEV_NONE" /\ r.left = 0
    BY SMT DEF Key
  <2>. HIDE DEF r
  <2>5. Invalidated(k) = r
    BY <2>1 DEF r
  <2>. QED
    BY <1>2, <2>2, <2>3, <2>4, <2>5, Zenon DEF Like
<1>. QED
  BY <1>1, <1>2

LEMMA ErrorKey ==
    ASSUME NEW k \in Key, NEW ev \in Events
    PROVE  /\ KevError(k, ev) \in Key /\ KevError(k, ev).current = ev
           /\ [KevError(k, ev) EXCEPT !.current = "KEV_NONE"] \in Key
           /\ Failed([KevError(k, ev) EXCEPT !.current = "KEV_NONE"], k)
<1>. DEFINE i == Invalidated(k)
            r == [i EXCEPT !.current = ev]
<1>1. i \in Key /\ Like(i, k) /\ i.invalidated
      /\ i.next = (IF k.invalidated THEN k.next ELSE "KEV_NONE")
      /\ i.left = (IF k.invalidated THEN k.left ELSE 0)
  BY InvalidatedKey
<1>. HIDE DEF i
<1>2. r \in Key /\ Like(r, i) /\ r.invalidated /\ r.current = ev /\ r.next = i.next /\ r.left = i.left
  BY <1>1, SMT DEF Key, Like
<1>3. KevError(k, ev) = r
  BY DEF KevError, i
<1>. HIDE DEF r
<1>4. Scheduled([r EXCEPT !.current = "KEV_NONE"], r, r.next, r.left) /\ [r EXCEPT !.current = "KEV_NONE"] \in Key
  BY <1>2, ClearedKey
<1>5. Failed([r EXCEPT !.current = "KEV_NONE"], k)
  BY <1>1, <1>2, <1>4, Zenon DEF Failed, Scheduled, Like
<1>. QED
  BY <1>2, <1>3, <1>4, <1>5, Zenon

LEMMA NextKeyIdRange ==
    ASSUME NEW id \in 0 .. KeyIdMask
    PROVE  NextKeyId(id) \in 1 .. KeyIdMask
<1>1. CASE id = KeyIdMask
  <2>1. (id + 1) % (KeyIdMask + 1) = 0
    BY <1>1, Constants, SMT
  <2>. QED
    BY <2>1, Constants, SMT DEF NextKeyId
<1>2. CASE id < KeyIdMask
  <2>1. (id + 1) % (KeyIdMask + 1) = id + 1
    BY <1>2, Constants, SMT
  <2>. QED
    BY <1>2, <2>1, Constants, SMT DEF NextKeyId
<1>. QED
  BY <1>1, <1>2, Constants, SMT

LEMMA NewKeyKey ==
    ASSUME NEW id \in 0 .. KeyIdMask
    PROVE  /\ NewKey(id) \in Key /\ NewKey(id) # NoKey
           /\ NewKey(id).key_id = id /\ NewKey(id).age = 0 /\ NewKey(id).since = 0
           /\ ~ NewKey(id).active /\ ~ NewKey(id).fired /\ ~ NewKey(id).invalidated
           /\ NewKey(id).current = "KEV_NONE" /\ NewKey(id).next = "KEV_NEGOTIATE"
           /\ NewKey(id).left = HandshakeWindow
<1>1. NewKey(id) \in Key
  BY Constants, SMT DEF NewKey, Key, Events
<1>2. NewKey(id) # NoKey
  BY <1>1, NoKeyAssumption, Zenon
<1>3. NewKey(id).key_id = id /\ NewKey(id).age = 0 /\ NewKey(id).since = 0
  BY SMT DEF NewKey
<1>4. ~ NewKey(id).active /\ ~ NewKey(id).fired /\ ~ NewKey(id).invalidated
  BY SMT DEF NewKey
<1>5. NewKey(id).current = "KEV_NONE" /\ NewKey(id).next = "KEV_NEGOTIATE" /\ NewKey(id).left = HandshakeWindow
  BY SMT DEF NewKey
<1>. QED
  BY <1>1, <1>2, <1>3, <1>4, <1>5, Zenon

-----------------------------------------------------------------------------
(* event_pending, and the two halves of process_events *)

\* r is what event_pending makes of the key k, q the same key after reset_event.
Popped(k, r, q) ==
    \/ k.current # "KEV_NONE" /\ r = k /\ Scheduled(q, k, k.next, k.left)
    \/ k.current = "KEV_NONE" /\ ~ Due(k) /\ r = k
    \/ /\ k.current = "KEV_NONE" /\ Due(k)
       /\ k.next = "KEV_BECOME_PRIMARY" /\ DataLimitDefer(k)
       /\ Scheduled(r, k, "KEV_PRIMARY_PENDING", 2 * HandshakeWindow)
    \/ /\ k.current = "KEV_NONE" /\ Due(k)
       /\ k.next = "KEV_BECOME_PRIMARY" /\ ~ DataLimitDefer(k)
       /\ r.current = k.next /\ Scheduled(q, k, "KEV_RENEGOTIATE", Renegotiate - k.age)
    \/ /\ k.current = "KEV_NONE" /\ Due(k)
       /\ k.next \in {"KEV_RENEGOTIATE", "KEV_RENEGOTIATE_FORCE"}
       /\ r.current = k.next /\ Scheduled(q, k, "KEV_EXPIRE", ExpiresIn(k))
    \/ /\ k.current = "KEV_NONE" /\ Due(k)
       /\ k.next \in {"KEV_NEGOTIATE", "KEV_PRIMARY_PENDING", "KEV_EXPIRE"}
       /\ r.current = k.next /\ Failed(q, k)

LEMMA Popping ==
    ASSUME NEW k \in Key, KeyInv(k)
    PROVE  /\ EventPending(k) \in Key
           /\ Popped(k, EventPending(k), [EventPending(k) EXCEPT !.current = "KEV_NONE"])
<1>. DEFINE r == EventPending(k)
            q == [r EXCEPT !.current = "KEV_NONE"]
<1>0. k.next \in {"KEV_NONE", "KEV_NEGOTIATE", "KEV_BECOME_PRIMARY", "KEV_PRIMARY_PENDING",
                  "KEV_RENEGOTIATE", "KEV_RENEGOTIATE_FORCE", "KEV_EXPIRE"}
      /\ k.next \in Events /\ k.current \in Events
  BY KeyFields DEF KeyInv
<1>1. CASE k.current # "KEV_NONE"
  <2>1. r = k
    BY <1>1, Zenon DEF EventPending
  <2>. HIDE DEF r
  <2>2. Scheduled(q, k, k.next, k.left)
    BY <2>1, ClearedKey, Zenon
  <2>. HIDE DEF q
  <2>. QED
    BY <1>1, <2>1, <2>2, Zenon DEF Popped, r, q
<1>2. CASE k.current = "KEV_NONE" /\ ~ Due(k)
  <2>1. r = k
    BY <1>2, Zenon DEF EventPending
  <2>. HIDE DEF r
  <2>. QED
    BY <1>2, <2>1, Zenon DEF Popped, r
<1>3. ASSUME k.current = "KEV_NONE", Due(k) PROVE r = ProcessNextEvent(k)
  BY <1>3, Zenon DEF EventPending
<1>4. CASE k.current = "KEV_NONE" /\ Due(k) /\ k.next = "KEV_BECOME_PRIMARY" /\ DataLimitDefer(k)
  <2>1. r = SetEvent(k, "KEV_NONE", "KEV_PRIMARY_PENDING", 2 * HandshakeWindow)
    BY <1>3, <1>4 DEF ProcessNextEvent
  <2>2. "KEV_PRIMARY_PENDING" \in Events /\ 2 * HandshakeWindow \in Int
    BY Constants, SMT DEF Events
  <2>. HIDE DEF r
  <2>3. Scheduled(r, k, "KEV_PRIMARY_PENDING", 2 * HandshakeWindow) /\ r \in Key
    BY <2>1, <2>2, ScheduledKey
  <2>. QED
    BY <1>4, <2>3, Zenon DEF Popped, r
<1>5. CASE k.current = "KEV_NONE" /\ Due(k) /\ k.next = "KEV_BECOME_PRIMARY" /\ ~ DataLimitDefer(k)
  <2>1. r = SetEvent(k, "KEV_BECOME_PRIMARY", "KEV_RENEGOTIATE", Renegotiate - k.age)
    BY <1>3, <1>5 DEF ProcessNextEvent
  <2>2. "KEV_BECOME_PRIMARY" \in Events /\ "KEV_RENEGOTIATE" \in Events /\ Renegotiate - k.age \in Int
    BY Constants, KeyFields, SMT DEF Events
  <2>. HIDE DEF r
  <2>3. r \in Key /\ Like(r, k) /\ (r.invalidated <=> k.invalidated)
        /\ r.current = "KEV_BECOME_PRIMARY" /\ r.next = "KEV_RENEGOTIATE" /\ r.left = Renegotiate - k.age
    BY <2>1, <2>2, SetEventKey
  <2>4. Scheduled(q, r, r.next, r.left)
    BY <2>3, ClearedKey
  <2>. HIDE DEF q
  <2>5. Scheduled(q, k, "KEV_RENEGOTIATE", Renegotiate - k.age)
    BY <2>3, <2>4, Zenon DEF Scheduled, Like
  <2>. QED
    BY <1>5, <2>3, <2>5, Zenon DEF Popped, r, q
<1>6. CASE k.current = "KEV_NONE" /\ Due(k) /\ k.next \in {"KEV_RENEGOTIATE", "KEV_RENEGOTIATE_FORCE"}
  <2>1. r = PrepareExpire(k, k.next)
    BY <1>3, <1>6 DEF ProcessNextEvent
  <2>. HIDE DEF r
  <2>3. r \in Key /\ Like(r, k) /\ (r.invalidated <=> k.invalidated)
        /\ r.current = k.next /\ r.next = "KEV_EXPIRE" /\ r.left = ExpiresIn(k)
    BY <1>0, <2>1, ExpireKey
  <2>4. Scheduled(q, r, r.next, r.left)
    BY <2>3, ClearedKey
  <2>. HIDE DEF q
  <2>5. Scheduled(q, k, "KEV_EXPIRE", ExpiresIn(k))
    BY <2>3, <2>4, Zenon DEF Scheduled, Like
  <2>. QED
    BY <1>6, <2>3, <2>5, Zenon DEF Popped, r, q
<1>7. CASE k.current = "KEV_NONE" /\ Due(k)
           /\ k.next \in {"KEV_NEGOTIATE", "KEV_PRIMARY_PENDING", "KEV_EXPIRE"}
  <2>1. r = KevError(k, k.next)
    BY <1>3, <1>7 DEF ProcessNextEvent
  <2>. HIDE DEF r
  <2>2. r \in Key /\ r.current = k.next /\ Failed(q, k)
    BY <1>0, <2>1, ErrorKey
  <2>. HIDE DEF q
  <2>. QED
    BY <1>7, <2>2, Zenon DEF Popped, r, q
<1>8. Due(k) => k.next # "KEV_NONE"
  BY DEF Due
<1>. QED
  BY <1>0, <1>1, <1>2, <1>4, <1>5, <1>6, <1>7, <1>8, Zenon

LEMMA CtxFields ==
    ASSUME NEW p, NEW s, NEW up
    PROVE  Ctx(p, s, up).p = p /\ Ctx(p, s, up).s = s /\ Ctx(p, s, up).up = up
BY SMT DEF Ctx

\* d is what process_events makes of the keys p and s in its first half.
PrimaryCase(p, s, up, d) ==
    \/ p.current # "KEV_NONE" /\ Scheduled(d.p, p, p.next, p.left) /\ d.s = s /\ d.up = up
    \/ p.current = "KEV_NONE" /\ ~ Due(p) /\ d.p = p /\ d.s = s /\ d.up = up
    \/ /\ p.current = "KEV_NONE" /\ Due(p)
       /\ \/ /\ p.next = "KEV_BECOME_PRIMARY" /\ DataLimitDefer(p)
             /\ Scheduled(d.p, p, "KEV_PRIMARY_PENDING", 2 * HandshakeWindow)
             /\ d.s = s /\ d.up = up
          \/ /\ p.next = "KEV_BECOME_PRIMARY" /\ ~ DataLimitDefer(p)
             /\ Scheduled(d.p, p, "KEV_RENEGOTIATE", Renegotiate - p.age)
             /\ d.s = s /\ d.up = up
          \/ /\ p.next \in {"KEV_RENEGOTIATE", "KEV_RENEGOTIATE_FORCE"}
             /\ Scheduled(d.p, p, "KEV_EXPIRE", ExpiresIn(p))
             /\ d.s = NewKey(up) /\ d.up = NextKeyId(up)
          \/ /\ p.next = "KEV_EXPIRE" /\ s # NoKey /\ ~ s.invalidated
             /\ \E q \in Key : Failed(q, p) /\ Scheduled(d.s, q, "KEV_EXPIRE", ExpiresIn(q))
             /\ d.p = s /\ d.up = up
          \/ /\ p.next = "KEV_EXPIRE" /\ (s = NoKey \/ s.invalidated)
             /\ Failed(d.p, p) /\ d.s = s /\ d.up = up
          \/ /\ p.next = "KEV_NEGOTIATE"
             /\ Failed(d.p, p) /\ d.up = up
             /\ d.s = IF s = NoKey THEN NoKey ELSE Invalidated(s)
          \/ /\ p.next = "KEV_PRIMARY_PENDING"
             /\ Failed(d.p, p) /\ d.s = s /\ d.up = up

LEMMA NothingUnspecified ==
    ASSUME NEW k, k.next # "KEV_NONE" \/ k.invalidated
    PROVE  SetNextEventIfUnspecified(k) = k
BY Zenon DEF SetNextEventIfUnspecified

LEMMA UnaskedKey ==
    ASSUME NEW k \in Key, NEW r, r = [k EXCEPT !.req = "none"]
    PROVE  /\ r \in Key /\ Like(r, k) /\ (r.invalidated <=> k.invalidated)
           /\ r.current = k.current /\ r.next = k.next /\ r.left = k.left
<1>1. "none" \in {"none", "now", "queued"}
  BY SMT
<1>2. r \in Key
  BY <1>1, Zenon DEF Key
<1>3. r.key_id = k.key_id /\ r.age = k.age /\ r.since = k.since
      /\ r.active = k.active /\ r.fired = k.fired /\ r.invalidated = k.invalidated
      /\ r.current = k.current /\ r.next = k.next /\ r.left = k.left
  BY SMT DEF Key
<1>. QED
  BY <1>2, <1>3, Zenon DEF Like

LEMMA FirstHalf ==
    ASSUME NEW p \in Key, NEW s \in Key \cup {NoKey}, NEW up \in 1 .. KeyIdMask,
           KeyInv(p), s # NoKey => KeyInv(s)
    PROVE  PrimaryCase(p, s, up, ProcessPrimaryEvent(Ctx(p, s, up)))
<1>. DEFINE r == EventPending(p)
            q == [r EXCEPT !.current = "KEV_NONE"]
            c == Ctx(q, s, up)
            e == PrimaryEvent(c, r.current)
            b == Ctx(p, s, up)
            d == ProcessPrimaryEvent(b)
<1>0. b.p = p /\ b.s = s /\ b.up = up
  BY CtxFields
<1>1. r \in Key /\ Popped(p, r, q)
  BY Popping
<1>2. q \in Key
  BY <1>1, ClearedKey
<1>3. c.p = q /\ c.s = s /\ c.up = up
  BY CtxFields
<1>. HIDE DEF b
<1>4. d = LET k == EventPending(b.p)
              f == PrimaryEvent(Ctx([k EXCEPT !.current = "KEV_NONE"], b.s, b.up), k.current)
          IN  IF k.current = "KEV_NONE"
                THEN Ctx(k, b.s, b.up)
                ELSE Ctx(SetNextEventIfUnspecified(f.p), f.s, f.up)
  BY Zenon DEF ProcessPrimaryEvent
<1>5. d = IF r.current = "KEV_NONE" THEN Ctx(r, s, up)
          ELSE Ctx(SetNextEventIfUnspecified(e.p), e.s, e.up)
  BY <1>0, <1>4
<1>6. /\ p.next = "KEV_NONE" => p.invalidated
      /\ p.invalidated => p.next \in {"KEV_NONE", "KEV_EXPIRE"}
      /\ p.current \in {"KEV_NONE", "KEV_ACTIVE", "KEV_RENEGOTIATE_QUEUE"}
  BY DEF KeyInv
<1>. HIDE DEF r, q, c, d
<1>. SUFFICES PrimaryCase(p, s, up, d)
  BY DEF b, d
<1>7. CASE p.current # "KEV_NONE"
  <2>1. r = p /\ Scheduled(q, p, p.next, p.left)
    BY <1>1, <1>7, Zenon DEF Popped
  <2>2. e = c
    BY <1>6, <1>7, <2>1 DEF PrimaryEvent
  <2>3. q.next # "KEV_NONE" \/ q.invalidated
    BY <1>6, <2>1 DEF Scheduled
  <2>4. d = Ctx(q, s, up)
    BY <1>3, <1>5, <1>7, <2>1, <2>2, <2>3, NothingUnspecified, Zenon
  <2>9. d.p = q /\ d.s = s /\ d.up = up
    BY <2>4, CtxFields
  <2>. QED
    BY <1>7, <2>1, <2>9, Zenon DEF PrimaryCase
<1>8. CASE p.current = "KEV_NONE" /\ ~ Due(p)
  <2>1. r = p
    BY <1>1, <1>8, Zenon DEF Popped
  <2>2. d.p = p /\ d.s = s /\ d.up = up
    BY <1>5, <1>8, <2>1, CtxFields
  <2>. QED
    BY <1>8, <2>2, Zenon DEF PrimaryCase
<1>9. CASE p.current = "KEV_NONE" /\ Due(p)
  <2>1. CASE p.next = "KEV_BECOME_PRIMARY" /\ DataLimitDefer(p)
    <3>1. Scheduled(r, p, "KEV_PRIMARY_PENDING", 2 * HandshakeWindow)
      BY <1>1, <1>9, <2>1 DEF Popped
    <3>2. d = Ctx(r, s, up)
      BY <1>5, <3>1, Zenon DEF Scheduled
    <3>9. d.p = r /\ d.s = s /\ d.up = up
      BY <3>2, CtxFields
    <3>. QED
      BY <1>9, <2>1, <3>1, <3>9, Zenon DEF PrimaryCase
  <2>2. CASE p.next = "KEV_BECOME_PRIMARY" /\ ~ DataLimitDefer(p)
    <3>1. r.current = p.next /\ Scheduled(q, p, "KEV_RENEGOTIATE", Renegotiate - p.age)
      BY <1>1, <1>9, <2>2 DEF Popped
    <3>2. e = c
      BY <2>2, <3>1 DEF PrimaryEvent
    <3>3. q.next # "KEV_NONE"
      BY <3>1 DEF Scheduled
    <3>4. d = Ctx(q, s, up)
      BY <1>3, <1>5, <2>2, <3>1, <3>2, <3>3, NothingUnspecified
    <3>9. d.p = q /\ d.s = s /\ d.up = up
      BY <3>4, CtxFields
    <3>. QED
      BY <1>9, <2>2, <3>1, <3>9, Zenon DEF PrimaryCase
  <2>3. CASE p.next \in {"KEV_RENEGOTIATE", "KEV_RENEGOTIATE_FORCE"}
    <3>. DEFINE u == [q EXCEPT !.req = "none"]
    <3>1. r.current = p.next /\ Scheduled(q, p, "KEV_EXPIRE", ExpiresIn(p))
      BY <1>1, <1>9, <2>3 DEF Popped
    <3>2. e = Ctx(u, NewKey(up), NextKeyId(up))
      <4>1. e = NewSecondary(c)
        BY <2>3, <3>1 DEF PrimaryEvent
      <4>. QED
        BY <1>3, <4>1, Zenon DEF NewSecondary
    <3>3. Scheduled(u, p, "KEV_EXPIRE", ExpiresIn(p))
      <4>1. u \in Key /\ Like(u, q) /\ (u.invalidated <=> q.invalidated)
            /\ u.current = q.current /\ u.next = q.next /\ u.left = q.left
        BY <1>2, UnaskedKey
      <4>. HIDE DEF u
      <4>. QED
        BY <3>1, <4>1, Zenon DEF Scheduled, Like
    <3>. HIDE DEF u
    <3>4. u.next # "KEV_NONE"
      BY <3>3 DEF Scheduled
    <3>5. d = Ctx(u, NewKey(up), NextKeyId(up))
      BY <1>5, <2>3, <3>1, <3>2, <3>4, NothingUnspecified, CtxFields
    <3>9. d.p = u /\ d.s = NewKey(up) /\ d.up = NextKeyId(up)
      BY <3>5, CtxFields
    <3>. QED
      BY <1>9, <2>3, <3>3, <3>9, Zenon DEF PrimaryCase
  <2>4. CASE p.next = "KEV_EXPIRE" /\ s # NoKey /\ ~ s.invalidated
    <3>1. r.current = "KEV_EXPIRE" /\ Failed(q, p)
      BY <1>1, <1>9, <2>4 DEF Popped
    <3>2. e = Ctx(s, PrepareExpire(q, "KEV_NONE"), up)
      <4>1. e = PromoteSecondaryToPrimary(c)
        BY <1>3, <2>4, <3>1 DEF PrimaryEvent
      <4>. QED
        BY <1>3, <4>1, Zenon DEF PromoteSecondaryToPrimary
    <3>3. Scheduled(PrepareExpire(q, "KEV_NONE"), q, "KEV_EXPIRE", ExpiresIn(q))
      BY <1>2, RetiredKey
    <3>4. s.next # "KEV_NONE"
      BY <2>4 DEF KeyInv
    <3>5. d = Ctx(s, PrepareExpire(q, "KEV_NONE"), up)
      BY <1>5, <3>1, <3>2, <3>4, NothingUnspecified, CtxFields
    <3>6. d.s = PrepareExpire(q, "KEV_NONE") /\ d.p = s /\ d.up = up
      BY <3>5, CtxFields
    <3>7. \E z \in Key : Failed(z, p) /\ Scheduled(d.s, z, "KEV_EXPIRE", ExpiresIn(z))
      BY <1>2, <3>1, <3>3, <3>6
    <3>. QED
      BY <1>9, <2>4, <3>6, <3>7, Zenon DEF PrimaryCase
  <2>5. ASSUME e = Disconnect(c), r.current # "KEV_NONE", Failed(q, p)
        PROVE  d = Ctx(q, IF s = NoKey THEN NoKey ELSE Invalidated(s), up)
    <3>1. q.invalidated
      BY <2>5 DEF Failed
    <3>2. Invalidated(q) = q
      BY <3>1, Zenon DEF Invalidated
    <3>3. e = Ctx(q, IF s = NoKey THEN NoKey ELSE Invalidated(s), up)
      BY <1>3, <2>5, <3>2, Zenon DEF Disconnect
    <3>4. e.p = q /\ e.s = (IF s = NoKey THEN NoKey ELSE Invalidated(s)) /\ e.up = up
      BY <3>3, CtxFields
    <3>. QED
      BY <1>5, <2>5, <3>1, <3>4, NothingUnspecified, Zenon
  <2>6. CASE p.next = "KEV_EXPIRE" /\ (s = NoKey \/ s.invalidated)
    <3>1. r.current = "KEV_EXPIRE" /\ Failed(q, p)
      BY <1>1, <1>9, <2>6 DEF Popped
    <3>2. e = Disconnect(c)
      BY <1>3, <2>6, <3>1 DEF PrimaryEvent
    <3>3. s # NoKey => Invalidated(s) = s
      BY <2>6, Zenon DEF Invalidated
    <3>4. d = Ctx(q, s, up)
      BY <2>5, <3>1, <3>2, <3>3
    <3>9. d.p = q /\ d.s = s /\ d.up = up
      BY <3>4, CtxFields
    <3>. QED
      BY <1>9, <2>6, <3>1, <3>9, Zenon DEF PrimaryCase
  <2>7. CASE p.next = "KEV_NEGOTIATE"
    <3>1. r.current = "KEV_NEGOTIATE" /\ Failed(q, p)
      BY <1>1, <1>9, <2>7 DEF Popped
    <3>2. e = Disconnect(c)
      BY <3>1 DEF PrimaryEvent
    <3>3. d = Ctx(q, IF s = NoKey THEN NoKey ELSE Invalidated(s), up)
      BY <2>5, <3>1, <3>2
    <3>9. d.p = q /\ d.s = (IF s = NoKey THEN NoKey ELSE Invalidated(s)) /\ d.up = up
      BY <3>3, CtxFields
    <3>. QED
      BY <1>9, <2>7, <3>1, <3>9, Zenon DEF PrimaryCase
  <2>8. CASE p.next = "KEV_PRIMARY_PENDING"
    <3>1. r.current = "KEV_PRIMARY_PENDING" /\ Failed(q, p)
      BY <1>1, <1>9, <2>8 DEF Popped
    <3>2. e = c
      BY <3>1 DEF PrimaryEvent
    <3>3. q.invalidated
      BY <3>1 DEF Failed
    <3>4. d = Ctx(q, s, up)
      BY <1>3, <1>5, <3>1, <3>2, <3>3, NothingUnspecified
    <3>9. d.p = q /\ d.s = s /\ d.up = up
      BY <3>4, CtxFields
    <3>. QED
      BY <1>9, <2>8, <3>1, <3>9, Zenon DEF PrimaryCase
  <2>9. p.next \in {"KEV_BECOME_PRIMARY", "KEV_RENEGOTIATE", "KEV_RENEGOTIATE_FORCE", "KEV_EXPIRE",
                    "KEV_NEGOTIATE", "KEV_PRIMARY_PENDING"}
    BY <1>9 DEF KeyInv, Due
  <2>. QED
    BY <2>1, <2>2, <2>3, <2>4, <2>6, <2>7, <2>8, <2>9, Zenon
<1>. QED
  BY <1>7, <1>8, <1>9, Zenon

\* r is the key k, with its events.
Same(r, k) ==
    /\ Like(r, k)
    /\ r.invalidated <=> k.invalidated
    /\ r.current = k.current /\ r.next = k.next /\ r.left = k.left

\* d is what process_events makes of the keys p and s in its second half.
SecondaryCase(p, s, up, d) ==
    \/ /\ s.current = "KEV_ACTIVE"
       /\ Scheduled(d.p, p, "KEV_EXPIRE", ExpiresIn(p)) /\ Scheduled(d.s, s, s.next, s.left)
       /\ d.up = up
    \/ /\ s.current = "KEV_RENEGOTIATE_QUEUE" /\ s.next = "KEV_BECOME_PRIMARY"
       /\ Scheduled(d.p, p, "KEV_RENEGOTIATE_FORCE", s.left + LimitDelay)
       /\ Scheduled(d.s, s, s.next, s.left) /\ d.up = up
    \/ /\ s.current = "KEV_RENEGOTIATE_QUEUE" /\ s.next # "KEV_BECOME_PRIMARY"
       /\ d.p = p /\ Scheduled(d.s, s, s.next, s.left) /\ d.up = up
    \/ s.current = "KEV_NONE" /\ ~ Due(s) /\ d.p = p /\ d.s = s /\ d.up = up
    \/ /\ s.current = "KEV_NONE" /\ Due(s)
       /\ \/ /\ s.next = "KEV_BECOME_PRIMARY" /\ DataLimitDefer(s)
             /\ d.p = p /\ Scheduled(d.s, s, "KEV_PRIMARY_PENDING", 2 * HandshakeWindow)
             /\ d.up = up
          \/ /\ s.next = "KEV_BECOME_PRIMARY" /\ ~ DataLimitDefer(s)
             /\ Scheduled(d.p, s, "KEV_RENEGOTIATE", Renegotiate - s.age)
             /\ Scheduled(d.s, p, "KEV_EXPIRE", ExpiresIn(p)) /\ d.up = up
          \/ /\ s.next = "KEV_RENEGOTIATE"
             /\ d.p = p /\ Scheduled(d.s, s, "KEV_EXPIRE", ExpiresIn(s)) /\ d.up = up
          \/ /\ s.next \in {"KEV_NEGOTIATE", "KEV_PRIMARY_PENDING", "KEV_RENEGOTIATE_FORCE"}
             /\ Same(d.p, p) /\ d.s = NewKey(up) /\ d.up = NextKeyId(up)
          \/ s.next = "KEV_EXPIRE" /\ d.p = p /\ d.s = NoKey /\ d.up = up

LEMMA SecondHalf ==
    ASSUME NEW p \in Key, NEW s \in Key, NEW up \in 1 .. KeyIdMask, KeyInv(s)
    PROVE  SecondaryCase(p, s, up, ProcessSecondaryEvent(Ctx(p, s, up)))
<1>. DEFINE r == EventPending(s)
            q == [r EXCEPT !.current = "KEV_NONE"]
            c == Ctx(p, q, up)
            e == SecondaryEvent(c, r.current)
            b == Ctx(p, s, up)
            d == ProcessSecondaryEvent(b)
<1>0. b.p = p /\ b.s = s /\ b.up = up /\ s # NoKey
  BY CtxFields, KeyFields
<1>1. r \in Key /\ Popped(s, r, q)
  BY Popping
<1>2. q \in Key /\ q # NoKey
  BY <1>1, ClearedKey, KeyFields
<1>3. c.p = p /\ c.s = q /\ c.up = up
  BY CtxFields
<1>. HIDE DEF b
<1>4. d = LET k == EventPending(b.s)
              f == SecondaryEvent(Ctx(b.p, [k EXCEPT !.current = "KEV_NONE"], b.up), k.current)
          IN  IF k.current = "KEV_NONE"
                THEN Ctx(b.p, k, b.up)
                ELSE Ctx(f.p, IF f.s = NoKey THEN NoKey ELSE SetNextEventIfUnspecified(f.s), f.up)
  BY <1>0, Zenon DEF ProcessSecondaryEvent
<1>5. d = IF r.current = "KEV_NONE" THEN Ctx(p, r, up)
          ELSE Ctx(e.p, IF e.s = NoKey THEN NoKey ELSE SetNextEventIfUnspecified(e.s), e.up)
  BY <1>0, <1>4
<1>6. /\ s.next = "KEV_NONE" => s.invalidated
      /\ s.invalidated => s.next \in {"KEV_NONE", "KEV_EXPIRE"}
      /\ s.current \in {"KEV_NONE", "KEV_ACTIVE", "KEV_RENEGOTIATE_QUEUE"}
  BY DEF KeyInv
<1>. HIDE DEF r, q, c, d
<1>. SUFFICES SecondaryCase(p, s, up, d)
  BY DEF b, d
<1>7. ASSUME NEW x, NEW y, NEW z, e = Ctx(x, y, z), r.current # "KEV_NONE",
             y = NoKey \/ y.next # "KEV_NONE" \/ y.invalidated
      PROVE  d.p = x /\ d.s = y /\ d.up = z
  <2>1. e.p = x /\ e.s = y /\ e.up = z
    BY <1>7, CtxFields
  <2>2. d = Ctx(x, IF y = NoKey THEN NoKey ELSE SetNextEventIfUnspecified(y), z)
    BY <1>5, <1>7, <2>1, Zenon
  <2>3. d = Ctx(x, y, z)
    BY <1>7, <2>2, NothingUnspecified, Zenon
  <2>. QED
    BY <2>3, CtxFields
<1>8. CASE s.current # "KEV_NONE"
  <2>1. r = s /\ Scheduled(q, s, s.next, s.left)
    BY <1>1, <1>8, Zenon DEF Popped
  <2>2. q.next # "KEV_NONE" \/ q.invalidated
    BY <1>6, <2>1 DEF Scheduled
  <2>3. CASE s.current = "KEV_ACTIVE"
    <3>1. e = Ctx(PrepareExpire(p, "KEV_NONE"), q, up)
      BY <1>3, <2>1, <2>3 DEF SecondaryEvent
    <3>2. d.p = PrepareExpire(p, "KEV_NONE") /\ d.s = q /\ d.up = up
      BY <1>7, <1>8, <2>1, <2>2, <3>1
    <3>3. Scheduled(d.p, p, "KEV_EXPIRE", ExpiresIn(p))
      BY <3>2, RetiredKey
    <3>. QED
      BY <2>1, <2>3, <3>2, <3>3, Zenon DEF SecondaryCase
  <2>4. CASE s.current = "KEV_RENEGOTIATE_QUEUE" /\ s.next = "KEV_BECOME_PRIMARY"
    <3>1. q.next = "KEV_BECOME_PRIMARY" /\ q.left = s.left
      BY <2>1, <2>4 DEF Scheduled
    <3>2. e = Ctx(SetEvent(p, "KEV_NONE", "KEV_RENEGOTIATE_FORCE", s.left + LimitDelay), q, up)
      BY <1>3, <2>1, <2>4, <3>1 DEF SecondaryEvent
    <3>3. d.p = SetEvent(p, "KEV_NONE", "KEV_RENEGOTIATE_FORCE", s.left + LimitDelay) /\ d.s = q /\ d.up = up
      BY <1>7, <1>8, <2>1, <2>2, <3>2
    <3>4. "KEV_RENEGOTIATE_FORCE" \in Events /\ s.left + LimitDelay \in Int
      BY KeyFields, SMT DEF Events, LimitDelay
    <3>5. Scheduled(d.p, p, "KEV_RENEGOTIATE_FORCE", s.left + LimitDelay)
      BY <3>3, <3>4, ScheduledKey
    <3>. QED
      BY <2>1, <2>4, <3>3, <3>5, Zenon DEF SecondaryCase
  <2>5. CASE s.current = "KEV_RENEGOTIATE_QUEUE" /\ s.next # "KEV_BECOME_PRIMARY"
    <3>1. q.next # "KEV_BECOME_PRIMARY"
      BY <2>1, <2>5 DEF Scheduled
    <3>2. e = Ctx(p, q, up)
      BY <2>1, <2>5, <3>1, <1>3 DEF SecondaryEvent, c
    <3>3. d.p = p /\ d.s = q /\ d.up = up
      BY <1>7, <1>8, <2>1, <2>2, <3>2
    <3>. QED
      BY <2>1, <2>5, <3>3, Zenon DEF SecondaryCase
  <2>. QED
    BY <1>6, <1>8, <2>3, <2>4, <2>5, Zenon
<1>9. CASE s.current = "KEV_NONE" /\ ~ Due(s)
  <2>1. r = s
    BY <1>1, <1>9, Zenon DEF Popped
  <2>2. d.p = p /\ d.s = s /\ d.up = up
    BY <1>5, <1>9, <2>1, CtxFields
  <2>. QED
    BY <1>9, <2>2, Zenon DEF SecondaryCase
<1>10. CASE s.current = "KEV_NONE" /\ Due(s)
  <2>1. CASE s.next = "KEV_BECOME_PRIMARY" /\ DataLimitDefer(s)
    <3>1. Scheduled(r, s, "KEV_PRIMARY_PENDING", 2 * HandshakeWindow)
      BY <1>1, <1>10, <2>1 DEF Popped
    <3>2. d = Ctx(p, r, up)
      BY <1>5, <3>1, Zenon DEF Scheduled
    <3>3. d.p = p /\ d.s = r /\ d.up = up
      BY <3>2, CtxFields
    <3>. QED
      BY <1>10, <2>1, <3>1, <3>3, Zenon DEF SecondaryCase
  <2>2. CASE s.next = "KEV_BECOME_PRIMARY" /\ ~ DataLimitDefer(s)
    <3>1. r.current = "KEV_BECOME_PRIMARY" /\ Scheduled(q, s, "KEV_RENEGOTIATE", Renegotiate - s.age)
      BY <1>1, <1>10, <2>2 DEF Popped
    <3>2. ~ q.invalidated
      BY <1>6, <2>2, <3>1 DEF Scheduled
    <3>3. e = Ctx(q, PrepareExpire(p, "KEV_NONE"), up)
      BY <1>3, <3>1, <3>2 DEF SecondaryEvent, PromoteSecondaryToPrimary
    <3>4. Scheduled(PrepareExpire(p, "KEV_NONE"), p, "KEV_EXPIRE", ExpiresIn(p))
      BY RetiredKey
    <3>5. PrepareExpire(p, "KEV_NONE").next # "KEV_NONE"
      BY <3>4 DEF Scheduled
    <3>6. d.p = q /\ d.s = PrepareExpire(p, "KEV_NONE") /\ d.up = up
      BY <1>7, <3>1, <3>3, <3>5
    <3>. QED
      BY <1>10, <2>2, <3>1, <3>4, <3>6, Zenon DEF SecondaryCase
  <2>3. CASE s.next = "KEV_RENEGOTIATE"
    <3>1. r.current = "KEV_RENEGOTIATE" /\ Scheduled(q, s, "KEV_EXPIRE", ExpiresIn(s))
      BY <1>1, <1>10, <2>3 DEF Popped
    <3>2. e = Ctx(p, q, up)
      BY <3>1 DEF SecondaryEvent, c
    <3>3. q.next # "KEV_NONE"
      BY <3>1 DEF Scheduled
    <3>4. d.p = p /\ d.s = q /\ d.up = up
      BY <1>7, <3>1, <3>2, <3>3
    <3>. QED
      BY <1>10, <2>3, <3>1, <3>4, Zenon DEF SecondaryCase
  <2>4. CASE s.next \in {"KEV_NEGOTIATE", "KEV_PRIMARY_PENDING", "KEV_RENEGOTIATE_FORCE"}
    <3>. DEFINE u == [p EXCEPT !.req = "none"]
    <3>1. r.current = s.next
      BY <1>1, <1>10, <2>4 DEF Popped
    <3>2. e = Ctx(u, NewKey(up), NextKeyId(up))
      <4>1. e = NewSecondary(c)
        BY <2>4, <3>1 DEF SecondaryEvent
      <4>. QED
        BY <1>3, <4>1, Zenon DEF NewSecondary
    <3>3. Same(u, p)
      <4>1. u \in Key /\ Like(u, p) /\ (u.invalidated <=> p.invalidated)
            /\ u.current = p.current /\ u.next = p.next /\ u.left = p.left
        BY UnaskedKey
      <4>. HIDE DEF u
      <4>. QED
        BY <4>1, Zenon DEF Same
    <3>. HIDE DEF u
    <3>4. NewKey(up).next # "KEV_NONE"
      BY NewKeyKey, Constants, SMT
    <3>5. d.p = u /\ d.s = NewKey(up) /\ d.up = NextKeyId(up)
      BY <1>7, <2>4, <3>1, <3>2, <3>4
    <3>. QED
      BY <1>10, <2>4, <3>3, <3>5, Zenon DEF SecondaryCase
  <2>5. CASE s.next = "KEV_EXPIRE"
    <3>1. r.current = "KEV_EXPIRE"
      BY <1>1, <1>10, <2>5 DEF Popped
    <3>2. e = Ctx(p, NoKey, up)
      BY <1>3, <3>1 DEF SecondaryEvent
    <3>3. d.p = p /\ d.s = NoKey /\ d.up = up
      BY <1>7, <3>1, <3>2
    <3>. QED
      BY <1>10, <2>5, <3>3, Zenon DEF SecondaryCase
  <2>6. s.next \in {"KEV_BECOME_PRIMARY", "KEV_RENEGOTIATE", "KEV_RENEGOTIATE_FORCE", "KEV_EXPIRE",
                    "KEV_NEGOTIATE", "KEV_PRIMARY_PENDING"}
    BY <1>10 DEF KeyInv, Due
  <2>. QED
    BY <2>1, <2>2, <2>3, <2>4, <2>5, <2>6, Zenon
<1>. QED
  BY <1>8, <1>9, <1>10, Zenon

-----------------------------------------------------------------------------
(* The invariant of a key is kept by what may become of it *)

LEMMA ClearedInv ==
    ASSUME NEW k \in Key, NEW r, KeyInv(k), LifeInv(k), Scheduled(r, k, k.next, k.left)
    PROVE  KeyInv(r) /\ LifeInv(r)
<1>1. KeyInv(r)
  BY SMT DEF KeyInv, Scheduled, Like
<1>2. LifeInv(r)
  BY SMT DEF LifeInv, Scheduled, Like
<1>. QED
  BY <1>1, <1>2

LEMMA SameInv ==
    ASSUME NEW k \in Key, NEW r, KeyInv(k), LifeInv(k), Same(r, k)
    PROVE  KeyInv(r) /\ LifeInv(r)
<1>1. KeyInv(r)
  BY SMT DEF KeyInv, Same, Like
<1>2. LifeInv(r)
  BY SMT DEF LifeInv, Same, Like
<1>. QED
  BY <1>1, <1>2

LEMMA RetiredInv ==
    ASSUME NEW k \in Key, NEW r, KeyInv(k), Scheduled(r, k, "KEV_EXPIRE", ExpiresIn(k))
    PROVE  KeyInv(r) /\ LifeInv(r)
<1>1. KeyInv(r)
  BY SMT DEF KeyInv, Scheduled, Like
<1>2. LifeInv(r)
  BY Constants, KeyFields, SMT DEF LifeInv, Scheduled, Like, ExpiresIn
<1>. QED
  BY <1>1, <1>2

LEMMA FailedInv ==
    ASSUME NEW k \in Key, NEW r, KeyInv(k), LifeInv(k), Failed(r, k)
    PROVE  KeyInv(r) /\ LifeInv(r)
<1>1. KeyInv(r)
  BY SMT DEF KeyInv, Failed, Like
<1>2. LifeInv(r)
  BY SMT DEF LifeInv, Failed, Like, KeyInv
<1>. QED
  BY <1>1, <1>2

LEMMA InvalidatedInv ==
    ASSUME NEW k \in Key, KeyInv(k), LifeInv(k)
    PROVE  KeyInv(Invalidated(k)) /\ LifeInv(Invalidated(k))
<1>. DEFINE r == Invalidated(k)
<1>1. /\ r \in Key /\ Like(r, k) /\ r.invalidated /\ r.current = k.current
      /\ r.next = (IF k.invalidated THEN k.next ELSE "KEV_NONE")
      /\ r.left = (IF k.invalidated THEN k.left ELSE 0)
  BY InvalidatedKey
<1>. HIDE DEF r
<1>2. KeyInv(r)
  BY <1>1, SMT DEF KeyInv, Like
<1>3. LifeInv(r)
  BY <1>1, SMT DEF LifeInv, Like, KeyInv
<1>. QED
  BY <1>2, <1>3 DEF r

LEMMA BegunInv ==
    ASSUME NEW k \in Key, NEW r, KeyInv(k), k.next = "KEV_BECOME_PRIMARY",
           Scheduled(r, k, "KEV_RENEGOTIATE", Renegotiate - k.age)
    PROVE  KeyInv(r) /\ LifeInv(r) /\ ~ r.invalidated
<1>1. KeyInv(r) /\ ~ r.invalidated
  BY SMT DEF KeyInv, Scheduled, Like
<1>2. LifeInv(r)
  BY Constants, KeyFields, SMT DEF LifeInv, Scheduled, Like
<1>. QED
  BY <1>1, <1>2

LEMMA DeferredInv ==
    ASSUME NEW k \in Key, NEW r, KeyInv(k), LifeInv(k), k.next = "KEV_BECOME_PRIMARY", DataLimitDefer(k),
           Scheduled(r, k, "KEV_PRIMARY_PENDING", 2 * HandshakeWindow)
    PROVE  KeyInv(r) /\ LifeInv(r) /\ ~ r.invalidated
<1>1. KeyInv(r) /\ ~ r.invalidated
  BY SMT DEF KeyInv, Scheduled, Like, DataLimitDefer, Plain
<1>2. LifeInv(r)
  BY Constants, KeyFields, SMT DEF LifeInv, KeyInv, Late, Scheduled, Like, DataLimitDefer
<1>. QED
  BY <1>1, <1>2

LEMMA NewKeyInv ==
    ASSUME NEW id \in 0 .. KeyIdMask
    PROVE  KeyInv(NewKey(id)) /\ LifeInv(NewKey(id))
<1>. DEFINE r == NewKey(id)
<1>1. /\ r.age = 0 /\ r.since = 0 /\ ~ r.active /\ ~ r.fired /\ ~ r.invalidated
      /\ r.current = "KEV_NONE" /\ r.next = "KEV_NEGOTIATE" /\ r.left = HandshakeWindow
  BY NewKeyKey
<1>. HIDE DEF r
<1>2. KeyInv(r)
  BY <1>1, Constants, SMT DEF KeyInv, Late
<1>3. LifeInv(r)
  BY <1>1, SMT DEF LifeInv
<1>. QED
  BY <1>2, <1>3 DEF r

-----------------------------------------------------------------------------
(* Between the two halves of a pass *)

\* An event of the secondary that is still raised after the first half.
RaisedMidway(p, s) ==
    s # NoKey /\ s.current # "KEV_NONE" =>
    /\ p.current = "KEV_NONE"
    /\ s.invalidated => s.next = "KEV_NONE" /\ ~ (healthy /\ Plain) /\ p.invalidated
    /\ p.invalidated => s.invalidated \/ ~ server
    /\ s.current = "KEV_RENEGOTIATE_QUEUE" /\ s.next = "KEV_BECOME_PRIMARY" /\ ~ p.fired =>
          \/ p.age < Expire
          \/ p.active /\ s.left <= 0
          \/ p.active /\ p.age + s.left <= Expire + 2 * BecomePrimary + MaxLeap

Midway(p, s) ==
    /\ p \in Key /\ s \in Key \cup {NoKey}
    /\ KeyInv(p) /\ LifeInv(p)
    /\ s # NoKey => KeyInv(s) /\ LifeInv(s)
    /\ healthy /\ Plain => ~ p.invalidated
    /\ SuccessorInv(p, s)
    /\ QueueInv(p, s)
    /\ ForcedInv(p, s, 1)
    /\ RaisedMidway(p, s)

LEMMA MidwayHolds ==
    ASSUME NEW p \in Key, NEW s \in Key \cup {NoKey}, NEW up \in 1 .. KeyIdMask, NEW n \in Nat,
           PairInv(p, s, n), NEW d, PrimaryCase(p, s, up, d)
    PROVE  Midway(d.p, d.s) /\ d.up \in 1 .. KeyIdMask
<1>. DEFINE p2 == d.p
            s2 == d.s
<1>1. /\ KeyInv(p) /\ LifeInv(p) /\ (s # NoKey => KeyInv(s) /\ LifeInv(s))
      /\ (healthy /\ Plain => ~ p.invalidated)
      /\ SuccessorInv(p, s) /\ QueueInv(p, s) /\ ForcedInv(p, s, n) /\ RaisedInv(p, s)
  BY DEF PairInv
<1>2. ForcedInv(p, s, 1)
  BY <1>1 DEF ForcedInv
<1>3. /\ p.age \in Nat /\ p.left \in Int /\ p # NoKey /\ p.invalidated \in BOOLEAN /\ p.fired \in BOOLEAN /\ p.active \in BOOLEAN
      /\ (s # NoKey => s \in Key /\ s.age \in Nat /\ s.left \in Int /\ s.invalidated \in BOOLEAN)
  BY KeyFields
<1>. HIDE DEF p2, s2
<1>4. CASE p.current # "KEV_NONE" /\ Scheduled(p2, p, p.next, p.left) /\ s2 = s /\ d.up = up
  <2>1. KeyInv(p2) /\ LifeInv(p2) /\ p2 \in Key
    BY <1>1, <1>4, ClearedInv DEF Scheduled, Like
  <2>2. (healthy /\ Plain => ~ p2.invalidated) /\ SuccessorInv(p2, s2) /\ QueueInv(p2, s2)
    BY <1>1, <1>4, SMT DEF SuccessorInv, QueueInv, Scheduled, Like
  <2>3. ForcedInv(p2, s2, 1)
    BY <1>2, <1>4, SMT DEF ForcedInv, Scheduled, Like
  <2>4. RaisedMidway(p2, s2)
    BY <1>1, <1>4, SMT DEF RaisedInv, RaisedMidway
  <2>. QED
    BY <1>1, <1>4, <2>1, <2>2, <2>3, <2>4 DEF Midway, p2, s2
<1>5. CASE p.current = "KEV_NONE" /\ ~ Due(p) /\ p2 = p /\ s2 = s /\ d.up = up
  <2>1. RaisedMidway(p, s)
    <3>. SUFFICES ASSUME s # NoKey, s.current = "KEV_RENEGOTIATE_QUEUE", s.next = "KEV_BECOME_PRIMARY", ~ p.fired,
                         p.age >= Expire
                  PROVE  \/ p.active /\ s.left <= 0
                         \/ p.active /\ p.age + s.left <= Expire + 2 * BecomePrimary + MaxLeap
      BY <1>1, <1>3, <1>5, Constants, SMT DEF RaisedInv, RaisedMidway
    <3>1. server /\ p.next # "KEV_RENEGOTIATE_FORCE" /\ ~ p.invalidated
          /\ (p.next = "KEV_BECOME_PRIMARY" => s.left <= p.left)
      BY <1>1, SMT DEF QueueInv, RaisedInv
    <3>2. p.next # "KEV_NONE" /\ p.next # "KEV_PRIMARY_PENDING" /\ p.left > 0
      BY <1>1, <1>3, <1>5, <3>1, SMT DEF KeyInv, Plain, Due
    <3>3. p.next = "KEV_BECOME_PRIMARY" /\ p.active
      BY <1>1, <1>3, <3>1, <3>2, Constants, SMT DEF KeyInv, LifeInv
    <3>. QED
      BY <1>1, <1>3, <3>1, <3>3, Constants, SMT DEF LifeInv
  <2>. QED
    BY <1>1, <1>2, <1>5, <2>1 DEF Midway, p2, s2
<1>6. CASE /\ p.current = "KEV_NONE" /\ Due(p) /\ p.next = "KEV_BECOME_PRIMARY" /\ DataLimitDefer(p)
           /\ Scheduled(p2, p, "KEV_PRIMARY_PENDING", 2 * HandshakeWindow) /\ s2 = s /\ d.up = up
  <2>1. KeyInv(p2) /\ LifeInv(p2) /\ ~ p2.invalidated /\ p2 \in Key
    BY <1>1, <1>6, DeferredInv DEF Scheduled, Like
  <2>2. SuccessorInv(p2, s2) /\ QueueInv(p2, s2) /\ ForcedInv(p2, s2, 1)
    BY <1>1, <1>6, SMT DEF SuccessorInv, QueueInv, ForcedInv, Scheduled, Like
  <2>3. ~ server /\ p2.current = "KEV_NONE"
    BY <1>6 DEF DataLimitDefer, Scheduled
  <2>4. RaisedMidway(p2, s2)
    BY <1>1, <1>6, <2>1, <2>3, SMT DEF RaisedInv, RaisedMidway, QueueInv
  <2>. QED
    BY <1>1, <1>6, <2>1, <2>2, <2>4 DEF Midway, p2, s2
<1>7. CASE /\ p.current = "KEV_NONE" /\ Due(p) /\ p.next = "KEV_BECOME_PRIMARY"
           /\ Scheduled(p2, p, "KEV_RENEGOTIATE", Renegotiate - p.age) /\ s2 = s /\ d.up = up
  <2>1. KeyInv(p2) /\ LifeInv(p2) /\ ~ p2.invalidated /\ p2 \in Key
    BY <1>1, <1>7, BegunInv DEF Scheduled, Like
  <2>2. SuccessorInv(p2, s2) /\ QueueInv(p2, s2) /\ ForcedInv(p2, s2, 1)
    BY <1>1, <1>7, SMT DEF SuccessorInv, QueueInv, ForcedInv, Scheduled, Like
  <2>3. p2.active /\ p2.current = "KEV_NONE" /\ p.left <= 0
    BY <1>1, <1>7 DEF KeyInv, Scheduled, Like, Due
  <2>4. RaisedMidway(p2, s2)
    BY <1>1, <1>3, <1>7, <2>1, <2>3, SMT DEF RaisedInv, RaisedMidway, QueueInv
  <2>. QED
    BY <1>1, <1>7, <2>1, <2>2, <2>4 DEF Midway, p2, s2
<1>8. CASE /\ p.current = "KEV_NONE" /\ Due(p) /\ p.next \in {"KEV_RENEGOTIATE", "KEV_RENEGOTIATE_FORCE"}
           /\ Scheduled(p2, p, "KEV_EXPIRE", ExpiresIn(p)) /\ s2 = NewKey(up) /\ d.up = NextKeyId(up)
  <2>1. KeyInv(p2) /\ LifeInv(p2) /\ p2 \in Key /\ p2.next = "KEV_EXPIRE" /\ p2.current = "KEV_NONE"
        /\ (healthy /\ Plain => ~ p2.invalidated)
    BY <1>1, <1>8, RetiredInv DEF Scheduled, Like
  <2>2. up \in 0 .. KeyIdMask
    BY Constants, SMT
  <2>3. KeyInv(s2) /\ LifeInv(s2) /\ s2 \in Key /\ s2 # NoKey /\ s2.current = "KEV_NONE" /\ s2.next = "KEV_NEGOTIATE"
    BY <1>8, <2>2, NewKeyInv, NewKeyKey
  <2>4. SuccessorInv(p2, s2) /\ QueueInv(p2, s2) /\ ForcedInv(p2, s2, 1) /\ RaisedMidway(p2, s2)
    BY <2>1, <2>3 DEF SuccessorInv, QueueInv, ForcedInv, RaisedMidway
  <2>5. d.up \in 1 .. KeyIdMask
    BY <1>8, <2>2, NextKeyIdRange
  <2>. QED
    BY <2>1, <2>3, <2>4, <2>5 DEF Midway, p2, s2
<1>9. CASE /\ p.current = "KEV_NONE" /\ Due(p) /\ p.next = "KEV_EXPIRE" /\ s # NoKey /\ ~ s.invalidated
           /\ \E q \in Key : Failed(q, p) /\ Scheduled(s2, q, "KEV_EXPIRE", ExpiresIn(q))
           /\ p2 = s /\ d.up = up
  <2>1. PICK q \in Key : Failed(q, p) /\ Scheduled(s2, q, "KEV_EXPIRE", ExpiresIn(q))
    BY <1>9
  <2>2. KeyInv(q) /\ LifeInv(q)
    BY <1>1, <2>1, FailedInv
  <2>3. KeyInv(s2) /\ LifeInv(s2) /\ s2 \in Key /\ s2.next = "KEV_EXPIRE" /\ s2.current = "KEV_NONE"
    BY <2>1, <2>2, RetiredInv DEF Scheduled, Like
  <2>4. s.next # "KEV_RENEGOTIATE_FORCE" /\ (Plain => s.next # "KEV_EXPIRE")
    BY <1>1, <1>9 DEF QueueInv, SuccessorInv, KeyInv
  <2>5. SuccessorInv(p2, s2) /\ QueueInv(p2, s2) /\ ForcedInv(p2, s2, 1) /\ RaisedMidway(p2, s2)
    BY <1>9, <2>3, <2>4 DEF SuccessorInv, QueueInv, ForcedInv, RaisedMidway
  <2>. QED
    BY <1>1, <1>3, <1>9, <2>3, <2>5 DEF Midway, p2, s2
<1>10. ASSUME Failed(p2, p), ~ (healthy /\ Plain), s2 \in Key \cup {NoKey},
              s2 # NoKey => KeyInv(s2) /\ LifeInv(s2) /\ s2.next # "KEV_RENEGOTIATE_FORCE"
                            /\ (s2.current = "KEV_RENEGOTIATE_QUEUE" => server),
              SuccessorInv(p2, s2), RaisedMidway(p2, s2), d.up = up
       PROVE  Midway(d.p, d.s) /\ d.up \in 1 .. KeyIdMask
  <2>1. KeyInv(p2) /\ LifeInv(p2) /\ p2 \in Key /\ p2.invalidated
    BY <1>1, <1>10, FailedInv DEF Failed, Like
  <2>2. p2.next \notin {"KEV_RENEGOTIATE_FORCE", "KEV_BECOME_PRIMARY"}
    BY <2>1 DEF KeyInv
  <2>3. QueueInv(p2, s2) /\ ForcedInv(p2, s2, 1)
    BY <1>10, <2>2 DEF QueueInv, ForcedInv
  <2>. QED
    BY <1>10, <2>1, <2>3 DEF Midway, p2, s2
<1>11. CASE /\ p.current = "KEV_NONE" /\ Due(p) /\ p.next = "KEV_EXPIRE" /\ (s = NoKey \/ s.invalidated)
            /\ Failed(p2, p) /\ s2 = s /\ d.up = up
  <2>1. ~ (healthy /\ Plain)
    BY <1>1, <1>11 DEF SuccessorInv, KeyInv
  <2>2. SuccessorInv(p2, s2)
    BY <1>1, <1>11, <2>1, SMT DEF SuccessorInv, KeyInv, Failed
  <2>3. RaisedMidway(p2, s2)
    BY <1>1, <1>11 DEF RaisedMidway, RaisedInv
  <2>. QED
    BY <1>1, <1>10, <1>11, <2>1, <2>2, <2>3 DEF QueueInv
<1>12. CASE /\ p.current = "KEV_NONE" /\ Due(p) /\ p.next = "KEV_NEGOTIATE" /\ Failed(p2, p)
            /\ s2 = (IF s = NoKey THEN NoKey ELSE Invalidated(s)) /\ d.up = up
  <2>1. ~ healthy /\ ~ p.invalidated
    BY <1>1, <1>3, <1>12 DEF KeyInv, Due
  <2>2. p2.next = "KEV_NONE" /\ p2.current = "KEV_NONE" /\ p2.invalidated
    BY <1>12, <2>1 DEF Failed
  <2>3. SuccessorInv(p2, s2)
    BY <2>2 DEF SuccessorInv
  <2>4. CASE s = NoKey
    BY <1>10, <1>12, <2>1, <2>3, <2>4 DEF RaisedMidway
  <2>5. CASE s # NoKey
    <3>1. s2 = Invalidated(s)
      BY <1>12, <2>5
    <3>2. KeyInv(s2) /\ LifeInv(s2)
      BY <1>1, <1>3, <2>5, <3>1, InvalidatedInv
    <3>3. s2 \in Key /\ s2.invalidated /\ s2.current = s.current
          /\ s2.next = (IF s.invalidated THEN s.next ELSE "KEV_NONE")
      BY <1>3, <2>5, <3>1, InvalidatedKey
    <3>4. s2.next # "KEV_RENEGOTIATE_FORCE" /\ (s2.current = "KEV_RENEGOTIATE_QUEUE" => server)
      BY <1>1, <2>5, <3>2, <3>3 DEF KeyInv, QueueInv
    <3>5. RaisedMidway(p2, s2)
      BY <1>1, <2>1, <2>2, <2>5, <3>3 DEF RaisedMidway, RaisedInv
    <3>. QED
      BY <1>10, <1>12, <2>1, <2>3, <3>2, <3>3, <3>4, <3>5
  <2>. QED
    BY <2>4, <2>5
<1>13. CASE /\ p.current = "KEV_NONE" /\ Due(p) /\ p.next = "KEV_PRIMARY_PENDING"
            /\ Failed(p2, p) /\ s2 = s /\ d.up = up
  <2>1. ~ Plain /\ ~ p.invalidated
    BY <1>1, <1>13 DEF KeyInv
  <2>2. SuccessorInv(p2, s2)
    BY <2>1 DEF SuccessorInv
  <2>3. p2.current = "KEV_NONE" /\ ~ server
    BY <1>13, <2>1 DEF Failed, Plain
  <2>4. RaisedMidway(p2, s2)
    BY <1>1, <1>13, <2>1, <2>3 DEF RaisedMidway, RaisedInv, QueueInv
  <2>. QED
    BY <1>1, <1>10, <1>13, <2>1, <2>2, <2>4 DEF QueueInv
<1>. QED
  BY <1>4, <1>5, <1>6, <1>7, <1>8, <1>9, <1>11, <1>12, <1>13, Zenon DEF PrimaryCase, p2, s2

-----------------------------------------------------------------------------
(* After a pass *)

\* The invariant but for what depends on the pass.
CoreInv(p, s) ==
    /\ p \in Key /\ s \in Key \cup {NoKey}
    /\ KeyInv(p) /\ LifeInv(p)
    /\ s # NoKey => KeyInv(s) /\ LifeInv(s)
    /\ healthy /\ Plain => ~ p.invalidated
    /\ SuccessorInv(p, s)
    /\ QueueInv(p, s)
    /\ ForcedInv(p, s, 1)
    /\ RaisedInv(p, s)

LEMMA CoreHolds ==
    ASSUME NEW p, NEW s, NEW up \in 1 .. KeyIdMask, Midway(p, s),
           NEW d, d.up \in 1 .. KeyIdMask,
           (s = NoKey /\ d.p = p /\ d.s = NoKey) \/ (s # NoKey /\ SecondaryCase(p, s, up, d))
    PROVE  CoreInv(d.p, d.s)
<1>. DEFINE p2 == d.p
            s2 == d.s
<1>1. /\ p \in Key /\ s \in Key \cup {NoKey}
      /\ KeyInv(p) /\ LifeInv(p) /\ (s # NoKey => KeyInv(s) /\ LifeInv(s))
      /\ (healthy /\ Plain => ~ p.invalidated)
      /\ SuccessorInv(p, s) /\ QueueInv(p, s) /\ ForcedInv(p, s, 1) /\ RaisedMidway(p, s)
  BY DEF Midway
<1>2. /\ p.age \in Nat /\ p.left \in Int /\ p # NoKey
      /\ (s # NoKey => s \in Key /\ s.age \in Nat /\ s.left \in Int /\ s.invalidated \in BOOLEAN)
  BY <1>1, KeyFields
<1>. HIDE DEF p2, s2
<1>3. CASE s = NoKey /\ p2 = p /\ s2 = NoKey
  BY <1>1, <1>3 DEF CoreInv, RaisedInv, p2, s2
<1>4. CASE s # NoKey /\ s.current = "KEV_ACTIVE"
           /\ Scheduled(p2, p, "KEV_EXPIRE", ExpiresIn(p)) /\ Scheduled(s2, s, s.next, s.left)
  <2>1. KeyInv(p2) /\ LifeInv(p2) /\ p2 \in Key
    BY <1>1, <1>4, RetiredInv DEF Scheduled, Like
  <2>2. KeyInv(s2) /\ LifeInv(s2) /\ s2 \in Key /\ s2 # NoKey
    BY <1>1, <1>2, <1>4, ClearedInv, KeyFields DEF Scheduled, Like
  <2>3. healthy /\ Plain => ~ p2.invalidated
    BY <1>1, <1>4 DEF Scheduled
  <2>4. SuccessorInv(p2, s2)
    <3>1. s.invalidated => s.next = "KEV_NONE" /\ ~ (healthy /\ Plain) /\ p.invalidated
      BY <1>1, <1>4 DEF RaisedMidway
    <3>2. ~ s.invalidated => s.next = "KEV_BECOME_PRIMARY"
      BY <1>1, <1>4 DEF KeyInv
    <3>. QED
      BY <1>4, <2>2, <3>1, <3>2 DEF SuccessorInv, Scheduled
  <2>5. QueueInv(p2, s2) /\ ForcedInv(p2, s2, 1) /\ RaisedInv(p2, s2)
    BY <1>1, <1>4 DEF QueueInv, ForcedInv, RaisedInv, Scheduled
  <2>. QED
    BY <2>1, <2>2, <2>3, <2>4, <2>5 DEF CoreInv, p2, s2
<1>5. CASE /\ s # NoKey /\ s.current = "KEV_RENEGOTIATE_QUEUE" /\ s.next = "KEV_BECOME_PRIMARY"
           /\ Scheduled(p2, p, "KEV_RENEGOTIATE_FORCE", s.left + LimitDelay)
           /\ Scheduled(s2, s, s.next, s.left)
  <2>1. KeyInv(s2) /\ LifeInv(s2) /\ s2 \in Key /\ s2 # NoKey
    BY <1>1, <1>2, <1>5, ClearedInv, KeyFields DEF Scheduled, Like
  <2>2. ~ s.invalidated /\ s.left <= BecomePrimary
    BY <1>1, <1>5 DEF KeyInv
  <2>3. server
    BY <1>1, <1>5 DEF QueueInv
  <2>4. ~ p.invalidated
    BY <1>1, <1>5, <2>2, <2>3 DEF RaisedMidway
  <2>5. LimitDelay = 2
    BY <2>3 DEF LimitDelay
  <2>6. \/ p.fired \/ p.age < Expire
        \/ p.active /\ s.left <= 0
        \/ p.active /\ p.age + s.left <= Expire + 2 * BecomePrimary + MaxLeap
    BY <1>1, <1>5 DEF RaisedMidway
  <2>7. KeyInv(p2) /\ p2 \in Key
    BY <1>1, <1>5, <2>3, <2>4 DEF KeyInv, Scheduled, Like
  <2>8. LifeInv(p2)
    BY <1>2, <1>5, <2>2, <2>5, <2>6, Constants, SMT DEF LifeInv, Scheduled, Like
  <2>9. ForcedInv(p2, s2, 1)
    BY <1>2, <1>5, <2>1, <2>2, <2>5, <2>6, Constants, SMT DEF ForcedInv, Scheduled, Like
  <2>10. healthy /\ Plain => ~ p2.invalidated
    BY <1>5, <2>4 DEF Scheduled
  <2>11. SuccessorInv(p2, s2)
    BY <1>5, <2>1 DEF SuccessorInv, Scheduled
  <2>12. s.fired
    BY <1>1, <1>5 DEF KeyInv
  <2>13. QueueInv(p2, s2) /\ RaisedInv(p2, s2)
    BY <1>5, <2>12 DEF QueueInv, RaisedInv, Scheduled, Like
  <2>. QED
    BY <2>1, <2>7, <2>8, <2>9, <2>10, <2>11, <2>13 DEF CoreInv, p2, s2
<1>6. CASE /\ s # NoKey /\ s.current = "KEV_RENEGOTIATE_QUEUE" /\ s.next # "KEV_BECOME_PRIMARY"
           /\ p2 = p /\ Scheduled(s2, s, s.next, s.left)
  <2>1. KeyInv(s2) /\ LifeInv(s2) /\ s2 \in Key /\ s2 # NoKey
    BY <1>1, <1>2, <1>6, ClearedInv, KeyFields DEF Scheduled, Like
  <2>2. SuccessorInv(p2, s2) /\ QueueInv(p2, s2) /\ ForcedInv(p2, s2, 1) /\ RaisedInv(p2, s2)
    BY <1>1, <1>6, <2>1 DEF SuccessorInv, QueueInv, ForcedInv, RaisedInv, Scheduled, Like
  <2>. QED
    BY <1>1, <1>6, <2>1, <2>2 DEF CoreInv, p2, s2
<1>7. CASE s # NoKey /\ s.current = "KEV_NONE" /\ p2 = p /\ s2 = s
  BY <1>1, <1>7 DEF CoreInv, RaisedInv, p2, s2
<1>8. CASE /\ s # NoKey /\ s.current = "KEV_NONE" /\ Due(s)
           /\ s.next = "KEV_BECOME_PRIMARY" /\ DataLimitDefer(s)
           /\ p2 = p /\ Scheduled(s2, s, "KEV_PRIMARY_PENDING", 2 * HandshakeWindow)
  <2>1. KeyInv(s2) /\ LifeInv(s2) /\ s2 \in Key /\ s2 # NoKey
    BY <1>1, <1>2, <1>8, DeferredInv, KeyFields DEF Scheduled, Like
  <2>2. ~ Plain /\ ~ server
    BY <1>8 DEF DataLimitDefer, Plain
  <2>3. p.next # "KEV_RENEGOTIATE_FORCE"
    BY <1>1, <2>2 DEF KeyInv
  <2>4. SuccessorInv(p2, s2) /\ QueueInv(p2, s2) /\ ForcedInv(p2, s2, 1) /\ RaisedInv(p2, s2)
    BY <1>8, <2>2, <2>3 DEF SuccessorInv, QueueInv, ForcedInv, RaisedInv, Scheduled
  <2>. QED
    BY <1>1, <1>8, <2>1, <2>4 DEF CoreInv, p2, s2
<1>9. CASE /\ s # NoKey /\ s.current = "KEV_NONE" /\ Due(s) /\ s.next = "KEV_BECOME_PRIMARY"
           /\ Scheduled(p2, s, "KEV_RENEGOTIATE", Renegotiate - s.age)
           /\ Scheduled(s2, p, "KEV_EXPIRE", ExpiresIn(p))
  <2>1. KeyInv(p2) /\ LifeInv(p2) /\ p2 \in Key /\ ~ p2.invalidated
    BY <1>1, <1>2, <1>9, BegunInv DEF Scheduled, Like
  <2>2. KeyInv(s2) /\ LifeInv(s2) /\ s2 \in Key
    BY <1>1, <1>9, RetiredInv DEF Scheduled, Like
  <2>3. SuccessorInv(p2, s2) /\ QueueInv(p2, s2) /\ ForcedInv(p2, s2, 1) /\ RaisedInv(p2, s2)
    BY <1>9 DEF SuccessorInv, QueueInv, ForcedInv, RaisedInv, Scheduled
  <2>. QED
    BY <2>1, <2>2, <2>3 DEF CoreInv, p2, s2
<1>10. CASE /\ s # NoKey /\ s.current = "KEV_NONE" /\ Due(s) /\ s.next = "KEV_RENEGOTIATE"
            /\ p2 = p /\ Scheduled(s2, s, "KEV_EXPIRE", ExpiresIn(s))
  <2>1. KeyInv(s2) /\ LifeInv(s2) /\ s2 \in Key
    BY <1>1, <1>2, <1>10, RetiredInv DEF Scheduled, Like
  <2>2. SuccessorInv(p2, s2) /\ QueueInv(p2, s2) /\ ForcedInv(p2, s2, 1) /\ RaisedInv(p2, s2)
    BY <1>1, <1>10 DEF SuccessorInv, QueueInv, ForcedInv, RaisedInv, Scheduled
  <2>. QED
    BY <1>1, <1>10, <2>1, <2>2 DEF CoreInv, p2, s2
<1>11. CASE /\ s # NoKey /\ s.current = "KEV_NONE" /\ Due(s)
            /\ s.next \in {"KEV_NEGOTIATE", "KEV_PRIMARY_PENDING", "KEV_RENEGOTIATE_FORCE"}
            /\ Same(p2, p) /\ s2 = NewKey(up)
  <2>1. KeyInv(p2) /\ LifeInv(p2) /\ p2 \in Key /\ (healthy /\ Plain => ~ p2.invalidated)
    BY <1>1, <1>11, SameInv DEF Same, Like
  <2>2. up \in 0 .. KeyIdMask
    BY Constants, SMT
  <2>3. KeyInv(s2) /\ LifeInv(s2) /\ s2 \in Key /\ s2 # NoKey /\ s2.current = "KEV_NONE" /\ s2.next = "KEV_NEGOTIATE"
    BY <1>11, <2>2, NewKeyInv, NewKeyKey
  <2>4. SuccessorInv(p2, s2) /\ QueueInv(p2, s2) /\ RaisedInv(p2, s2)
    BY <2>3 DEF SuccessorInv, QueueInv, RaisedInv
  <2>5. ForcedInv(p2, s2, 1)
    BY <1>1, <1>11, <2>3, SMT DEF ForcedInv, Same, Like
  <2>. QED
    BY <2>1, <2>3, <2>4, <2>5 DEF CoreInv, p2, s2
<1>12. CASE s # NoKey /\ s.current = "KEV_NONE" /\ Due(s) /\ s.next = "KEV_EXPIRE" /\ p2 = p /\ s2 = NoKey
  <2>1. SuccessorInv(p2, s2) /\ QueueInv(p2, s2) /\ ForcedInv(p2, s2, 1) /\ RaisedInv(p2, s2)
    BY <1>1, <1>12 DEF SuccessorInv, QueueInv, ForcedInv, RaisedInv
  <2>. QED
    BY <1>1, <1>12, <2>1 DEF CoreInv, p2, s2
<1>. QED
  BY <1>3, <1>4, <1>5, <1>6, <1>7, <1>8, <1>9, <1>10, <1>11, <1>12, Zenon DEF SecondaryCase, p2, s2

-----------------------------------------------------------------------------
(* The other handlers *)

LEMMA SettledPair ==
    ASSUME NEW p, NEW s, NEW n \in Nat, CoreInv(p, s),
           NEW m, m = IF Pending(p) \/ Pending(s) THEN n + 1 ELSE 0
    PROVE  PairInv(p, s, m) /\ m \in Nat
<1>1. p \in Key /\ (s # NoKey => s \in Key)
  BY DEF CoreInv
<1>2. p # NoKey /\ p.left \in Int /\ (s # NoKey => s.left \in Int)
  BY <1>1, KeyFields
<1>3. ForcedInv(p, s, m)
  BY <1>2, SMT DEF CoreInv, ForcedInv, Pending, Due
<1>4. IdleInv(p, s, m)
  <2>1. SUFFICES ASSUME m = 0, NEW k \in {p, s} \ {NoKey}
                 PROVE  k.current = "KEV_NONE" /\ (k.next # "KEV_NONE" => k.left >= Late)
    BY DEF IdleInv
  <2>2. ~ Pending(k) /\ k # NoKey /\ k.left \in Int
    BY <1>2, <2>1
  <2>. QED
    BY <2>2, Constants, SMT DEF Pending, Due, Late
<1>. QED
  BY <1>3, <1>4 DEF CoreInv, PairInv

LEMMA CoreOfIdle ==
    ASSUME NEW p \in Key, NEW s \in Key \cup {NoKey}, PairInv(p, s, 0)
    PROVE  /\ CoreInv(p, s)
           /\ p.current = "KEV_NONE" /\ (p.next # "KEV_NONE" => p.left >= Late)
           /\ s # NoKey => s \in Key /\ s.current = "KEV_NONE" /\ (s.next # "KEV_NONE" => s.left >= Late)
<1>1. ForcedInv(p, s, 1)
  BY SMT DEF PairInv, ForcedInv
<1>2. p # NoKey
  BY KeyFields
<1>. QED
  BY <1>1, <1>2 DEF PairInv, CoreInv, IdleInv

LEMMA ActiveKey ==
    ASSUME NEW k \in Key, NEW r, r = BecomesActive(k)
    PROVE  /\ r \in Key /\ r.key_id = k.key_id /\ r.age = k.age /\ r.since = 0 /\ r.active
           /\ (r.fired <=> k.fired) /\ (r.invalidated <=> k.invalidated)
           /\ r.current = "KEV_ACTIVE" /\ r.next = "KEV_BECOME_PRIMARY" /\ r.left = BecomePrimary
<1>. DEFINE q == SetEvent(k, "KEV_ACTIVE", "KEV_BECOME_PRIMARY", BecomePrimary)
            u == [q EXCEPT !.active = TRUE, !.since = 0]
<1>1. "KEV_ACTIVE" \in Events /\ "KEV_BECOME_PRIMARY" \in Events /\ BecomePrimary \in Int /\ 0 \in 0 .. BecomePrimary
  BY Constants, SMT DEF Events
<1>2. /\ q \in Key /\ Like(q, k) /\ (q.invalidated <=> k.invalidated)
      /\ q.current = "KEV_ACTIVE" /\ q.next = "KEV_BECOME_PRIMARY" /\ q.left = BecomePrimary
  BY <1>1, SetEventKey
<1>3. r = u
  BY Zenon DEF BecomesActive
<1>. HIDE DEF q
<1>4. u \in Key
  BY <1>1, <1>2, Zenon DEF Key
<1>5. /\ u.key_id = q.key_id /\ u.age = q.age /\ u.since = 0 /\ u.active = TRUE /\ u.fired = q.fired
      /\ u.invalidated = q.invalidated /\ u.current = q.current /\ u.next = q.next /\ u.left = q.left
  BY <1>2, SMT DEF Key
<1>. HIDE DEF u
<1>. QED
  BY <1>2, <1>3, <1>4, <1>5, Zenon DEF Like

LEMMA ActiveInv ==
    ASSUME NEW k \in Key, NEW r, r = BecomesActive(k), KeyInv(k), LifeInv(k),
           ~ k.active, ~ k.invalidated, k.next # "KEV_NONE" => k.left >= Late
    PROVE  KeyInv(r) /\ LifeInv(r)
<1>1. /\ r \in Key /\ r.age = k.age /\ r.since = 0 /\ r.active /\ ~ r.invalidated
      /\ r.current = "KEV_ACTIVE" /\ r.next = "KEV_BECOME_PRIMARY" /\ r.left = BecomePrimary
  BY ActiveKey
<1>2. KeyInv(r)
  BY <1>1, Constants, SMT DEF KeyInv, Late
<1>3. k.age \in Nat /\ k.left \in Int /\ ~ k.fired
  BY KeyFields DEF KeyInv
<1>4. k.next \in {"KEV_NEGOTIATE", "KEV_RENEGOTIATE", "KEV_RENEGOTIATE_FORCE", "KEV_EXPIRE"} /\ k.left >= Late
  BY DEF KeyInv
<1>5. k.age <= Expire + BecomePrimary + MaxLeap /\ (~ server => k.age <= Expire + MaxLeap - 1)
  BY <1>3, <1>4, Constants, SMT DEF KeyInv, LifeInv, Late
<1>6. LifeInv(r)
  BY <1>1, <1>3, <1>5, Constants, SMT DEF LifeInv
<1>. QED
  BY <1>2, <1>6

LEMMA LimitKey ==
    ASSUME NEW k \in Key, NEW req \in {"none", "now", "queued"}, NEW r, r = ScheduleKeyLimitRenegotiation(k, req)
    PROVE  /\ r \in Key /\ r.key_id = k.key_id /\ r.age = k.age /\ r.since = k.since /\ r.fired
           /\ (r.active <=> k.active) /\ (r.invalidated <=> k.invalidated)
           /\ k.next = "KEV_BECOME_PRIMARY" =>
                r.current = "KEV_RENEGOTIATE_QUEUE" /\ r.next = k.next /\ r.left = k.left
           /\ k.next # "KEV_BECOME_PRIMARY" =>
                r.current = "KEV_NONE" /\ r.next = "KEV_RENEGOTIATE" /\ r.left = LimitDelay
<1>. DEFINE f == [k EXCEPT !.fired = TRUE, !.req = req, !.wait = 0]
            u == [f EXCEPT !.current = "KEV_RENEGOTIATE_QUEUE"]
<1>1. "KEV_RENEGOTIATE_QUEUE" \in Events /\ "KEV_RENEGOTIATE" \in Events /\ LimitDelay \in Int /\ 0 \in 0 .. 3
  BY SMT DEF Events, LimitDelay
<1>2. f \in Key
  BY <1>1, Zenon DEF Key
<1>3. /\ f.key_id = k.key_id /\ f.age = k.age /\ f.since = k.since /\ f.fired = TRUE
      /\ f.active = k.active /\ f.invalidated = k.invalidated /\ f.current = k.current
      /\ f.next = k.next /\ f.left = k.left
  BY SMT DEF Key
<1>4. r = IF k.next = "KEV_BECOME_PRIMARY" THEN u ELSE SetEvent(f, "KEV_NONE", "KEV_RENEGOTIATE", LimitDelay)
  BY Zenon DEF ScheduleKeyLimitRenegotiation
<1>. HIDE DEF f
<1>5. CASE k.next = "KEV_BECOME_PRIMARY"
  <2>1. u \in Key
    BY <1>1, <1>2, Zenon DEF Key
  <2>2. /\ u.key_id = f.key_id /\ u.age = f.age /\ u.since = f.since /\ u.fired = f.fired
        /\ u.active = f.active /\ u.invalidated = f.invalidated /\ u.current = "KEV_RENEGOTIATE_QUEUE"
        /\ u.next = f.next /\ u.left = f.left
    BY <1>2, SMT DEF Key
  <2>3. r = u
    BY <1>4, <1>5
  <2>. HIDE DEF u
  <2>. QED
    BY <1>3, <1>5, <2>1, <2>2, <2>3, Zenon
<1>6. CASE k.next # "KEV_BECOME_PRIMARY"
  <2>1. r = SetEvent(f, "KEV_NONE", "KEV_RENEGOTIATE", LimitDelay)
    BY <1>4, <1>6
  <2>2. Scheduled(r, f, "KEV_RENEGOTIATE", LimitDelay)
    BY <1>1, <1>2, <2>1, ScheduledKey
  <2>. QED
    BY <1>3, <1>6, <2>2, Zenon DEF Scheduled, Like
<1>. QED
  BY <1>5, <1>6

LEMMA LimitInv ==
    ASSUME NEW k \in Key, NEW req \in {"none", "now", "queued"}, NEW r, r = ScheduleKeyLimitRenegotiation(k, req),
           KeyInv(k), k.active, ~ k.invalidated
    PROVE  KeyInv(r) /\ LifeInv(r)
<1>1. /\ r.fired /\ r.active /\ ~ r.invalidated /\ r.since = k.since /\ r.age = k.age
      /\ k.next = "KEV_BECOME_PRIMARY" =>
           r.current = "KEV_RENEGOTIATE_QUEUE" /\ r.next = k.next /\ r.left = k.left
      /\ k.next # "KEV_BECOME_PRIMARY" => r.current = "KEV_NONE" /\ r.next = "KEV_RENEGOTIATE"
  BY LimitKey
<1>2. KeyInv(r)
  BY <1>1 DEF KeyInv
<1>. QED
  BY <1>1, <1>2 DEF LifeInv

LEMMA AgedKey ==
    ASSUME NEW k \in Key, NEW d \in 1 .. MaxLeap, NEW isPrimary \in BOOLEAN, NEW r, r = Aged(k, d, isPrimary)
    PROVE  /\ r \in Key /\ r.key_id = k.key_id /\ r.age = Earlier(k.age + d, MaxAge)
           /\ (r.fired <=> k.fired) /\ (r.active <=> k.active) /\ (r.invalidated <=> k.invalidated)
           /\ r.current = k.current /\ r.next = k.next
           /\ r.left = (IF k.next = "KEV_NONE" THEN k.left ELSE k.left - d)
           /\ r.since = (IF k.active THEN Earlier(k.since + d, BecomePrimary) ELSE k.since)
<1>. DEFINE a == Earlier(k.age + d, MaxAge)
            l == IF k.next = "KEV_NONE" THEN k.left ELSE k.left - d
            z == IF k.active THEN Earlier(k.since + d, BecomePrimary) ELSE k.since
            w == IF isPrimary /\ k.req # "none" THEN Earlier(k.wait + d, 3) ELSE k.wait
            u == [k EXCEPT !.age = a, !.left = l, !.since = z, !.wait = w]
<1>1. /\ k.age \in Nat /\ k.left \in Int /\ k.since \in 0 .. BecomePrimary /\ k.wait \in 0 .. 3
      /\ d \in Nat
  BY KeyFields, Constants, SMT
<1>2. a \in 0 .. MaxAge
  BY <1>1, Constants, SMT DEF Earlier
<1>3. l \in Int
  BY <1>1, SMT
<1>4. z \in 0 .. BecomePrimary
  BY <1>1, Constants, SMT DEF Earlier
<1>5. w \in 0 .. 3
  BY <1>1, SMT DEF Earlier
<1>6. r = u
  BY Zenon DEF Aged
<1>. HIDE DEF a, l, z, w
<1>7. u \in Key
  BY <1>2, <1>3, <1>4, <1>5, Zenon DEF Key
<1>8. /\ u.key_id = k.key_id /\ u.age = a /\ u.since = z /\ u.fired = k.fired
      /\ u.active = k.active /\ u.invalidated = k.invalidated /\ u.current = k.current
      /\ u.next = k.next /\ u.left = l
  BY SMT DEF Key
<1>. HIDE DEF u
<1>. QED
  BY <1>6, <1>7, <1>8, Zenon DEF a, l, z

LEMMA AgedSame ==
    ASSUME NEW k \in Key, NEW d \in 1 .. MaxLeap, NEW isPrimary \in BOOLEAN
    PROVE  /\ Aged(k, d, isPrimary) \in Key /\ Aged(k, d, isPrimary).key_id = k.key_id
           /\ Aged(k, d, isPrimary).age = Earlier(k.age + d, MaxAge)
           /\ (Aged(k, d, isPrimary).fired <=> k.fired) /\ (Aged(k, d, isPrimary).active <=> k.active)
           /\ (Aged(k, d, isPrimary).invalidated <=> k.invalidated)
           /\ Aged(k, d, isPrimary).next = k.next
           /\ Aged(k, d, isPrimary).left = (IF k.next = "KEV_NONE" THEN k.left ELSE k.left - d)
<1>. DEFINE r == Aged(k, d, isPrimary)
<1>1. r = Aged(k, d, isPrimary)
  OBVIOUS
<1>. HIDE DEF r
<1>2. /\ r \in Key /\ r.key_id = k.key_id /\ r.age = Earlier(k.age + d, MaxAge)
      /\ (r.fired <=> k.fired) /\ (r.active <=> k.active) /\ (r.invalidated <=> k.invalidated)
      /\ r.next = k.next /\ r.left = (IF k.next = "KEV_NONE" THEN k.left ELSE k.left - d)
  BY <1>1, AgedKey
<1>. QED
  BY <1>2 DEF r

LEMMA AgedInv ==
    ASSUME NEW k \in Key, NEW d \in 1 .. MaxLeap, NEW isPrimary \in BOOLEAN, NEW r, r = Aged(k, d, isPrimary),
           KeyInv(k), LifeInv(k), ~ Pending(k), healthy => InTime(k, d)
    PROVE  KeyInv(r) /\ LifeInv(r) /\ r.current = "KEV_NONE" /\ (r.next # "KEV_NONE" => r.left >= Late)
<1>1. /\ r.age = Earlier(k.age + d, MaxAge)
      /\ (r.fired <=> k.fired) /\ (r.active <=> k.active) /\ (r.invalidated <=> k.invalidated)
      /\ r.current = k.current /\ r.next = k.next
      /\ r.left = (IF k.next = "KEV_NONE" THEN k.left ELSE k.left - d)
      /\ r.since = (IF k.active THEN Earlier(k.since + d, BecomePrimary) ELSE k.since)
  BY AgedKey
<1>2. k.age \in Nat /\ k.left \in Int /\ k.since \in 0 .. BecomePrimary /\ d \in Nat /\ d > 0 /\ d <= MaxLeap /\ k # NoKey
  BY KeyFields, Constants, SMT
<1>3. k.current = "KEV_NONE" /\ (k.next # "KEV_NONE" => k.left > 0)
  BY <1>2, SMT DEF Pending, Due
<1>4. r.current = "KEV_NONE" /\ (r.next # "KEV_NONE" => r.left = k.left - d /\ r.left >= Late)
  BY <1>1, <1>2, <1>3, Constants, SMT DEF Late
<1>5. r.age <= k.age + d
  BY <1>1, <1>2, Constants, SMT DEF Earlier
<1>5a. r.age \in Nat /\ r.left \in Int
  BY <1>1, <1>2, Constants, SMT DEF Earlier
<1>6. k.next = "KEV_BECOME_PRIMARY" =>
        (r.left >= 0 => r.since = BecomePrimary - r.left) /\ (r.left < 0 => r.since = BecomePrimary)
  BY <1>1, <1>2, <1>3, <1>4, Constants, SMT DEF KeyInv, Earlier
<1>7. k.next = "KEV_NEGOTIATE" => (healthy => r.left > 0)
  BY <1>2, <1>4, <1>1, SMT DEF InTime
<1>8. KeyInv(r)
  BY <1>1, <1>2, <1>4, <1>5, <1>5a, <1>6, <1>7, Constants, SMT DEF KeyInv
<1>9. LifeInv(r)
  BY <1>1, <1>2, <1>4, <1>5, <1>5a, Constants, SMT DEF LifeInv
<1>. QED
  BY <1>4, <1>8, <1>9

-----------------------------------------------------------------------------
(* The invariant is inductive *)

LEMMA ConfKept ==
    ASSUME UNCHANGED conf, PairInv(primary', secondary', pass')
    PROVE  PairInv(primary, secondary, pass)'
<1>1. server' = server /\ limited' = limited /\ healthy' = healthy /\ errors' = errors
  BY DEF conf
<1>. QED
  <2>1. KeyInv(primary)' /\ LifeInv(primary)'
    BY <1>1 DEF PairInv, KeyInv, LifeInv, Plain, Late
  <2>2. secondary' # NoKey => KeyInv(secondary)' /\ LifeInv(secondary)'
    BY <1>1 DEF PairInv, KeyInv, LifeInv, Plain, Late
  <2>3. (healthy /\ Plain => ~ primary.invalidated)' /\ SuccessorInv(primary, secondary)'
    BY <1>1 DEF PairInv, SuccessorInv, Plain
  <2>4. QueueInv(primary, secondary)'
    BY <1>1 DEF PairInv, QueueInv
  <2>5. ForcedInv(primary, secondary, pass)' /\ RaisedInv(primary, secondary)' /\ IdleInv(primary, secondary, pass)'
    BY DEF PairInv, ForcedInv, RaisedInv, IdleInv, Late
  <2>. QED
    BY <2>1, <2>2, <2>3, <2>4, <2>5 DEF PairInv

LEMMA Becoming ==
    ASSUME TypeOK, NEW c, CoreInv(c.p, c.s), c.up \in 1 .. KeyIdMask, Become(c)
    PROVE  IInv'
<1>1. PairInv(c.p, c.s, pass') /\ pass' \in Nat
  BY SettledPair DEF TypeOK, Become
<1>2. primary' = c.p /\ secondary' = c.s /\ upcoming_key_id' = c.up /\ UNCHANGED conf
  BY DEF Become
<1>3. PairInv(primary, secondary, pass)'
  BY <1>1, <1>2, ConfKept
<1>4. primary' \in Key /\ secondary' \in Key \cup {NoKey}
  BY <1>2 DEF CoreInv
<1>5. TypeOK'
  BY <1>1, <1>2, <1>4 DEF TypeOK, conf
<1>. QED
  BY <1>3, <1>5 DEF IInv

\* c and d are the keys after the first and after the second half of a pass.
PassCase(c, d) ==
    /\ PrimaryCase(primary, secondary, upcoming_key_id, c)
    /\ Midway(c.p, c.s) /\ c.up \in 1 .. KeyIdMask
    /\ \/ c.s = NoKey /\ d.p = c.p /\ d.s = NoKey /\ d.up = c.up
       \/ c.s # NoKey /\ SecondaryCase(c.p, c.s, c.up, d)
    /\ Become(d)

LEMMA Pass ==
    ASSUME IInv, ProcessEvents
    PROVE  \E c, d : PassCase(c, d)
<1>. DEFINE b == Ctx(primary, secondary, upcoming_key_id)
            c == ProcessPrimaryEvent(b)
            d == ProcessSecondaryEvent(c)
<1>1. /\ primary \in Key /\ secondary \in Key \cup {NoKey} /\ upcoming_key_id \in 1 .. KeyIdMask /\ pass \in Nat
      /\ TypeOK /\ PairInv(primary, secondary, pass)
  BY DEF IInv, TypeOK
<1>2. KeyInv(primary) /\ (secondary # NoKey => KeyInv(secondary))
  BY <1>1 DEF PairInv
<1>3. PrimaryCase(primary, secondary, upcoming_key_id, c)
  BY <1>1, <1>2, FirstHalf
<1>4. c = Ctx(c.p, c.s, c.up)
  <2>1. \E x, y, z : c = Ctx(x, y, z)
    BY Zenon DEF ProcessPrimaryEvent
  <2>. QED
    BY <2>1, CtxFields
<1>. HIDE DEF c
<1>5. Midway(c.p, c.s) /\ c.up \in 1 .. KeyIdMask
  BY <1>1, <1>3, MidwayHolds
<1>6. c.p \in Key /\ c.s \in Key \cup {NoKey} /\ (c.s # NoKey => KeyInv(c.s))
  BY <1>5 DEF Midway
<1>7. \/ c.s = NoKey /\ d.p = c.p /\ d.s = NoKey /\ d.up = c.up
      \/ c.s # NoKey /\ SecondaryCase(c.p, c.s, c.up, d)
  <2>1. CASE c.s = NoKey
    <3>1. d = c
      BY <2>1, Zenon DEF ProcessSecondaryEvent
    <3>. QED
      BY <2>1, <3>1, Zenon
  <2>2. CASE c.s # NoKey
    <3>1. SecondaryCase(c.p, c.s, c.up, ProcessSecondaryEvent(Ctx(c.p, c.s, c.up)))
      BY <1>5, <1>6, <2>2, SecondHalf
    <3>. QED
      BY <1>4, <2>2, <3>1, Zenon
  <2>. QED
    BY <2>1, <2>2
<1>. HIDE DEF d
<1>8. Become(d)
  BY DEF ProcessEvents, Current, d, c
<1>9. PassCase(c, d)
  BY <1>3, <1>5, <1>7, <1>8, Zenon DEF PassCase
<1>. QED
  BY <1>9

LEMMA PassKeeps ==
    ASSUME IInv, ProcessEvents
    PROVE  IInv'
<1>1. PICK c, d : PassCase(c, d)
  BY Pass
<1>2. /\ Midway(c.p, c.s) /\ c.up \in 1 .. KeyIdMask /\ Become(d)
      /\ \/ c.s = NoKey /\ d.p = c.p /\ d.s = NoKey /\ d.up = c.up
         \/ c.s # NoKey /\ SecondaryCase(c.p, c.s, c.up, d)
  BY <1>1, Zenon DEF PassCase
<1>3. d.up \in 1 .. KeyIdMask
  <2>1. d.up \in {c.up, NextKeyId(c.up)}
    BY <1>2, Zenon DEF SecondaryCase
  <2>2. c.up \in 0 .. KeyIdMask
    BY <1>2, Constants, SMT
  <2>. QED
    BY <1>2, <2>1, <2>2, NextKeyIdRange
<1>4. CoreInv(d.p, d.s)
  BY <1>2, <1>3, CoreHolds, Zenon
<1>. QED
  BY <1>2, <1>3, <1>4, Becoming DEF IInv

LEMMA ActiveKeeps ==
    ASSUME IInv, PrimaryActive \/ SecondaryActive
    PROVE  IInv'
<1>1. /\ primary \in Key /\ secondary \in Key \cup {NoKey} /\ upcoming_key_id \in 1 .. KeyIdMask
      /\ TypeOK /\ PairInv(primary, secondary, 0) /\ ~ primary.invalidated
  BY DEF IInv, TypeOK, PrimaryActive, SecondaryActive, Idle
<1>2. /\ CoreInv(primary, secondary)
      /\ primary.current = "KEV_NONE" /\ (primary.next # "KEV_NONE" => primary.left >= Late)
      /\ secondary # NoKey => secondary \in Key /\ secondary.current = "KEV_NONE"
                              /\ (secondary.next # "KEV_NONE" => secondary.left >= Late)
  BY <1>1, CoreOfIdle
<1>3. CASE PrimaryActive
  <2>. DEFINE r == BecomesActive(primary)
  <2>1. r \in Key /\ r.next = "KEV_BECOME_PRIMARY" /\ r.left = BecomePrimary /\ ~ r.invalidated
    BY <1>1, ActiveKey
  <2>2. KeyInv(r) /\ LifeInv(r)
    BY <1>1, <1>2, <1>3, ActiveInv DEF PrimaryActive, CoreInv
  <2>3. Become(Ctx(r, secondary, upcoming_key_id))
    BY <1>3 DEF PrimaryActive
  <2>. HIDE DEF r
  <2>4. SuccessorInv(r, secondary) /\ ForcedInv(r, secondary, 1) /\ RaisedInv(r, secondary)
    BY <1>2, <2>1 DEF SuccessorInv, ForcedInv, RaisedInv
  <2>5. QueueInv(r, secondary)
    BY <1>2, <2>1, SMT DEF CoreInv, QueueInv, KeyInv
  <2>6. CoreInv(r, secondary)
    BY <1>2, <2>1, <2>2, <2>4, <2>5 DEF CoreInv
  <2>7. CoreInv(Ctx(r, secondary, upcoming_key_id).p, Ctx(r, secondary, upcoming_key_id).s)
        /\ Ctx(r, secondary, upcoming_key_id).up \in 1 .. KeyIdMask
    BY <1>1, <2>6, CtxFields
  <2>. QED
    BY <1>1, <2>3, <2>7, Becoming
<1>4. CASE SecondaryActive
  <2>. DEFINE r == BecomesActive(secondary)
  <2>0. secondary \in Key /\ secondary # NoKey /\ ~ secondary.invalidated /\ ~ secondary.active
    BY <1>1, <1>4 DEF SecondaryActive
  <2>1. r \in Key /\ r.next = "KEV_BECOME_PRIMARY" /\ r.current = "KEV_ACTIVE" /\ ~ r.invalidated
    BY <2>0, ActiveKey
  <2>2. KeyInv(r) /\ LifeInv(r)
    BY <1>2, <2>0, ActiveInv DEF CoreInv
  <2>3. Become(Ctx(primary, r, upcoming_key_id))
    BY <1>4 DEF SecondaryActive
  <2>4. ForcedInv(primary, r, 1)
    BY <1>1, SMT DEF PairInv, ForcedInv
  <2>. HIDE DEF r
  <2>5. r # NoKey
    BY <2>1, KeyFields
  <2>6. SuccessorInv(primary, r) /\ RaisedInv(primary, r) /\ QueueInv(primary, r)
    BY <1>1, <1>2, <2>1, <2>5 DEF SuccessorInv, RaisedInv, QueueInv
  <2>7. CoreInv(primary, r)
    BY <1>2, <2>1, <2>2, <2>4, <2>6 DEF CoreInv
  <2>8. CoreInv(Ctx(primary, r, upcoming_key_id).p, Ctx(primary, r, upcoming_key_id).s)
        /\ Ctx(primary, r, upcoming_key_id).up \in 1 .. KeyIdMask
    BY <1>1, <2>7, CtxFields
  <2>. QED
    BY <1>1, <2>3, <2>8, Becoming
<1>. QED
  BY <1>3, <1>4

LEMMA LimitKeeps ==
    ASSUME IInv, PrimaryLimit \/ SecondaryLimit
    PROVE  IInv'
<1>1. /\ primary \in Key /\ secondary \in Key \cup {NoKey} /\ upcoming_key_id \in 1 .. KeyIdMask
      /\ TypeOK /\ PairInv(primary, secondary, 0) /\ ~ primary.invalidated
  BY DEF IInv, TypeOK, PrimaryLimit, SecondaryLimit, Idle
<1>2. /\ CoreInv(primary, secondary)
      /\ primary.current = "KEV_NONE"
      /\ secondary # NoKey => secondary \in Key /\ secondary.current = "KEV_NONE"
  BY <1>1, CoreOfIdle
<1>3. CASE PrimaryLimit
  <2>. DEFINE r == ScheduleKeyLimitRenegotiation(primary, "now")
  <2>1. /\ r \in Key /\ ~ r.invalidated
        /\ primary.next = "KEV_BECOME_PRIMARY" => r.next = primary.next /\ r.left = primary.left
        /\ primary.next # "KEV_BECOME_PRIMARY" => r.next = "KEV_RENEGOTIATE"
    BY <1>1, LimitKey
  <2>2. KeyInv(r) /\ LifeInv(r)
    BY <1>1, <1>2, <1>3, LimitInv DEF PrimaryLimit, CoreInv
  <2>3. Become(Ctx(r, secondary, upcoming_key_id))
    BY <1>3 DEF PrimaryLimit
  <2>. HIDE DEF r
  <2>4. SuccessorInv(r, secondary) /\ ForcedInv(r, secondary, 1) /\ RaisedInv(r, secondary)
    BY <1>2, <2>1 DEF SuccessorInv, ForcedInv, RaisedInv
  <2>5. QueueInv(r, secondary)
    BY <1>2, <2>1, SMT DEF CoreInv, QueueInv, KeyInv
  <2>6. CoreInv(r, secondary)
    BY <1>2, <2>1, <2>2, <2>4, <2>5 DEF CoreInv
  <2>7. CoreInv(Ctx(r, secondary, upcoming_key_id).p, Ctx(r, secondary, upcoming_key_id).s)
        /\ Ctx(r, secondary, upcoming_key_id).up \in 1 .. KeyIdMask
    BY <1>1, <2>6, CtxFields
  <2>. QED
    BY <1>1, <2>3, <2>7, Becoming
<1>4. CASE SecondaryLimit
  <2>. DEFINE req == IF secondary.next = "KEV_BECOME_PRIMARY" THEN "queued" ELSE "none"
              r == ScheduleKeyLimitRenegotiation(secondary, req)
  <2>0. /\ secondary \in Key /\ secondary # NoKey /\ server
        /\ secondary.active /\ ~ secondary.fired /\ ~ secondary.invalidated /\ req \in {"none", "now", "queued"}
    BY <1>1, <1>4 DEF SecondaryLimit
  <2>1. Become(Ctx(primary, r, upcoming_key_id))
    BY <1>4 DEF SecondaryLimit
  <2>. HIDE DEF req
  <2>2. /\ r \in Key /\ ~ r.invalidated /\ r.fired
        /\ secondary.next = "KEV_BECOME_PRIMARY" =>
             r.current = "KEV_RENEGOTIATE_QUEUE" /\ r.next = secondary.next /\ r.left = secondary.left
        /\ secondary.next # "KEV_BECOME_PRIMARY" => r.current = "KEV_NONE" /\ r.next = "KEV_RENEGOTIATE"
    BY <2>0, LimitKey
  <2>3. KeyInv(r) /\ LifeInv(r)
    BY <1>2, <2>0, LimitInv DEF CoreInv
  <2>4. ForcedInv(primary, r, 1)
    BY <1>1, SMT DEF PairInv, ForcedInv
  <2>. HIDE DEF r
  <2>5. r # NoKey
    BY <2>2, KeyFields
  <2>6. SuccessorInv(primary, r)
    BY <1>2, <2>0, <2>2, <2>5 DEF CoreInv, SuccessorInv, KeyInv
  <2>7. QueueInv(primary, r)
    BY <1>2, <2>0, <2>2, <2>5, SMT DEF CoreInv, QueueInv
  <2>8. RaisedInv(primary, r)
    BY <1>1, <1>2, <2>2 DEF RaisedInv
  <2>9. CoreInv(primary, r)
    BY <1>2, <2>2, <2>3, <2>4, <2>6, <2>7, <2>8 DEF CoreInv
  <2>10. CoreInv(Ctx(primary, r, upcoming_key_id).p, Ctx(primary, r, upcoming_key_id).s)
        /\ Ctx(primary, r, upcoming_key_id).up \in 1 .. KeyIdMask
    BY <1>1, <2>9, CtxFields
  <2>. QED
    BY <1>1, <2>1, <2>10, Becoming
<1>. QED
  BY <1>3, <1>4

LEMMA SoftResetKeeps ==
    ASSUME IInv, SoftReset
    PROVE  IInv'
<1>. DEFINE u == [primary EXCEPT !.req = "none"]
            r == NewKey(upcoming_key_id)
            c == Ctx(u, r, NextKeyId(upcoming_key_id))
<1>1. /\ primary \in Key /\ secondary \in Key \cup {NoKey} /\ upcoming_key_id \in 1 .. KeyIdMask
      /\ TypeOK /\ PairInv(primary, secondary, 0) /\ upcoming_key_id \in 0 .. KeyIdMask
  BY Constants DEF IInv, TypeOK, SoftReset, Idle
<1>2. CoreInv(primary, secondary)
  BY <1>1, CoreOfIdle
<1>3. /\ u \in Key /\ Like(u, primary) /\ (u.invalidated <=> primary.invalidated)
      /\ u.current = primary.current /\ u.next = primary.next /\ u.left = primary.left
  BY <1>1, UnaskedKey
<1>4. r \in Key /\ r # NoKey /\ r.current = "KEV_NONE" /\ r.next = "KEV_NEGOTIATE" /\ KeyInv(r) /\ LifeInv(r)
  BY <1>1, NewKeyKey, NewKeyInv
<1>5. Become(c)
  BY CtxFields DEF SoftReset, NewSecondary, Current
<1>. HIDE DEF u, r
<1>6. KeyInv(u) /\ LifeInv(u)
  BY <1>1, <1>2, <1>3, SameInv DEF Same, CoreInv
<1>7. SuccessorInv(u, r) /\ QueueInv(u, r) /\ RaisedInv(u, r)
  BY <1>4 DEF SuccessorInv, QueueInv, RaisedInv
<1>8. ForcedInv(u, r, 1)
  BY <1>1, <1>3, SMT DEF PairInv, ForcedInv, Like
<1>9. CoreInv(u, r)
  BY <1>2, <1>3, <1>4, <1>6, <1>7, <1>8 DEF CoreInv
<1>10. CoreInv(c.p, c.s) /\ c.up \in 1 .. KeyIdMask
  BY <1>1, <1>9, CtxFields, NextKeyIdRange
<1>. QED
  BY <1>1, <1>5, <1>10, Becoming

LEMMA InvalidateKeeps ==
    ASSUME IInv, InvalidatePrimary \/ InvalidateSecondary
    PROVE  IInv'
<1>1. /\ primary \in Key /\ secondary \in Key \cup {NoKey} /\ upcoming_key_id \in 1 .. KeyIdMask
      /\ TypeOK /\ PairInv(primary, secondary, 0) /\ ~ primary.invalidated /\ errors /\ ~ healthy
  BY DEF IInv, TypeOK, InvalidatePrimary, InvalidateSecondary, Idle
<1>2. /\ CoreInv(primary, secondary)
      /\ primary.current = "KEV_NONE"
      /\ secondary # NoKey => secondary \in Key /\ secondary.current = "KEV_NONE"
  BY <1>1, CoreOfIdle
<1>3. CASE InvalidatePrimary
  <2>. DEFINE r == Invalidated(primary)
  <2>1. r \in Key /\ r.next = "KEV_NONE"
    BY <1>1, InvalidatedKey
  <2>2. KeyInv(r) /\ LifeInv(r)
    BY <1>1, <1>2, InvalidatedInv DEF CoreInv
  <2>3. Become(Ctx(r, secondary, upcoming_key_id))
    BY <1>3 DEF InvalidatePrimary
  <2>. HIDE DEF r
  <2>4. SuccessorInv(r, secondary) /\ ForcedInv(r, secondary, 1) /\ RaisedInv(r, secondary) /\ QueueInv(r, secondary)
    BY <1>2, <2>1 DEF SuccessorInv, ForcedInv, RaisedInv, QueueInv, CoreInv
  <2>6. CoreInv(r, secondary)
    BY <1>1, <1>2, <2>1, <2>2, <2>4 DEF CoreInv
  <2>7. CoreInv(Ctx(r, secondary, upcoming_key_id).p, Ctx(r, secondary, upcoming_key_id).s)
        /\ Ctx(r, secondary, upcoming_key_id).up \in 1 .. KeyIdMask
    BY <1>1, <2>6, CtxFields
  <2>. QED
    BY <1>1, <2>3, <2>7, Becoming
<1>4. CASE InvalidateSecondary
  <2>. DEFINE r == Invalidated(secondary)
  <2>0. secondary \in Key /\ secondary # NoKey /\ ~ secondary.invalidated
    BY <1>1, <1>4 DEF InvalidateSecondary
  <2>1. r \in Key /\ r.next = "KEV_NONE" /\ r.current = "KEV_NONE"
    BY <1>2, <2>0, InvalidatedKey
  <2>2. KeyInv(r) /\ LifeInv(r)
    BY <1>2, <2>0, InvalidatedInv DEF CoreInv
  <2>3. Become(Ctx(primary, r, upcoming_key_id))
    BY <1>4 DEF InvalidateSecondary
  <2>4. ForcedInv(primary, r, 1)
    BY <1>1, SMT DEF PairInv, ForcedInv
  <2>. HIDE DEF r
  <2>5. r # NoKey
    BY <2>1, KeyFields
  <2>6. SuccessorInv(primary, r) /\ QueueInv(primary, r) /\ RaisedInv(primary, r)
    BY <1>1, <2>1, <2>5 DEF SuccessorInv, QueueInv, RaisedInv
  <2>9. CoreInv(primary, r)
    BY <1>2, <2>1, <2>2, <2>4, <2>6 DEF CoreInv
  <2>10. CoreInv(Ctx(primary, r, upcoming_key_id).p, Ctx(primary, r, upcoming_key_id).s)
        /\ Ctx(primary, r, upcoming_key_id).up \in 1 .. KeyIdMask
    BY <1>1, <2>9, CtxFields
  <2>. QED
    BY <1>1, <2>3, <2>10, Becoming
<1>. QED
  BY <1>3, <1>4

LEMMA TickKeeps ==
    ASSUME IInv, NEW d \in 1 .. MaxLeap, Tick(d)
    PROVE  IInv'
<1>. DEFINE p2 == Aged(primary, d, TRUE)
            s2 == Aged(secondary, d, FALSE)
<1>1. /\ primary \in Key /\ secondary \in Key \cup {NoKey} /\ pass = 0
      /\ TypeOK /\ PairInv(primary, secondary, 0) /\ ~ primary.invalidated
      /\ ~ Pending(primary) /\ ~ Pending(secondary)
      /\ (healthy => InTime(primary, d) /\ InTime(secondary, d))
      /\ primary' = p2 /\ secondary' = (IF secondary = NoKey THEN NoKey ELSE s2)
      /\ UNCHANGED conf /\ upcoming_key_id' = upcoming_key_id /\ pass' = 0
  BY DEF IInv, TypeOK, Tick, Idle
<1>2. /\ CoreInv(primary, secondary)
      /\ primary.current = "KEV_NONE"
      /\ secondary # NoKey => secondary \in Key /\ secondary.current = "KEV_NONE"
  BY <1>1, CoreOfIdle
<1>3. KeyInv(p2) /\ LifeInv(p2) /\ p2.current = "KEV_NONE" /\ (p2.next # "KEV_NONE" => p2.left >= Late)
  BY <1>1, <1>2, AgedInv DEF CoreInv
<1>4. /\ p2 \in Key /\ p2.age = Earlier(primary.age + d, MaxAge)
      /\ (p2.fired <=> primary.fired) /\ (p2.active <=> primary.active) /\ (p2.invalidated <=> primary.invalidated)
      /\ p2.next = primary.next
      /\ p2.left = (IF primary.next = "KEV_NONE" THEN primary.left ELSE primary.left - d)
  <2>1. primary \in Key /\ TRUE \in BOOLEAN
    BY <1>1
  <2>. QED
    BY <2>1, AgedSame
<1>5. secondary # NoKey =>
        KeyInv(s2) /\ LifeInv(s2) /\ s2.current = "KEV_NONE" /\ (s2.next # "KEV_NONE" => s2.left >= Late)
  BY <1>1, <1>2, AgedInv DEF CoreInv
<1>6. secondary # NoKey =>
        /\ s2 \in Key /\ (s2.fired <=> secondary.fired) /\ s2.next = secondary.next
        /\ s2.left = (IF secondary.next = "KEV_NONE" THEN secondary.left ELSE secondary.left - d)
  <2>. SUFFICES ASSUME secondary # NoKey
                PROVE  /\ s2 \in Key /\ (s2.fired <=> secondary.fired) /\ s2.next = secondary.next
                       /\ s2.left = (IF secondary.next = "KEV_NONE" THEN secondary.left ELSE secondary.left - d)
    OBVIOUS
  <2>1. secondary \in Key /\ FALSE \in BOOLEAN
    BY <1>2
  <2>. QED
    BY <2>1, AgedSame
<1>7. secondary # NoKey => s2 # NoKey
  BY <1>6, KeyFields
<1>8. primary.age \in Nat /\ primary.left \in Int /\ d \in Nat /\ (secondary # NoKey => secondary.left \in Int)
  BY <1>1, <1>2, KeyFields, SMT
<1>. HIDE DEF p2, s2
<1>. DEFINE z == IF secondary = NoKey THEN NoKey ELSE s2
<1>9. SuccessorInv(p2, z)
  BY <1>2, <1>4, <1>6, <1>7 DEF SuccessorInv, CoreInv
<1>10. QueueInv(p2, z)
  <2>1. CASE secondary = NoKey
    BY <2>1 DEF QueueInv
  <2>2. CASE secondary # NoKey
    <3>1. /\ s2.current = "KEV_NONE" /\ s2.next = secondary.next /\ (s2.fired <=> secondary.fired)
          /\ QueueInv(primary, secondary) /\ secondary.current = "KEV_NONE"
      BY <1>2, <1>5, <1>6, <2>2 DEF CoreInv
    <3>2. secondary.next = "KEV_BECOME_PRIMARY" => s2.left = secondary.left - d
      BY <1>6, <2>2
    <3>3. primary.next = "KEV_BECOME_PRIMARY" => p2.left = primary.left - d
      BY <1>4
    <3>4. QueueInv(p2, s2)
      BY <1>4, <1>8, <2>2, <3>1, <3>2, <3>3, SMT DEF QueueInv
    <3>. QED
      BY <2>2, <3>4
  <2>. QED
    BY <2>1, <2>2
<1>11. ForcedInv(p2, z, 0)
  <2>1. ForcedInv(primary, secondary, 0)
    BY <1>1 DEF PairInv
  <2>2. p2.age <= primary.age + d /\ p2.age \in Nat
    BY <1>4, <1>8, Constants, SMT DEF Earlier
  <2>. QED
    BY <1>4, <1>8, <2>1, <2>2, Constants, SMT DEF ForcedInv
<1>12. RaisedInv(p2, z) /\ IdleInv(p2, z, 0)
  BY <1>3, <1>5 DEF RaisedInv, IdleInv
<1>13. PairInv(p2, z, 0)
  BY <1>2, <1>3, <1>4, <1>5, <1>9, <1>10, <1>11, <1>12 DEF PairInv, CoreInv
<1>14. PairInv(primary, secondary, pass)'
  BY <1>1, <1>13, ConfKept
<1>15. TypeOK'
  BY <1>1, <1>4, <1>6 DEF TypeOK, conf
<1>. QED
  BY <1>14, <1>15 DEF IInv

LEMMA InitKeeps ==
    ASSUME Init
    PROVE  IInv
<1>. DEFINE r == NewKey(0)
<1>1. 0 \in 0 .. KeyIdMask
  BY Constants, SMT
<1>2. r \in Key /\ r # NoKey /\ r.current = "KEV_NONE" /\ r.next = "KEV_NEGOTIATE" /\ r.left = HandshakeWindow
      /\ ~ r.invalidated /\ KeyInv(r) /\ LifeInv(r)
  BY <1>1, NewKeyKey, NewKeyInv
<1>3. primary = r /\ secondary = NoKey /\ pass = 0 /\ upcoming_key_id = NextKeyId(0)
  BY DEF Init
<1>4. TypeOK
  BY <1>1, <1>2, <1>3, NextKeyIdRange DEF TypeOK, Init
<1>. HIDE DEF r
<1>5. r.left >= Late
  BY <1>2, Constants, SMT DEF Late
<1>6. PairInv(r, NoKey, 0)
  BY <1>2, <1>5 DEF PairInv, SuccessorInv, QueueInv, ForcedInv, RaisedInv, IdleInv
<1>. QED
  BY <1>3, <1>4, <1>6 DEF IInv

LEMMA StutterKeeps ==
    ASSUME IInv, UNCHANGED vars
    PROVE  IInv'
<1>1. /\ UNCHANGED conf /\ primary' = primary /\ secondary' = secondary
      /\ upcoming_key_id' = upcoming_key_id /\ pass' = pass
  BY DEF vars
<1>2. PairInv(primary, secondary, pass)'
  BY <1>1, ConfKept DEF IInv
<1>. QED
  BY <1>1, <1>2 DEF IInv, TypeOK, conf

(***************************************************************************)
(* IInv is an inductive invariant: whatever handlers, events, errors and   *)
(* clock steps do to the two keys, in any order, each key's scheduled      *)
(* event agrees with its state and its age, and a primary on its way out   *)
(* has a successor.                                                        *)
(***************************************************************************)
THEOREM Inductive == Spec => []IInv
<1>1. Init => IInv
  BY InitKeeps
<1>2. IInv /\ [Next]_vars => IInv'
  BY PassKeeps, ActiveKeeps, LimitKeeps, SoftResetKeeps, InvalidateKeeps, TickKeeps, StutterKeeps DEF Next
<1>. QED
  BY <1>1, <1>2, PTL DEF Spec

(***************************************************************************)
(* Type correctness of the two keys, the upcoming id and the pass: in      *)
(* particular next_key_id never hands out 0 again, and there always is a   *)
(* primary.                                                                *)
(***************************************************************************)
THEOREM TypeCorrect == Spec => []TypeOK
<1>1. IInv => TypeOK
  BY DEF IInv
<1>. QED
  BY <1>1, Inductive, PTL

(***************************************************************************)
(* A session whose negotiations complete within the handshake window is    *)
(* never ended by the timers of its keys, for every choice of the times.   *)
(***************************************************************************)
THEOREM Up == Spec => []StaysUp
<1>1. IInv => StaysUp
  BY DEF IInv, PairInv, StaysUp, Plain
<1>. QED
  BY <1>1, Inductive, PTL

(***************************************************************************)
(* A primary past its renegotiation time has a secondary that negotiates   *)
(* or waits to become primary, whatever timed out before: process_events   *)
(* neither drops the successor of a key that retires nor leaves one that   *)
(* failed without a replacement, unless an SSL or a decryption error has   *)
(* invalidated it.                                                         *)
(***************************************************************************)
THEOREM Rekeying == Spec => []RekeyUnderway
<1>1. ASSUME IInv PROVE RekeyUnderway
  <2>1. SUFFICES ASSUME Quiet, server \/ ~ limited, primary.since = BecomePrimary, ~ primary.fired,
                        primary.age >= Renegotiate
                 PROVE  /\ secondary # NoKey
                        /\ \/ secondary.next \in {"KEV_NEGOTIATE", "KEV_BECOME_PRIMARY"} /\ ~ secondary.invalidated
                           \/ errors /\ secondary.invalidated
    BY DEF RekeyUnderway
  <2>2. primary \in Key /\ KeyInv(primary) /\ LifeInv(primary) /\ SuccessorInv(primary, secondary)
        /\ (secondary # NoKey => KeyInv(secondary))
    BY <1>1 DEF IInv, TypeOK, PairInv
  <2>3. primary.age \in Nat /\ primary.left \in Int /\ primary # NoKey
    BY <2>2, KeyFields
  <2>4. ~ primary.invalidated /\ primary.next # "KEV_NONE" /\ primary.left > 0
    BY <2>1, <2>2, <2>3, SMT DEF Quiet, Idle, Pending, Due, KeyInv
  <2>5. primary.next \in {"KEV_EXPIRE", "KEV_RENEGOTIATE_FORCE"}
    <3>1. primary.next # "KEV_PRIMARY_PENDING"
      BY <2>1, <2>2 DEF KeyInv, Plain
    <3>. QED
      BY <2>1, <2>2, <2>3, <2>4, <3>1, Constants, SMT DEF KeyInv, LifeInv
  <2>6. /\ secondary # NoKey /\ KeyInv(secondary)
        /\ secondary.next \in {"KEV_NEGOTIATE", "KEV_BECOME_PRIMARY"} \/ (errors /\ secondary.next = "KEV_NONE")
    BY <2>1, <2>2, <2>4, <2>5 DEF SuccessorInv, Plain
  <2>. QED
    BY <2>6 DEF KeyInv
<1>. QED
  BY <1>1, Inductive, PTL

(***************************************************************************)
(* No key outlives its expiry by more than Overrun, however often the      *)
(* other key reschedules its event.                                        *)
(***************************************************************************)
THEOREM Lifetime == Spec => []KeyLifetime
<1>1. ASSUME IInv PROVE KeyLifetime
  <2>1. SUFFICES ASSUME Quiet, NEW k \in Live, ~ k.fired, ~ k.invalidated
                 PROVE  k.age <= Expire + Overrun
    BY DEF KeyLifetime
  <2>2. k \in Key /\ KeyInv(k) /\ LifeInv(k)
    BY <1>1, <2>1 DEF IInv, TypeOK, PairInv, Live
  <2>3. k.age \in Nat /\ k.left \in Int /\ k # NoKey
    BY <2>2, KeyFields
  <2>4. ~ Pending(k)
    BY <2>1 DEF Quiet, Live
  <2>5. k.next # "KEV_NONE" /\ k.left > 0
    BY <2>1, <2>2, <2>3, <2>4, SMT DEF Pending, Due, KeyInv
  <2>6. k.next = "KEV_RENEGOTIATE_FORCE" /\ k.active => k.age + k.left <= Expire + 2 * BecomePrimary + MaxLeap + 2
    <3>1. k = secondary /\ secondary # NoKey => k.next # "KEV_RENEGOTIATE_FORCE"
      BY <1>1 DEF IInv, PairInv, QueueInv
    <3>2. ForcedInv(primary, secondary, 0)
      BY <1>1, <2>1 DEF IInv, PairInv, Quiet, Idle
    <3>3. k = primary \/ (k = secondary /\ secondary # NoKey)
      BY <2>1 DEF Live
    <3>. QED
      BY <2>1, <3>1, <3>2, <3>3, SMT DEF ForcedInv
  <2>. QED
    BY <2>1, <2>2, <2>3, <2>5, <2>6, Constants, SMT DEF KeyInv, LifeInv, Overrun
<1>. QED
  BY <1>1, Inductive, PTL

LEMMA PassPromotes ==
    ASSUME IInv, ProcessEvents, primary'.key_id # primary.key_id,
           ~ (primary.next = "KEV_EXPIRE" /\ primary.left <= 0)
    PROVE  primary'.active /\ primary'.since = BecomePrimary
<1>1. PICK c, d : PassCase(c, d)
  BY Pass
<1>2. /\ PrimaryCase(primary, secondary, upcoming_key_id, c) /\ Midway(c.p, c.s) /\ Become(d)
      /\ \/ c.s = NoKey /\ d.p = c.p /\ d.s = NoKey /\ d.up = c.up
         \/ c.s # NoKey /\ SecondaryCase(c.p, c.s, c.up, d)
  BY <1>1, Zenon DEF PassCase
<1>3. c.p.key_id = primary.key_id
  <2>1. ~ (Due(primary) /\ primary.next = "KEV_EXPIRE")
    BY DEF Due
  <2>. QED
    BY <1>2, <2>1, Zenon DEF PrimaryCase, Scheduled, Failed, Like
<1>4. primary' = d.p
  BY <1>2 DEF Become
<1>5. /\ c.s # NoKey /\ Due(c.s) /\ c.s.next = "KEV_BECOME_PRIMARY"
      /\ Scheduled(d.p, c.s, "KEV_RENEGOTIATE", Renegotiate - c.s.age)
  <2>1. d.p.key_id # c.p.key_id
    BY <1>3, <1>4
  <2>. QED
    BY <1>2, <2>1, Zenon DEF SecondaryCase, Scheduled, Same, Like
<1>6. KeyInv(c.s) /\ c.s \in Key
  BY <1>2, <1>5 DEF Midway
<1>7. c.s.left \in Int
  BY <1>6, KeyFields
<1>8. c.s.active /\ c.s.since = BecomePrimary
  BY <1>5, <1>6, <1>7, Constants, SMT DEF KeyInv, Due
<1>. QED
  BY <1>4, <1>5, <1>8, Zenon DEF Scheduled, Like

LEMMA OtherStepsKeepId ==
    ASSUME IInv, [Next]_vars, ~ ProcessEvents
    PROVE  primary'.key_id = primary.key_id
<1>1. /\ primary \in Key /\ "now" \in {"none", "now", "queued"} /\ TRUE \in BOOLEAN
  BY DEF IInv, TypeOK
<1>2. CASE PrimaryActive
  <2>1. primary' = BecomesActive(primary)
    BY <1>2, CtxFields DEF PrimaryActive, Become
  <2>. QED
    BY <1>1, <2>1, ActiveKey
<1>3. CASE PrimaryLimit
  <2>1. primary' = ScheduleKeyLimitRenegotiation(primary, "now")
    BY <1>3, CtxFields DEF PrimaryLimit, Become
  <2>. QED
    BY <1>1, <2>1, LimitKey
<1>4. CASE SoftReset
  <2>1. primary' = [primary EXCEPT !.req = "none"]
    BY <1>4, CtxFields DEF SoftReset, Become, NewSecondary, Current
  <2>. QED
    BY <1>1, <2>1, UnaskedKey DEF Like
<1>5. CASE InvalidatePrimary
  <2>1. primary' = Invalidated(primary)
    BY <1>5, CtxFields DEF InvalidatePrimary, Become
  <2>. QED
    BY <1>1, <2>1, InvalidatedKey DEF Like
<1>6. CASE \E d \in 1 .. MaxLeap : Tick(d)
  <2>1. PICK d \in 1 .. MaxLeap : Tick(d)
    BY <1>6
  <2>2. primary' = Aged(primary, d, TRUE)
    BY <2>1 DEF Tick
  <2>. QED
    BY <1>1, <2>2, AgedSame
<1>7. CASE SecondaryActive \/ SecondaryLimit \/ InvalidateSecondary \/ UNCHANGED vars
  <2>1. primary' = primary
    <3>1. CASE SecondaryActive
      BY <3>1, CtxFields DEF SecondaryActive, Become
    <3>2. CASE SecondaryLimit
      BY <3>2, CtxFields DEF SecondaryLimit, Become
    <3>3. CASE InvalidateSecondary
      BY <3>3, CtxFields DEF InvalidateSecondary, Become
    <3>4. CASE UNCHANGED vars
      BY <3>4 DEF vars
    <3>. QED
      BY <1>7, <3>1, <3>2, <3>3, <3>4
  <2>. QED
    BY <2>1
<1>. QED
  BY <1>2, <1>3, <1>4, <1>5, <1>6, <1>7 DEF Next

(***************************************************************************)
(* A primary that has not expired is only ever replaced by a key that has  *)
(* been ACTIVE for the become_primary time, for every choice of the times  *)
(* and however late the clock is.                                          *)
(***************************************************************************)
THEOREM Promoted == Spec => PromotedReady
<1>. DEFINE Step == (\E k \in {secondary} \ {NoKey} : primary'.key_id = k.key_id /\ primary.key_id # k.key_id)
                    /\ ~ (primary.next = "KEV_EXPIRE" /\ primary.left <= 0)
                    => primary'.active /\ primary'.since = BecomePrimary
<1>1. ASSUME IInv, [Next]_vars PROVE [Step]_vars
  BY <1>1, PassPromotes, OtherStepsKeepId
<1>. QED
  BY <1>1, Inductive, PTL DEF Spec, PromotedReady

-----------------------------------------------------------------------------
(* flush ends *)

\* kev_error leaves an invalidated key its event: an invalidated primary must not be due.
LoopFree(p, s) ==
    p.invalidated => p.current = "KEV_NONE" /\ (Due(p) => s # NoKey /\ ~ s.invalidated)

Calm(k) == k = NoKey \/ (k.current = "KEV_NONE" /\ ~ Due(k))

Count(b) == IF b THEN 1 ELSE 0

\* The number of passes a key that nobody disturbs takes to come to rest.
Alone(k) ==
    IF ~ Due(k) THEN 0
    ELSE 1 + Count(k.next = "KEV_BECOME_PRIMARY" /\ k.age >= Renegotiate)
           + Count(k.next \in {"KEV_BECOME_PRIMARY", "KEV_RENEGOTIATE", "KEV_RENEGOTIATE_FORCE"}
                   /\ ~ k.fired /\ k.age >= Expire)

\* The same of a primary that is due, and of a secondary that is while the primary is not.
PrimaryRank(p, s) ==
    IF p.next = "KEV_EXPIRE"
      THEN IF s # NoKey /\ ~ s.invalidated THEN 1 + Alone(s) ELSE 1
      ELSE IF p.next \in {"KEV_BECOME_PRIMARY", "KEV_PRIMARY_PENDING"} /\ s # NoKey /\ Due(s)
             THEN 3 ELSE Alone(p)

SecondaryRank(s) ==
    IF s = NoKey \/ ~ Due(s) THEN 0
    ELSE IF s.next = "KEV_BECOME_PRIMARY" THEN 3
    ELSE IF s.next = "KEV_RENEGOTIATE" THEN 2 ELSE 1

Settled(p, s) == IF Due(p) THEN PrimaryRank(p, s) ELSE SecondaryRank(s)

\* A bound on the passes left.
Rank(p, s) ==
    IF s # NoKey /\ s.current # "KEV_NONE" THEN 5
    ELSE IF p.current # "KEV_NONE" THEN IF s # NoKey /\ Due(s) THEN 5 ELSE 1 + Alone(p)
    ELSE Settled(p, s)

LEMMA AloneBounds ==
    ASSUME NEW k \in Key
    PROVE  /\ Alone(k) \in 0 .. 3
           /\ Due(k) => Alone(k) >= 1
           /\ ~ Due(k) => Alone(k) = 0
           /\ k.next # "KEV_BECOME_PRIMARY" => Alone(k) <= 2
           /\ k.next \notin {"KEV_BECOME_PRIMARY", "KEV_RENEGOTIATE", "KEV_RENEGOTIATE_FORCE"} => Alone(k) <= 1
BY SMT DEF Alone, Count

LEMMA SettledBounds ==
    ASSUME NEW p \in Key, NEW s \in Key \cup {NoKey}
    PROVE  /\ Settled(p, s) \in 0 .. 4
           /\ Due(p) \/ (s # NoKey /\ Due(s)) => Settled(p, s) >= 1
           /\ s = NoKey \/ ~ Due(s) => Settled(p, s) <= Alone(p)
           /\ ~ Due(p) /\ (s # NoKey => s.next = "KEV_EXPIRE") => Settled(p, s) <= 1
           /\ p.next = "KEV_RENEGOTIATE" /\ (s # NoKey /\ Due(s) => s.next = "KEV_EXPIRE") => Settled(p, s) <= 2
<1>1. /\ Alone(p) \in 0 .. 3 /\ (Due(p) => Alone(p) >= 1) /\ (~ Due(p) => Alone(p) = 0)
      /\ p.next # "KEV_BECOME_PRIMARY" => Alone(p) <= 2
  BY AloneBounds
<1>2. s # NoKey => Alone(s) \in 0 .. 3 /\ (~ Due(s) => Alone(s) = 0)
  BY AloneBounds
<1>. QED
  BY <1>1, <1>2, SMT DEF Settled, PrimaryRank, SecondaryRank

LEMMA RankBounds ==
    ASSUME NEW p \in Key, NEW s \in Key \cup {NoKey}
    PROVE  /\ Rank(p, s) \in 0 .. 5
           /\ Pending(p) \/ Pending(s) => Rank(p, s) >= 1
           /\ (s # NoKey => s.current = "KEV_NONE") /\ (p.current # "KEV_NONE" => Calm(s)) => Rank(p, s) <= 4
<1>1. Alone(p) \in 0 .. 3
  BY AloneBounds
<1>2. /\ Settled(p, s) \in 0 .. 4
      /\ Due(p) \/ (s # NoKey /\ Due(s)) => Settled(p, s) >= 1
  BY SettledBounds
<1>. QED
  BY <1>1, <1>2, SMT DEF Rank, Pending, Calm

LEMMA NewKeyCalm ==
    ASSUME NEW up \in 1 .. KeyIdMask
    PROVE  NewKey(up) \in Key /\ Calm(NewKey(up)) /\ NewKey(up) # NoKey /\ ~ NewKey(up).invalidated
<1>1. up \in 0 .. KeyIdMask
  BY Constants, SMT
<1>2. NewKey(up) \in Key /\ NewKey(up) # NoKey /\ NewKey(up).current = "KEV_NONE"
      /\ ~ NewKey(up).invalidated /\ NewKey(up).left = HandshakeWindow
  BY <1>1, NewKeyKey
<1>. QED
  BY <1>2, Constants, SMT DEF Calm, Due

\* What the second half of a pass makes of a pair whose secondary has nothing raised.
CalmCase(p, s, d) ==
    \/ d.p = p /\ d.s = s /\ Calm(s)
    \/ s # NoKey /\ Due(s) /\ Same(d.p, p) /\ Calm(d.s)
    \/ /\ s # NoKey /\ Due(s) /\ s.next = "KEV_RENEGOTIATE"
       /\ d.p = p /\ d.s.next = "KEV_EXPIRE"
    \/ /\ s # NoKey /\ Due(s) /\ s.next = "KEV_BECOME_PRIMARY"
       /\ d.p.next = "KEV_RENEGOTIATE" /\ d.s.next = "KEV_EXPIRE"

LEMMA SecondCalms ==
    ASSUME NEW p \in Key, NEW s \in Key \cup {NoKey}, NEW up \in 1 .. KeyIdMask, NEW d,
           s # NoKey => s.current = "KEV_NONE",
           (s = NoKey /\ d.p = p /\ d.s = NoKey) \/ (s # NoKey /\ SecondaryCase(p, s, up, d))
    PROVE  CalmCase(p, s, d)
<1>1. Same(p, p)
  BY Zenon DEF Same, Like
<1>2. Calm(NewKey(up)) /\ Calm(NoKey)
  BY NewKeyCalm DEF Calm
<1>3. ASSUME NEW r, NEW k, Scheduled(r, k, "KEV_PRIMARY_PENDING", 2 * HandshakeWindow) PROVE Calm(r)
  BY <1>3, Constants, SMT DEF Scheduled, Calm, Due
<1>4. CASE s = NoKey
  BY <1>2, <1>4, Zenon DEF CalmCase
<1>5. CASE s # NoKey /\ ~ Due(s)
  <2>1. d.p = p /\ d.s = s
    BY <1>5, Zenon DEF SecondaryCase
  <2>. QED
    BY <1>5, <2>1, Zenon DEF CalmCase, Calm
<1>6. CASE s # NoKey /\ Due(s)
  <2>1. \/ d.p = p /\ Scheduled(d.s, s, "KEV_PRIMARY_PENDING", 2 * HandshakeWindow)
        \/ /\ s.next = "KEV_BECOME_PRIMARY" /\ Scheduled(d.p, s, "KEV_RENEGOTIATE", Renegotiate - s.age)
           /\ Scheduled(d.s, p, "KEV_EXPIRE", ExpiresIn(p))
        \/ s.next = "KEV_RENEGOTIATE" /\ d.p = p /\ Scheduled(d.s, s, "KEV_EXPIRE", ExpiresIn(s))
        \/ Same(d.p, p) /\ d.s = NewKey(up)
        \/ d.p = p /\ d.s = NoKey
    BY <1>6, Zenon DEF SecondaryCase
  <2>. QED
    BY <1>1, <1>2, <1>3, <1>6, <2>1, Zenon DEF CalmCase, Scheduled
<1>. QED
  BY <1>4, <1>5, <1>6

LEMMA AfterPass ==
    ASSUME NEW p \in Key, NEW s \in Key \cup {NoKey}, NEW up, NEW c, PrimaryCase(p, s, up, c),
           Midway(c.p, c.s), NEW up2 \in 1 .. KeyIdMask, NEW d,
           (c.s = NoKey /\ d.p = c.p /\ d.s = NoKey) \/ (c.s # NoKey /\ SecondaryCase(c.p, c.s, up2, d))
    PROVE  /\ d.s # NoKey => d.s.current = "KEV_NONE"
           /\ d.p.current # "KEV_NONE" => Calm(d.s)
<1>1. c.p \in Key /\ c.s \in Key \cup {NoKey}
  BY DEF Midway
<1>2. c.p.current = "KEV_NONE" \/ (c.s.next = "KEV_EXPIRE" /\ c.s.current = "KEV_NONE")
  BY Zenon DEF PrimaryCase, Scheduled, Failed
<1>3. NewKey(up2).current = "KEV_NONE"
  BY SMT DEF NewKey
<1>4. d.s # NoKey => d.s.current = "KEV_NONE"
  BY <1>3, Zenon DEF SecondaryCase, Scheduled
<1>5. CASE c.p.current = "KEV_NONE"
  <2>1. d.p.current = "KEV_NONE"
    BY <1>5, Zenon DEF SecondaryCase, Scheduled, Same
  <2>. QED
    BY <1>4, <2>1
<1>6. CASE c.s.next = "KEV_EXPIRE" /\ c.s.current = "KEV_NONE"
  <2>1. CalmCase(c.p, c.s, d)
    BY <1>1, <1>6, SecondCalms
  <2>2. Calm(d.s)
    BY <1>6, <2>1, Zenon DEF CalmCase
  <2>. QED
    BY <1>4, <2>2
<1>. QED
  BY <1>2, <1>5, <1>6

\* The second half of a pass whose primary is now not due, or renegotiates.
LEMMA CalmRank ==
    ASSUME NEW p \in Key, NEW s \in Key \cup {NoKey}, NEW d, d.p \in Key, d.s \in Key \cup {NoKey},
           CalmCase(p, s, d), ~ Due(p) \/ p.next = "KEV_RENEGOTIATE"
    PROVE  /\ Settled(d.p, d.s) <= 2
           /\ ~ Due(p) /\ Calm(s) => Settled(d.p, d.s) = 0
           /\ ~ Due(p) => Settled(d.p, d.s) + 1 <= SecondaryRank(s) \/ Settled(d.p, d.s) = 0
<1>. DEFINE p2 == d.p
            s2 == d.s
            n == Settled(p2, s2)
<1>1. /\ n \in 0 .. 4
      /\ s2 = NoKey \/ ~ Due(s2) => n <= Alone(p2)
      /\ ~ Due(p2) /\ (s2 # NoKey => s2.next = "KEV_EXPIRE") => n <= 1
      /\ p2.next = "KEV_RENEGOTIATE" /\ (s2 # NoKey /\ Due(s2) => s2.next = "KEV_EXPIRE") => n <= 2
  BY SettledBounds
<1>2. Alone(p2) \in 0 .. 3 /\ (~ Due(p2) => Alone(p2) = 0)
  BY AloneBounds
<1>. HIDE DEF p2, s2, n
<1>3. CASE p2 = p /\ s2 = s /\ Calm(s)
  BY <1>1, <1>2, <1>3, SMT DEF Calm, p2, s2, n
<1>4. CASE s # NoKey /\ Due(s) /\ Same(p2, p) /\ Calm(s2)
  <2>1. (Due(p2) <=> Due(p)) /\ p2.next = p.next
    BY <1>4 DEF Same, Due
  <2>. QED
    BY <1>1, <1>2, <1>4, <2>1, SMT DEF Calm, p2, s2, n
<1>5. CASE s # NoKey /\ Due(s) /\ s.next = "KEV_RENEGOTIATE" /\ p2 = p /\ s2.next = "KEV_EXPIRE"
  <2>1. SecondaryRank(s) = 2
    BY <1>5, SMT DEF SecondaryRank
  <2>. QED
    BY <1>1, <1>5, <2>1, SMT DEF Calm, p2, s2, n
<1>6. CASE s # NoKey /\ Due(s) /\ s.next = "KEV_BECOME_PRIMARY"
           /\ p2.next = "KEV_RENEGOTIATE" /\ s2.next = "KEV_EXPIRE"
  <2>1. SecondaryRank(s) = 3
    BY <1>6, SMT DEF SecondaryRank
  <2>. QED
    BY <1>1, <1>6, <2>1, SMT DEF Calm, p2, s2, n
<1>. QED
  BY <1>3, <1>4, <1>5, <1>6, Zenon DEF CalmCase, p2, s2

\* A pass in which nothing is raised when it begins.
LEMMA SettledLowers ==
    ASSUME NEW p \in Key, NEW s \in Key \cup {NoKey}, NEW up \in 1 .. KeyIdMask,
           KeyInv(p), s # NoKey => KeyInv(s), LoopFree(p, s),
           p.current = "KEV_NONE", s # NoKey => s.current = "KEV_NONE",
           Due(p) \/ (s # NoKey /\ Due(s)),
           NEW c, PrimaryCase(p, s, up, c), c.p \in Key, c.s \in Key \cup {NoKey},
           NEW d, CalmCase(c.p, c.s, d), d.p \in Key, d.s \in Key \cup {NoKey}
    PROVE  Settled(d.p, d.s) + 1 <= Settled(p, s)
<1>. DEFINE p1 == c.p
            s1 == c.s
            n == Settled(d.p, d.s)
            m == Settled(p, s)
<1>1. n \in 0 .. 4 /\ m \in 0 .. 4 /\ m >= 1
  BY SettledBounds
<1>2. /\ p.age \in Nat /\ p.left \in Int /\ p # NoKey /\ p.fired \in BOOLEAN /\ p.invalidated \in BOOLEAN
      /\ s # NoKey => s \in Key /\ s.invalidated \in BOOLEAN
  BY KeyFields
<1>3. Alone(p) \in 0 .. 3 /\ (s # NoKey => Alone(s) \in 0 .. 3)
  BY AloneBounds
<1>4. ~ Due(p1) \/ p1.next = "KEV_RENEGOTIATE" =>
        /\ n <= 2
        /\ ~ Due(p1) /\ Calm(s1) => n = 0
        /\ ~ Due(p1) => n + 1 <= SecondaryRank(s1) \/ n = 0
  BY CalmRank
<1>. HIDE DEF p1, s1, n, m
<1>5. CASE ~ Due(p)
  <2>1. p1 = p /\ s1 = s
    BY <1>5, Zenon DEF PrimaryCase, p1, s1
  <2>2. m = SecondaryRank(s)
    BY <1>5, Zenon DEF m, Settled
  <2>. QED
    BY <1>1, <1>4, <1>5, <2>1, <2>2, SMT DEF n, m
<1>6. CASE Due(p) /\ p.next = "KEV_BECOME_PRIMARY" /\ s1 = s
           /\ (Scheduled(p1, p, "KEV_PRIMARY_PENDING", 2 * HandshakeWindow)
               \/ Scheduled(p1, p, "KEV_RENEGOTIATE", Renegotiate - p.age))
  <2>1. ~ Due(p1) \/ p1.next = "KEV_RENEGOTIATE"
    BY <1>6, Constants, SMT DEF Scheduled, Due
  <2>2. CASE s # NoKey /\ Due(s)
    <3>1. m = 3
      BY <1>6, <2>2, SMT DEF m, Settled, PrimaryRank
    <3>. QED
      BY <1>1, <1>4, <2>1, <3>1, SMT DEF n, m
  <2>3. CASE s = NoKey \/ ~ Due(s)
    <3>1. Calm(s) /\ m = Alone(p)
      BY <1>6, <2>3, SMT DEF m, Settled, PrimaryRank, Calm
    <3>2. CASE ~ Due(p1)
      BY <1>1, <1>4, <1>6, <3>1, <3>2, SMT DEF n, m
    <3>3. CASE Due(p1) /\ Scheduled(p1, p, "KEV_RENEGOTIATE", Renegotiate - p.age)
      <4>1. p.age >= Renegotiate /\ p1.age = p.age /\ (p1.fired <=> p.fired) /\ p1.next = "KEV_RENEGOTIATE"
        BY <1>2, <3>3, Constants, SMT DEF Scheduled, Like, Due
      <4>2. Alone(p1) + 1 <= Alone(p)
        BY <1>2, <1>6, <3>3, <4>1, SMT DEF Alone, Count
      <4>3. d.p = p1 /\ d.s = s
        BY <1>6, <2>3, Zenon DEF CalmCase, p1, s1
      <4>4. n <= Alone(p1) /\ Alone(p1) \in 0 .. 3
        BY <2>3, <4>3, SettledBounds, AloneBounds DEF n
      <4>. QED
        BY <1>1, <1>3, <3>1, <4>2, <4>4, SMT DEF n, m
    <3>. QED
      BY <1>6, <2>1, <3>2, <3>3, Constants, SMT DEF Scheduled, Due
  <2>. QED
    BY <2>2, <2>3
<1>7. CASE Due(p) /\ p.next \in {"KEV_RENEGOTIATE", "KEV_RENEGOTIATE_FORCE"}
           /\ Scheduled(p1, p, "KEV_EXPIRE", ExpiresIn(p)) /\ s1 = NewKey(up)
  <2>1. s1 \in Key /\ Calm(s1) /\ s1 # NoKey /\ ~ s1.invalidated
    BY <1>7, NewKeyCalm
  <2>2. m = Alone(p)
    BY <1>7, SMT DEF m, Settled, PrimaryRank
  <2>3. CASE ~ Due(p1)
    BY <1>1, <1>4, <2>1, <2>3, SMT DEF n, m
  <2>4. CASE Due(p1)
    <3>1. ~ p.fired /\ p.age >= Expire
      BY <1>2, <1>7, <2>4, Constants, SMT DEF Scheduled, Due, ExpiresIn
    <3>2. m = 2
      BY <1>2, <1>7, <2>2, <3>1, SMT DEF Alone, Count
    <3>3. d.p = p1 /\ d.s = s1
      BY <2>1, Zenon DEF CalmCase, Calm, p1, s1
    <3>4. n <= Alone(p1) /\ Alone(p1) <= 1 /\ Alone(p1) \in 0 .. 3
      <4>1. p1 \in Key /\ p1.next = "KEV_EXPIRE"
        BY <1>7 DEF Scheduled, Like
      <4>2. Alone(p1) <= 1 /\ Alone(p1) \in 0 .. 3
        BY <4>1, AloneBounds
      <4>. QED
        BY <2>1, <3>3, <4>1, <4>2, SettledBounds DEF n, Calm
    <3>. QED
      BY <1>1, <3>2, <3>4, SMT DEF n, m
  <2>. QED
    BY <2>3, <2>4
<1>8. CASE Due(p) /\ p.next = "KEV_EXPIRE" /\ s # NoKey /\ ~ s.invalidated /\ p1 = s
           /\ (\E q \in Key : Failed(q, p) /\ Scheduled(s1, q, "KEV_EXPIRE", ExpiresIn(q)))
  <2>1. m = 1 + Alone(s)
    BY <1>8, SMT DEF m, Settled, PrimaryRank
  <2>2. Same(d.p, s) /\ Calm(d.s)
    <3>1. s1.next = "KEV_EXPIRE"
      BY <1>8, Zenon DEF Scheduled
    <3>2. s1.next # "KEV_RENEGOTIATE" /\ s1.next # "KEV_BECOME_PRIMARY"
      BY <3>1
    <3>3. Same(s, s)
      BY <1>2, <1>8, Zenon DEF Same, Like
    <3>. QED
      BY <1>8, <3>2, <3>3, Zenon DEF CalmCase, p1, s1
  <2>3. Alone(d.p) = Alone(s)
    BY <2>2 DEF Same, Like, Alone, Due
  <2>4. n <= Alone(d.p)
    BY <2>2, SettledBounds DEF n, Calm
  <2>. QED
    BY <1>1, <1>3, <1>8, <2>1, <2>3, <2>4, SMT DEF n, m
<1>9. CASE Due(p) /\ p1.next = "KEV_NONE" /\ (s1 = NoKey \/ s1.next \in {"KEV_NONE", "KEV_EXPIRE"})
  <2>1. SecondaryRank(s1) <= 1 /\ SecondaryRank(s1) \in Nat
    BY <1>9, SMT DEF SecondaryRank, Due
  <2>2. ~ Due(p1)
    BY <1>9 DEF Due
  <2>. QED
    BY <1>1, <1>4, <2>1, <2>2, SMT DEF n, m
<1>10. CASE Due(p) /\ p1.next = "KEV_NONE" /\ p.next = "KEV_PRIMARY_PENDING" /\ s1 = s
  <2>1. ~ Due(p1)
    BY <1>10 DEF Due
  <2>2. CASE s # NoKey /\ Due(s)
    <3>1. m = 3
      BY <1>10, <2>2, SMT DEF m, Settled, PrimaryRank
    <3>. QED
      BY <1>1, <1>4, <2>1, <3>1, SMT DEF n, m
  <2>3. CASE s = NoKey \/ ~ Due(s)
    <3>1. Calm(s)
      BY <2>3 DEF Calm
    <3>. QED
      BY <1>1, <1>4, <1>10, <2>1, <3>1, SMT DEF n, m
  <2>. QED
    BY <2>2, <2>3
<1>11. ASSUME Due(p), p.next = "KEV_EXPIRE", s = NoKey \/ s.invalidated, Failed(p1, p), s1 = s
       PROVE  p1.next = "KEV_NONE" /\ (s1 = NoKey \/ s1.next \in {"KEV_NONE", "KEV_EXPIRE"})
  BY <1>11, Zenon DEF Failed, LoopFree, KeyInv
<1>12. ASSUME Due(p), p.next \in {"KEV_NEGOTIATE", "KEV_PRIMARY_PENDING"}, Failed(p1, p)
       PROVE  p1.next = "KEV_NONE"
  <2>1. ~ p.invalidated
    BY <1>12 DEF KeyInv
  <2>. QED
    BY <1>12, <2>1 DEF Failed
<1>13. s1 = (IF s = NoKey THEN NoKey ELSE Invalidated(s)) => s1 = NoKey \/ s1.next \in {"KEV_NONE", "KEV_EXPIRE"}
  <2>1. CASE s = NoKey
    BY <2>1
  <2>2. CASE s # NoKey
    <3>1. Invalidated(s).next = IF s.invalidated THEN s.next ELSE "KEV_NONE"
      BY <1>2, <2>2, InvalidatedKey
    <3>2. s.invalidated => s.next \in {"KEV_NONE", "KEV_EXPIRE"}
      BY <2>2 DEF KeyInv
    <3>. QED
      BY <2>2, <3>1, <3>2, Zenon
  <2>. QED
    BY <2>1, <2>2
<1>14. p.next \in {"KEV_NEGOTIATE", "KEV_PRIMARY_PENDING"} <=> p.next = "KEV_NEGOTIATE" \/ p.next = "KEV_PRIMARY_PENDING"
  OBVIOUS
<1>15. \/ ~ Due(p)
       \/ /\ p.next = "KEV_BECOME_PRIMARY" /\ s1 = s
          /\ Scheduled(p1, p, "KEV_PRIMARY_PENDING", 2 * HandshakeWindow)
             \/ Scheduled(p1, p, "KEV_RENEGOTIATE", Renegotiate - p.age)
       \/ /\ p.next \in {"KEV_RENEGOTIATE", "KEV_RENEGOTIATE_FORCE"}
          /\ Scheduled(p1, p, "KEV_EXPIRE", ExpiresIn(p)) /\ s1 = NewKey(up)
       \/ /\ p.next = "KEV_EXPIRE" /\ s # NoKey /\ ~ s.invalidated /\ p1 = s
          /\ \E q \in Key : Failed(q, p) /\ Scheduled(s1, q, "KEV_EXPIRE", ExpiresIn(q))
       \/ p.next = "KEV_EXPIRE" /\ (s = NoKey \/ s.invalidated) /\ Failed(p1, p) /\ s1 = s
       \/ p.next = "KEV_NEGOTIATE" /\ Failed(p1, p) /\ s1 = (IF s = NoKey THEN NoKey ELSE Invalidated(s))
       \/ p.next = "KEV_PRIMARY_PENDING" /\ Failed(p1, p) /\ s1 = s
  BY Zenon DEF PrimaryCase, p1, s1
<1>. QED
  BY <1>5, <1>6, <1>7, <1>8, <1>9, <1>10, <1>11, <1>12, <1>13, <1>14, <1>15, Zenon DEF n, m

\* Every pass leaves fewer passes to go.
LEMMA PassLowers ==
    ASSUME IInv, LoopFree(primary, secondary), Pending(primary) \/ Pending(secondary),
           NEW c, NEW d, PassCase(c, d), d.p \in Key, d.s \in Key \cup {NoKey}
    PROVE  Rank(d.p, d.s) + 1 <= Rank(primary, secondary)
<1>1. /\ primary \in Key /\ secondary \in Key \cup {NoKey} /\ upcoming_key_id \in 1 .. KeyIdMask
      /\ primary # NoKey /\ KeyInv(primary) /\ (secondary # NoKey => KeyInv(secondary))
  BY KeyFields DEF IInv, TypeOK, PairInv
<1>2. /\ PrimaryCase(primary, secondary, upcoming_key_id, c) /\ Midway(c.p, c.s) /\ c.up \in 1 .. KeyIdMask
      /\ (c.s = NoKey /\ d.p = c.p /\ d.s = NoKey) \/ (c.s # NoKey /\ SecondaryCase(c.p, c.s, c.up, d))
  BY Zenon DEF PassCase
<1>3. /\ d.s # NoKey => d.s.current = "KEV_NONE"
      /\ d.p.current # "KEV_NONE" => Calm(d.s)
  BY <1>1, <1>2, AfterPass
<1>4. Rank(d.p, d.s) \in 0 .. 4
  BY <1>3, RankBounds
<1>5. CASE \/ secondary # NoKey /\ secondary.current # "KEV_NONE"
           \/ primary.current # "KEV_NONE" /\ secondary # NoKey /\ Due(secondary)
  <2>1. Rank(primary, secondary) = 5
    BY <1>5, Zenon DEF Rank
  <2>. QED
    BY <1>4, <2>1, SMT
<1>6. CASE primary.current # "KEV_NONE" /\ Calm(secondary)
  <2>1. Rank(primary, secondary) = 1 + Alone(primary) /\ Alone(primary) \in 0 .. 3
    <3>1. Rank(primary, secondary) = 1 + Alone(primary)
      BY <1>6, Zenon DEF Rank, Calm
    <3>. QED
      BY <1>1, <3>1, AloneBounds
  <2>2. Scheduled(c.p, primary, primary.next, primary.left) /\ c.s = secondary
    BY <1>2, <1>6, Zenon DEF PrimaryCase
  <2>3. CalmCase(c.p, c.s, d)
    BY <1>2, <1>6, <2>2, SecondCalms DEF Midway, Calm
  <2>4. d.p = c.p /\ d.s = secondary
    BY <1>6, <2>2, <2>3, Zenon DEF CalmCase, Calm
  <2>5. Alone(d.p) = Alone(primary) /\ d.p.current = "KEV_NONE"
    BY <2>2, <2>4 DEF Scheduled, Like, Alone, Due
  <2>6. Rank(d.p, d.s) = Settled(d.p, d.s)
    BY <1>3, <2>5, Zenon DEF Rank
  <2>7. Settled(d.p, d.s) <= Alone(d.p)
    BY <1>6, <2>4, SettledBounds DEF Calm
  <2>. QED
    BY <1>4, <2>1, <2>5, <2>6, <2>7, SMT
<1>7. CASE primary.current = "KEV_NONE" /\ (secondary # NoKey => secondary.current = "KEV_NONE")
  <2>1. Due(primary) \/ (secondary # NoKey /\ Due(secondary))
    BY <1>7 DEF Pending
  <2>2. c.p.current = "KEV_NONE" /\ (c.s # NoKey => c.s.current = "KEV_NONE")
    <3>1. NewKey(upcoming_key_id).current = "KEV_NONE"
      BY SMT DEF NewKey
    <3>2. secondary # NoKey => Invalidated(secondary).current = "KEV_NONE"
      BY <1>1, <1>7, InvalidatedKey
    <3>3. c.p.current = "KEV_NONE"
      BY <1>2, <1>7, Zenon DEF PrimaryCase, Scheduled, Failed
    <3>4. c.s # NoKey => c.s.current = "KEV_NONE"
      BY <1>2, <1>7, <3>1, <3>2, Zenon DEF PrimaryCase, Scheduled
    <3>. QED
      BY <3>3, <3>4
  <2>3. CalmCase(c.p, c.s, d) /\ c.p \in Key /\ c.s \in Key \cup {NoKey}
    BY <1>2, <2>2, SecondCalms DEF Midway
  <2>4. Settled(d.p, d.s) + 1 <= Settled(primary, secondary)
    BY <1>1, <1>2, <1>7, <2>1, <2>3, SettledLowers
  <2>5. d.p.current = "KEV_NONE"
    BY <1>2, <2>2, Zenon DEF SecondaryCase, Scheduled, Same
  <2>6. Rank(d.p, d.s) = Settled(d.p, d.s) /\ Rank(primary, secondary) = Settled(primary, secondary)
    BY <1>3, <1>7, <2>5, Zenon DEF Rank
  <2>. QED
    BY <2>4, <2>6
<1>8. secondary # NoKey /\ secondary.current = "KEV_NONE" /\ ~ Due(secondary) => Calm(secondary)
  BY DEF Calm
<1>9. secondary = NoKey => Calm(secondary)
  BY DEF Calm
<1>. QED
  BY <1>5, <1>6, <1>7, <1>8, <1>9, Zenon

\* The timer of housekeeping is never late by the time from the handshake window to the expiry.
Punctual == HandshakeWindow + MaxLeap <= Expire

\* LoopFree between the two halves of a pass.
LoopFreeMidway(p, s) ==
    p.invalidated =>
    /\ p.current = "KEV_NONE" /\ ~ Due(p)
    /\ s # NoKey /\ s.current # "KEV_NONE" => ~ s.invalidated \/ p.age < Expire

LEMMA LoopFreeHalfway ==
    ASSUME Punctual, NEW p \in Key, NEW s \in Key \cup {NoKey}, NEW up, NEW n, PairInv(p, s, n), LoopFree(p, s),
           NEW c, PrimaryCase(p, s, up, c)
    PROVE  LoopFreeMidway(c.p, c.s)
<1>. DEFINE p1 == c.p
            s1 == c.s
<1>1. KeyInv(p) /\ RaisedInv(p, s)
  BY DEF PairInv
<1>2. p.age \in Nat /\ p.left \in Int /\ (s # NoKey => s \in Key)
  BY KeyFields
<1>. HIDE DEF p1, s1
<1>3. CASE p.current # "KEV_NONE" /\ Scheduled(p1, p, p.next, p.left)
  BY <1>3, Zenon DEF LoopFree, LoopFreeMidway, Scheduled, p1, s1
<1>4. CASE p.current = "KEV_NONE" /\ ~ Due(p) /\ p1 = p /\ s1 = s
  BY <1>1, <1>4, Zenon DEF RaisedInv, LoopFreeMidway, p1, s1
<1>5. CASE Due(p) /\ ~ p.invalidated /\ (p1.invalidated <=> p.invalidated)
  BY <1>5, Zenon DEF LoopFreeMidway, p1, s1
<1>6. CASE Due(p) /\ s # NoKey /\ ~ s.invalidated /\ p1 = s
  BY <1>6, Zenon DEF LoopFreeMidway, p1, s1
<1>7. CASE p1.current = "KEV_NONE" /\ p1.next = "KEV_NONE" /\ (s1 = s \/ p1.age < Expire)
  <2>1. ~ Due(p1)
    BY <1>7 DEF Due
  <2>. QED
    BY <1>1, <1>7, <2>1, Zenon DEF RaisedInv, LoopFreeMidway, p1, s1
<1>8. ASSUME Due(p), p.next = "KEV_EXPIRE", s = NoKey \/ s.invalidated, Failed(p1, p)
      PROVE  p1.current = "KEV_NONE" /\ p1.next = "KEV_NONE"
  BY <1>8, Zenon DEF Failed, LoopFree
<1>9. ASSUME Due(p), p.next = "KEV_NEGOTIATE" \/ p.next = "KEV_PRIMARY_PENDING", Failed(p1, p)
      PROVE  p1.current = "KEV_NONE" /\ p1.next = "KEV_NONE"
  <2>1. ~ p.invalidated
    BY <1>1, <1>9 DEF KeyInv
  <2>. QED
    BY <1>9, <2>1 DEF Failed
<1>10. ASSUME p.next = "KEV_NEGOTIATE", Failed(p1, p) PROVE p1.age < Expire
  BY <1>1, <1>2, <1>10, Constants, SMT DEF KeyInv, Late, Punctual, Failed, Like
<1>11. p.next = "KEV_BECOME_PRIMARY" \/ p.next \in {"KEV_RENEGOTIATE", "KEV_RENEGOTIATE_FORCE"} => ~ p.invalidated
  BY <1>1 DEF KeyInv
<1>12. \/ p.current # "KEV_NONE" /\ Scheduled(p1, p, p.next, p.left)
       \/ p.current = "KEV_NONE" /\ ~ Due(p) /\ p1 = p /\ s1 = s
       \/ /\ Due(p) /\ (p1.invalidated <=> p.invalidated)
          /\ p.next = "KEV_BECOME_PRIMARY" \/ p.next \in {"KEV_RENEGOTIATE", "KEV_RENEGOTIATE_FORCE"}
       \/ Due(p) /\ s # NoKey /\ ~ s.invalidated /\ p1 = s
       \/ Due(p) /\ p.next = "KEV_EXPIRE" /\ (s = NoKey \/ s.invalidated) /\ Failed(p1, p) /\ s1 = s
       \/ Due(p) /\ p.next = "KEV_NEGOTIATE" /\ Failed(p1, p)
       \/ Due(p) /\ p.next = "KEV_PRIMARY_PENDING" /\ Failed(p1, p) /\ s1 = s
  BY Zenon DEF PrimaryCase, Scheduled, p1, s1
<1>. QED
  BY <1>3, <1>4, <1>5, <1>6, <1>7, <1>8, <1>9, <1>10, <1>11, <1>12, Zenon

LEMMA LoopFreeAfter ==
    ASSUME NEW p, NEW s, NEW up \in 1 .. KeyIdMask, Midway(p, s), LoopFreeMidway(p, s),
           NEW d, (s = NoKey /\ d.p = p /\ d.s = NoKey) \/ (s # NoKey /\ SecondaryCase(p, s, up, d))
    PROVE  LoopFree(d.p, d.s)
<1>. DEFINE p2 == d.p
            s2 == d.s
<1>1. /\ p \in Key /\ s \in Key \cup {NoKey} /\ KeyInv(p) /\ (s # NoKey => KeyInv(s))
      /\ RaisedMidway(p, s) /\ QueueInv(p, s)
  BY DEF Midway
<1>2. p.age \in Nat /\ p.left \in Int /\ p.fired \in BOOLEAN
  BY <1>1, KeyFields
<1>. HIDE DEF p2, s2
<1>3. CASE p2 = p \/ Same(p2, p)
  BY <1>3, Zenon DEF LoopFree, LoopFreeMidway, Same, Due, p2, s2
<1>4. CASE s # NoKey /\ s.current = "KEV_ACTIVE" /\ Scheduled(p2, p, "KEV_EXPIRE", ExpiresIn(p))
           /\ Scheduled(s2, s, s.next, s.left)
  <2>1. s2 # NoKey /\ p2.current = "KEV_NONE" /\ (p2.invalidated <=> p.invalidated) /\ (s2.invalidated <=> s.invalidated)
    BY <1>4, KeyFields DEF Scheduled, Like
  <2>2. Due(p2) => p.age >= Expire
    BY <1>2, <1>4, Constants, SMT DEF Scheduled, ExpiresIn, Due
  <2>3. p.age < Expire => ~ Due(p2)
    BY <1>2, <2>2, Constants, SMT
  <2>. QED
    BY <1>4, <2>1, <2>3, Zenon DEF LoopFree, LoopFreeMidway, p2, s2
<1>5. CASE s # NoKey /\ s.current = "KEV_RENEGOTIATE_QUEUE" /\ s.next = "KEV_BECOME_PRIMARY"
           /\ Scheduled(p2, p, "KEV_RENEGOTIATE_FORCE", s.left + LimitDelay)
  <2>1. ~ s.invalidated /\ server
    BY <1>1, <1>5 DEF KeyInv, QueueInv
  <2>2. ~ p.invalidated
    BY <1>1, <1>5, <2>1 DEF RaisedMidway
  <2>. QED
    BY <1>5, <2>2, Zenon DEF LoopFree, Scheduled, p2, s2
<1>6. CASE s # NoKey /\ s.next = "KEV_BECOME_PRIMARY" /\ Scheduled(p2, s, "KEV_RENEGOTIATE", Renegotiate - s.age)
  <2>1. ~ s.invalidated
    BY <1>1, <1>6 DEF KeyInv
  <2>. QED
    BY <1>6, <2>1, Zenon DEF LoopFree, Scheduled, p2, s2
<1>. QED
  BY <1>3, <1>4, <1>5, <1>6, Zenon DEF SecondaryCase, p2, s2

FlushInv ==
    /\ LoopFree(primary, secondary)
    /\ pass > 0 => (Pending(primary) \/ Pending(secondary)) /\ pass + Rank(primary, secondary) <= 6

LEMMA PassKeepsFlush ==
    ASSUME Punctual, IInv, FlushInv, ProcessEvents
    PROVE  FlushInv'
<1>1. PICK c, d : PassCase(c, d)
  BY Pass
<1>2. /\ PrimaryCase(primary, secondary, upcoming_key_id, c) /\ Midway(c.p, c.s) /\ c.up \in 1 .. KeyIdMask
      /\ (c.s = NoKey /\ d.p = c.p /\ d.s = NoKey) \/ (c.s # NoKey /\ SecondaryCase(c.p, c.s, c.up, d))
      /\ Become(d)
  BY <1>1, Zenon DEF PassCase
<1>3. /\ primary' = d.p /\ secondary' = d.s
      /\ pass' = IF Pending(d.p) \/ Pending(d.s) THEN pass + 1 ELSE 0
  BY <1>2 DEF Become
<1>4. d.p \in Key /\ d.s \in Key \cup {NoKey}
  <2>1. IInv'
    BY PassKeeps
  <2>. QED
    BY <1>3, <2>1 DEF IInv, TypeOK
<1>5. primary \in Key /\ secondary \in Key \cup {NoKey} /\ pass \in Nat /\ PairInv(primary, secondary, pass)
  BY DEF IInv, TypeOK
<1>6. LoopFree(d.p, d.s)
  <2>1. LoopFreeMidway(c.p, c.s)
    BY <1>2, <1>5, LoopFreeHalfway DEF FlushInv
  <2>. QED
    BY <1>2, <2>1, LoopFreeAfter
<1>7. Rank(d.p, d.s) + 1 <= Rank(primary, secondary)
  BY <1>1, <1>4, PassLowers DEF FlushInv, ProcessEvents
<1>8. Rank(d.p, d.s) \in 0 .. 5 /\ Rank(primary, secondary) \in 0 .. 5
  BY <1>4, <1>5, RankBounds
<1>9. pass' > 0 => (Pending(d.p) \/ Pending(d.s)) /\ pass' + Rank(d.p, d.s) <= 6
  BY <1>3, <1>5, <1>7, <1>8, SMT DEF FlushInv
<1>. QED
  BY <1>3, <1>6, <1>9 DEF FlushInv

LEMMA HandlerKeepsFlush ==
    ASSUME IInv, IInv', pass = 0, NEW c, Become(c),
           c.p.invalidated => c.p.current = "KEV_NONE" /\ c.p.next = "KEV_NONE"
    PROVE  FlushInv'
<1>1. /\ primary' = c.p /\ secondary' = c.s
      /\ pass' = IF Pending(c.p) \/ Pending(c.s) THEN 1 ELSE 0
  BY DEF Become
<1>2. c.p \in Key /\ c.s \in Key \cup {NoKey}
  BY <1>1 DEF IInv, TypeOK
<1>3. Rank(c.p, c.s) \in 0 .. 5
  BY <1>2, RankBounds
<1>4. LoopFree(c.p, c.s)
  BY DEF LoopFree, Due
<1>. QED
  BY <1>1, <1>3, <1>4, SMT DEF FlushInv

LEMMA OtherStepsKeepFlush ==
    ASSUME IInv, IInv', FlushInv, [Next]_vars, ~ ProcessEvents
    PROVE  FlushInv'
<1>1. primary \in Key /\ "now" \in {"none", "now", "queued"} /\ TRUE \in BOOLEAN
  BY DEF IInv, TypeOK
<1>2. ASSUME NEW p, NEW s, NEW up, Idle, Become(Ctx(p, s, up)),
             p.invalidated => p.current = "KEV_NONE" /\ p.next = "KEV_NONE"
      PROVE  FlushInv'
  <2>1. pass = 0 /\ Ctx(p, s, up).p = p
    BY <1>2, CtxFields DEF Idle
  <2>. QED
    BY <1>2, <2>1, HandlerKeepsFlush
<1>3. CASE PrimaryActive
  <2>1. Idle /\ Become(Ctx(BecomesActive(primary), secondary, upcoming_key_id)) /\ ~ primary.invalidated
    BY <1>3 DEF PrimaryActive, Idle
  <2>2. ~ BecomesActive(primary).invalidated
    BY <1>1, <2>1, ActiveKey
  <2>. QED
    BY <1>2, <2>1, <2>2
<1>4. CASE PrimaryLimit
  <2>1. Idle /\ Become(Ctx(ScheduleKeyLimitRenegotiation(primary, "now"), secondary, upcoming_key_id))
        /\ ~ primary.invalidated
    BY <1>4 DEF PrimaryLimit, Idle
  <2>2. ~ ScheduleKeyLimitRenegotiation(primary, "now").invalidated
    BY <1>1, <2>1, LimitKey
  <2>. QED
    BY <1>2, <2>1, <2>2
<1>5. CASE SoftReset
  <2>1. /\ Idle /\ ~ primary.invalidated
        /\ Become(Ctx([primary EXCEPT !.req = "none"], NewKey(upcoming_key_id), NextKeyId(upcoming_key_id)))
    BY <1>5, CtxFields DEF SoftReset, Idle, NewSecondary, Current
  <2>2. ~ [primary EXCEPT !.req = "none"].invalidated
    BY <1>1, <2>1, UnaskedKey
  <2>. QED
    BY <1>2, <2>1, <2>2
<1>6. CASE InvalidatePrimary
  <2>1. Idle /\ Become(Ctx(Invalidated(primary), secondary, upcoming_key_id)) /\ ~ primary.invalidated
    BY <1>6 DEF InvalidatePrimary, Idle
  <2>2. primary.current = "KEV_NONE"
    BY <1>1, <2>1, KeyFields DEF IInv, PairInv, IdleInv, Idle
  <2>3. Invalidated(primary).current = "KEV_NONE" /\ Invalidated(primary).next = "KEV_NONE"
    BY <1>1, <2>1, <2>2, InvalidatedKey
  <2>. QED
    BY <1>2, <2>1, <2>3
<1>7. CASE \E d \in 1 .. MaxLeap : Tick(d)
  <2>1. PICK d \in 1 .. MaxLeap : Tick(d)
    BY <1>7
  <2>2. primary' = Aged(primary, d, TRUE) /\ pass' = 0 /\ ~ primary.invalidated
    BY <2>1 DEF Tick, Idle
  <2>3. ~ Aged(primary, d, TRUE).invalidated
    BY <1>1, <2>2, AgedSame
  <2>4. LoopFree(primary', secondary')
    BY <2>2, <2>3, Zenon DEF LoopFree
  <2>5. ~ (pass' > 0)
    BY <2>2, SMT
  <2>. QED
    BY <2>4, <2>5, Zenon DEF FlushInv
<1>8. CASE SecondaryActive
  <2>1. Idle /\ Become(Ctx(primary, BecomesActive(secondary), upcoming_key_id)) /\ ~ primary.invalidated
    BY <1>8 DEF SecondaryActive, Idle
  <2>. QED
    BY <1>2, <2>1
<1>9. CASE SecondaryLimit
  <2>1. /\ Idle /\ ~ primary.invalidated
        /\ \E s : Become(Ctx(primary, s, upcoming_key_id))
    BY <1>9, Zenon DEF SecondaryLimit, Idle
  <2>. QED
    BY <1>2, <2>1
<1>10. CASE InvalidateSecondary
  <2>1. Idle /\ Become(Ctx(primary, Invalidated(secondary), upcoming_key_id)) /\ ~ primary.invalidated
    BY <1>10 DEF InvalidateSecondary, Idle
  <2>. QED
    BY <1>2, <2>1
<1>11. CASE UNCHANGED vars
  <2>1. primary' = primary /\ secondary' = secondary /\ pass' = pass
    BY <1>11 DEF vars
  <2>. QED
    BY <2>1 DEF FlushInv
<1>. QED
  BY <1>3, <1>4, <1>5, <1>6, <1>7, <1>8, <1>9, <1>10, <1>11 DEF Next

(***************************************************************************)
(* The loop of flush ends after at most five passes of process_events, for *)
(* every choice of the times: each pass lowers Rank.  The one condition is *)
(* that the timer of housekeeping is not so late that a key still in its   *)
(* handshake is past its expiry: such a primary may fail in the pass that  *)
(* reports the secondary ACTIVE, and is then given an expiry that is past  *)
(* and that kev_error never takes from an invalidated key.                 *)
(***************************************************************************)
THEOREM FlushEnds ==
    ASSUME Punctual
    PROVE  Spec => []FlushTerminates
<1>1. Init => FlushInv
  <2>1. ASSUME Init PROVE pass = 0 /\ ~ primary.invalidated
    <3>1. 0 \in 0 .. KeyIdMask /\ primary = NewKey(0) /\ pass = 0
      BY <2>1, Constants, SMT DEF Init
    <3>. QED
      BY <3>1, NewKeyKey
  <2>. QED
    BY <2>1 DEF FlushInv, LoopFree
<1>2. IInv /\ IInv' /\ FlushInv /\ [Next]_vars => FlushInv'
  BY PassKeepsFlush, OtherStepsKeepFlush
<1>3. ASSUME IInv, FlushInv PROVE FlushTerminates
  <2>1. primary \in Key /\ secondary \in Key \cup {NoKey} /\ pass \in Nat
    BY <1>3 DEF IInv, TypeOK
  <2>2. Rank(primary, secondary) \in 0 .. 5
        /\ (Pending(primary) \/ Pending(secondary) => Rank(primary, secondary) >= 1)
    BY <2>1, RankBounds
  <2>. QED
    BY <1>3, <2>1, <2>2, SMT DEF FlushInv, FlushTerminates
<1>. QED
  BY <1>1, <1>2, <1>3, Inductive, PTL DEF Spec

=============================================================================
