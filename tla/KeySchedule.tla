---------------------------- MODULE KeySchedule ----------------------------
(***************************************************************************)
(* The life of the keys of one ProtoContext (openvpn/ssl/proto.hpp): the   *)
(* primary and the secondary KeyContext, the KEV_x events each schedules   *)
(* for itself and for the other, and how ProtoContext::process_events      *)
(* answers them by renegotiating, promoting, expiring or disconnecting.    *)
(*                                                                         *)
(* Times are relative: a key has an age, and `left' is what remains until  *)
(* its next_event_time.  A clock step may pass an event_time, as it does   *)
(* when the timer of housekeeping is late; any other handler may then run  *)
(* before housekeeping does.  A handler ends with flush, which calls       *)
(* process_events until nothing is pending: one pass is one step, and      *)
(* `pass' counts them from the beginning of the handler to its end.        *)
(*                                                                         *)
(* The end of the session is a primary that stays invalidated, which the   *)
(* owners (cliproto.hpp, servproto.hpp) answer with stop().                *)
(***************************************************************************)
EXTENDS Integers

CONSTANTS
    HandshakeWindow,  \* handshake_window
    BecomePrimary,    \* become_primary
    Renegotiate,      \* renegotiate
    Expire,           \* expire
    KeyIdMask,        \* KEY_ID_MASK
    MaxLeap,          \* bound on one step of the clock
    NoKey             \* an empty key slot

ASSUME TimeAssumption ==
    /\ HandshakeWindow \in Nat \ {0} /\ BecomePrimary \in Nat
    /\ Renegotiate \in Nat /\ Expire \in Nat /\ MaxLeap \in Nat \ {0}
    /\ HandshakeWindow <= Renegotiate /\ Renegotiate <= Expire
    /\ KeyIdMask \in Nat \ {0}

Events == {"KEV_NONE", "KEV_ACTIVE", "KEV_NEGOTIATE", "KEV_BECOME_PRIMARY", "KEV_PRIMARY_PENDING",
           "KEV_RENEGOTIATE", "KEV_RENEGOTIATE_FORCE", "KEV_RENEGOTIATE_QUEUE", "KEV_EXPIRE"}

Earlier(a, b) == IF a < b THEN a ELSE b

(***************************************************************************)
(* How far a key may outlive Expire: at most two other events come before  *)
(* KEV_EXPIRE (it becomes primary and is deferred, or the request of its   *)
(* successor crosses over), and the clock may be late for each.            *)
(***************************************************************************)
Overrun == 2 * (BecomePrimary + HandshakeWindow + MaxLeap)

MaxAge == Expire + Overrun + 1

(***************************************************************************)
(* A KeyContext.  Its age is of interest up to MaxAge.  The last three     *)
(* fields are history: the time since it became ACTIVE, and a request for  *)
(* a key limit renegotiation that was made while it was primary ("now") or *)
(* waiting to become primary ("queued"), with the time it has waited as    *)
(* primary.                                                                *)
(***************************************************************************)
Key == [key_id : 0 .. KeyIdMask, age : 0 .. MaxAge, active : BOOLEAN, fired : BOOLEAN,
        invalidated : BOOLEAN, current : Events, next : Events, left : Int,
        since : 0 .. BecomePrimary, req : {"none", "now", "queued"}, wait : 0 .. 3]

ASSUME NoKeyAssumption == NoKey \notin Key

VARIABLES
    server,            \* is_server()
    limited,           \* the cipher has a data limit (init_data_channel)
    healthy,           \* of the environment: every negotiation succeeds in its window
    errors,            \* of the environment: SSL and decryption errors invalidate keys
    primary,           \* the key data is encrypted with
    secondary,         \* a new or a retiring key, or NoKey
    upcoming_key_id,
    pass               \* the pass of flush a handler has come to, 0 between handlers

conf == <<server, limited, healthy, errors>>
vars == <<conf, primary, secondary, upcoming_key_id, pass>>

\* key_limit_reneg waits 2 seconds on a server, 1 on a client.
LimitDelay == IF server THEN 2 ELSE 1

-----------------------------------------------------------------------------
(* KeyContext *)

\* The constructor: the negotiation must complete within the window.
NewKey(id) ==
    [key_id |-> id, age |-> 0, active |-> FALSE, fired |-> FALSE, invalidated |-> FALSE,
     current |-> "KEV_NONE", next |-> "KEV_NEGOTIATE", left |-> HandshakeWindow,
     since |-> 0, req |-> "none", wait |-> 0]

SetEvent(k, current, next, left) ==
    [k EXCEPT !.current = current, !.next = next, !.left = left]

\* invalidate and invalidate_callback: no event is scheduled any more.
Invalidated(k) ==
    IF k.invalidated THEN k
    ELSE [k EXCEPT !.invalidated = TRUE, !.next = "KEV_NONE", !.left = 0]

\* Mutant: the expiry is counted from the present, not from construct_time.
PrepareExpireFromNow(k, current) ==
    SetEvent(k, current, "KEV_EXPIRE", IF k.fired THEN 2 * HandshakeWindow ELSE Expire)

PrepareExpire(k, current) ==
    SetEvent(k, current, "KEV_EXPIRE", IF k.fired THEN 2 * HandshakeWindow ELSE Expire - k.age)

SetNextEventIfUnspecified(k) ==
    IF k.next = "KEV_NONE" /\ ~ k.invalidated THEN PrepareExpire(k, "KEV_NONE") ELSE k

KevError(k, ev) == [Invalidated(k) EXCEPT !.current = ev]

(***************************************************************************)
(* data_limit_defer.  On a client only data_limit_add could make the limit *)
(* Decrypt-Green, and it never counts anything (see KeyDataLimit).         *)
(***************************************************************************)
DataLimitDefer(k) == ~ server /\ limited /\ k.key_id # 0

\* Mutant: the event is raised and stays scheduled.
ProcessNextEventAgain(k) == [k EXCEPT !.current = k.next]

ProcessNextEvent(k) ==
    CASE k.next = "KEV_BECOME_PRIMARY" /\ DataLimitDefer(k) ->
            SetEvent(k, "KEV_NONE", "KEV_PRIMARY_PENDING", 2 * HandshakeWindow)
      [] k.next = "KEV_BECOME_PRIMARY" /\ ~ DataLimitDefer(k) ->
            SetEvent(k, "KEV_BECOME_PRIMARY", "KEV_RENEGOTIATE", Renegotiate - k.age)
      [] k.next \in {"KEV_RENEGOTIATE", "KEV_RENEGOTIATE_FORCE"} ->
            PrepareExpire(k, k.next)
      [] k.next \in {"KEV_NEGOTIATE", "KEV_PRIMARY_PENDING", "KEV_EXPIRE"} ->
            KevError(k, k.next)
      [] OTHER -> k

Due(k) == k.next # "KEV_NONE" /\ k.left <= 0

\* event_pending: the key after it; there is an event if current is set.
EventPending(k) == IF k.current = "KEV_NONE" /\ Due(k) THEN ProcessNextEvent(k) ELSE k

\* Mutant: the key becomes primary as soon as it is ACTIVE.
BecomesActiveAtOnce(k) ==
    [SetEvent(k, "KEV_ACTIVE", "KEV_BECOME_PRIMARY", 0) EXCEPT !.active = TRUE, !.since = 0]

\* active() and active_event
BecomesActive(k) ==
    [SetEvent(k, "KEV_ACTIVE", "KEV_BECOME_PRIMARY", BecomePrimary) EXCEPT !.active = TRUE, !.since = 0]

(***************************************************************************)
(* schedule_key_limit_renegotiation: a key that is about to become primary *)
(* queues the request, any other one renegotiates shortly.                 *)
(***************************************************************************)
ScheduleKeyLimitRenegotiation(k, req) ==
    LET f == [k EXCEPT !.fired = TRUE, !.req = req, !.wait = 0]
    IN  IF k.next = "KEV_BECOME_PRIMARY"
          THEN [f EXCEPT !.current = "KEV_RENEGOTIATE_QUEUE"]
          ELSE SetEvent(f, "KEV_NONE", "KEV_RENEGOTIATE", LimitDelay)

-----------------------------------------------------------------------------
(* ProtoContext, as functions of the pair of keys and the upcoming id *)

Ctx(p, s, up) == [p |-> p, s |-> s, up |-> up]

\* Mutant: the id recycles to 0.
NextKeyIdZero(id) == (id + 1) % (KeyIdMask + 1)

\* next_key_id: 0 is only ever the first key.
NextKeyId(id) == IF (id + 1) % (KeyIdMask + 1) = 0 THEN 1 ELSE (id + 1) % (KeyIdMask + 1)

\* new_secondary_key: any previous secondary is wiped.
NewSecondary(c) ==
    Ctx([c.p EXCEPT !.req = "none"], NewKey(c.up), NextKeyId(c.up))

PromoteSecondaryToPrimary(c) == Ctx(c.s, PrepareExpire(c.p, "KEV_NONE"), c.up)

Disconnect(c) == Ctx(Invalidated(c.p), IF c.s = NoKey THEN NoKey ELSE Invalidated(c.s), c.up)

\* Mutant: an expired primary ends the session although there is a secondary.
PrimaryEventNoPromotion(c, ev) ==
    CASE ev \in {"KEV_RENEGOTIATE", "KEV_RENEGOTIATE_FORCE"} -> NewSecondary(c)
      [] ev \in {"KEV_EXPIRE", "KEV_NEGOTIATE"} -> Disconnect(c)
      [] OTHER -> c

PrimaryEvent(c, ev) ==
    CASE ev \in {"KEV_RENEGOTIATE", "KEV_RENEGOTIATE_FORCE"} -> NewSecondary(c)
      [] ev = "KEV_EXPIRE" ->
            IF c.s # NoKey /\ ~ c.s.invalidated THEN PromoteSecondaryToPrimary(c) ELSE Disconnect(c)
      [] ev = "KEV_NEGOTIATE" -> Disconnect(c)
      [] OTHER -> c

\* event_pending and process_primary_event
ProcessPrimaryEvent(c) ==
    LET k == EventPending(c.p)
        d == PrimaryEvent(Ctx([k EXCEPT !.current = "KEV_NONE"], c.s, c.up), k.current)
    IN  IF k.current = "KEV_NONE"
          THEN Ctx(k, c.s, c.up)
          ELSE Ctx(SetNextEventIfUnspecified(d.p), d.s, d.up)

\* Mutant: a secondary whose negotiation timed out is not retried.
SecondaryEventNoRetry(c, ev) ==
    CASE ev = "KEV_ACTIVE" -> Ctx(PrepareExpire(c.p, "KEV_NONE"), c.s, c.up)
      [] ev = "KEV_BECOME_PRIMARY" ->
            IF c.s.invalidated THEN c ELSE PromoteSecondaryToPrimary(c)
      [] ev = "KEV_EXPIRE" -> Ctx(c.p, NoKey, c.up)
      [] ev \in {"KEV_PRIMARY_PENDING", "KEV_RENEGOTIATE_FORCE"} -> NewSecondary(c)
      [] OTHER -> c

SecondaryEvent(c, ev) ==
    CASE ev = "KEV_ACTIVE" -> Ctx(PrepareExpire(c.p, "KEV_NONE"), c.s, c.up)
      [] ev = "KEV_BECOME_PRIMARY" ->
            IF c.s.invalidated THEN c ELSE PromoteSecondaryToPrimary(c)
      [] ev = "KEV_EXPIRE" -> Ctx(c.p, NoKey, c.up)
      [] ev = "KEV_RENEGOTIATE_QUEUE" ->
            IF c.s.next = "KEV_BECOME_PRIMARY"
              THEN Ctx(SetEvent(c.p, "KEV_NONE", "KEV_RENEGOTIATE_FORCE", c.s.left + LimitDelay),
                       c.s, c.up)
              ELSE c
      [] ev \in {"KEV_NEGOTIATE", "KEV_PRIMARY_PENDING", "KEV_RENEGOTIATE_FORCE"} -> NewSecondary(c)
      [] OTHER -> c

\* event_pending and process_secondary_event
ProcessSecondaryEvent(c) ==
    IF c.s = NoKey THEN c
    ELSE LET k == EventPending(c.s)
             d == SecondaryEvent(Ctx(c.p, [k EXCEPT !.current = "KEV_NONE"], c.up), k.current)
         IN  IF k.current = "KEV_NONE"
               THEN Ctx(c.p, k, c.up)
               ELSE Ctx(d.p, IF d.s = NoKey THEN NoKey ELSE SetNextEventIfUnspecified(d.s), d.up)

-----------------------------------------------------------------------------
(* Actions *)

Pending(k) == k # NoKey /\ (k.current # "KEV_NONE" \/ Due(k))

\* The keys become c; flush goes on as long as an event is pending.
Become(c) ==
    /\ primary' = c.p
    /\ secondary' = c.s
    /\ upcoming_key_id' = c.up
    /\ UNCHANGED conf
    /\ pass' = IF Pending(c.p) \/ Pending(c.s) THEN pass + 1 ELSE 0

Current == Ctx(primary, secondary, upcoming_key_id)

Live == {primary, secondary} \ {NoKey}

\* reset(): the first key has id 0 and is the primary.
Init ==
    /\ server \in BOOLEAN /\ limited \in BOOLEAN /\ healthy \in BOOLEAN /\ errors \in BOOLEAN
    /\ healthy => ~ errors
    /\ primary = NewKey(0)
    /\ secondary = NoKey
    /\ upcoming_key_id = NextKeyId(0)
    /\ pass = 0

\* One pass of process_events, in the flush of housekeeping or of another handler.
ProcessEvents ==
    /\ Pending(primary) \/ Pending(secondary)
    /\ Become(ProcessSecondaryEvent(ProcessPrimaryEvent(Current)))

\* Between two handlers of a session that is up.
Idle == pass = 0 /\ ~ primary.invalidated

\* A key of this context reaches ACTIVE in the flush of some handler.
PrimaryActive ==
    /\ Idle /\ ~ primary.active
    /\ Become(Ctx(BecomesActive(primary), secondary, upcoming_key_id))

SecondaryActive ==
    /\ Idle /\ secondary # NoKey
    /\ ~ secondary.active /\ ~ secondary.invalidated
    /\ Become(Ctx(primary, BecomesActive(secondary), upcoming_key_id))

(***************************************************************************)
(* A packet id close to wrapping (encrypt, on the primary), or Red from a  *)
(* transport that counts for the server (data_limit_notify, on either).    *)
(***************************************************************************)
PrimaryLimit ==
    /\ Idle /\ primary.active /\ ~ primary.fired
    /\ Become(Ctx(ScheduleKeyLimitRenegotiation(primary, "now"), secondary, upcoming_key_id))

SecondaryLimit ==
    /\ Idle /\ server /\ limited /\ secondary # NoKey
    /\ secondary.active /\ ~ secondary.fired /\ ~ secondary.invalidated
    /\ Become(Ctx(primary,
                  ScheduleKeyLimitRenegotiation(secondary,
                      IF secondary.next = "KEV_BECOME_PRIMARY" THEN "queued" ELSE "none"),
                  upcoming_key_id))

\* PacketType and renegotiate_request: a soft reset of the peer with the
\* upcoming id, unless that is the id of a key there is.
SoftReset ==
    /\ Idle
    /\ \A k \in Live : k.key_id # upcoming_key_id
    /\ Become(NewSecondary(Current))

\* An SSL or a decryption error; on the primary it ends the session.
InvalidatePrimary ==
    /\ Idle /\ errors
    /\ Become(Ctx(Invalidated(primary), secondary, upcoming_key_id))

InvalidateSecondary ==
    /\ Idle /\ errors /\ secondary # NoKey /\ ~ secondary.invalidated
    /\ Become(Ctx(primary, Invalidated(secondary), upcoming_key_id))

Aged(k, d, isPrimary) ==
    [k EXCEPT !.age = Earlier(@ + d, MaxAge),
              !.left = IF k.next = "KEV_NONE" THEN @ ELSE @ - d,
              !.since = IF k.active THEN Earlier(@ + d, BecomePrimary) ELSE @,
              !.wait = IF isPrimary /\ k.req # "none" THEN Earlier(@ + d, 3) ELSE @]

InTime(k, d) == k # NoKey /\ k.next = "KEV_NEGOTIATE" => k.left > d

\* Time passes.  If nothing was pending it may pass the time of an event.
Tick(d) ==
    /\ Idle /\ ~ Pending(primary) /\ ~ Pending(secondary)
    /\ healthy => InTime(primary, d) /\ InTime(secondary, d)
    /\ primary' = Aged(primary, d, TRUE)
    /\ secondary' = IF secondary = NoKey THEN NoKey ELSE Aged(secondary, d, FALSE)
    /\ UNCHANGED <<conf, upcoming_key_id, pass>>

Next ==
    \/ ProcessEvents
    \/ PrimaryActive \/ SecondaryActive
    \/ PrimaryLimit \/ SecondaryLimit
    \/ SoftReset
    \/ InvalidatePrimary \/ InvalidateSecondary
    \/ \E d \in 1 .. MaxLeap : Tick(d)

Spec == Init /\ [][Next]_vars

-----------------------------------------------------------------------------
(* Properties *)

TypeOK ==
    /\ server \in BOOLEAN /\ limited \in BOOLEAN /\ healthy \in BOOLEAN /\ errors \in BOOLEAN
    /\ healthy => ~ errors
    /\ primary \in Key
    /\ secondary \in Key \cup {NoKey}
    /\ upcoming_key_id \in 1 .. KeyIdMask
    /\ pass \in Nat

\* Nothing is running and nothing is due.
Quiet == Idle /\ ~ Pending(primary) /\ ~ Pending(secondary)

(***************************************************************************)
(* "Expiration of KeyContext": whichever of the two keys rescheduled whose *)
(* event, no key outlives its expiry time by more than Overrun.  A key     *)
(* that hit a limit is given an expiry of its own.                         *)
(***************************************************************************)
KeyLifetime ==
    Quiet => \A k \in Live : ~ k.fired /\ ~ k.invalidated => k.age <= Expire + Overrun

(***************************************************************************)
(* A primary in use past its renegotiation time has a live successor, one  *)
(* that negotiates or waits to become primary: a secondary whose           *)
(* negotiation timed out is replaced, and one that was wiped or retired is *)
(* not missed.  The exception is a successor that an SSL or a decryption   *)
(* error has invalidated: it schedules no event, and only a soft reset of  *)
(* the peer or a limit of the primary replaces it before the expiry.  (Not *)
(* so on a client with a data limit, whose keys become primary by the      *)
(* expiry of the one before, see DataLimitDefer.)                          *)
(***************************************************************************)
RekeyUnderway ==
    Quiet /\ (server \/ ~ limited)
    /\ primary.since = BecomePrimary /\ ~ primary.fired /\ primary.age >= Renegotiate
    => /\ secondary # NoKey
       /\ \/ secondary.next \in {"KEV_NEGOTIATE", "KEV_BECOME_PRIMARY"} /\ ~ secondary.invalidated
          \/ errors /\ secondary.invalidated

(***************************************************************************)
(* "Even after new key context goes active, we still wait for              *)
(* KEV_BECOME_PRIMARY": a primary that has not expired is only ever        *)
(* replaced by a key that has been ACTIVE for the become_primary time.     *)
(***************************************************************************)
PromotedReady ==
    [][(\E k \in {secondary} \ {NoKey} : primary'.key_id = k.key_id /\ primary.key_id # k.key_id)
       /\ ~ (primary.next = "KEV_EXPIRE" /\ primary.left <= 0)
       => primary'.active /\ primary'.since = BecomePrimary]_vars

(***************************************************************************)
(* The loop of flush ends: the events of the two keys do not set each      *)
(* other off for ever at one moment, and five passes settle them.          *)
(***************************************************************************)
FlushTerminates == pass <= 5

(***************************************************************************)
(* A session whose negotiations all complete in time is never ended by the *)
(* expiry or the handshake timer of a key, however many renegotiations     *)
(* either side asks for.  (A client with a data limit waits in vain for    *)
(* Decrypt-Green, see DataLimitDefer.)                                     *)
(***************************************************************************)
StaysUp == healthy /\ (server \/ ~ limited) => ~ primary.invalidated

(***************************************************************************)
(* A key that reaches its limit has its renegotiation under way within     *)
(* LimitDelay seconds of being primary, also when it was a secondary and   *)
(* the request crosses from one key to the other.                          *)
(* schedule_key_limit_renegotiation: "If primary, renegotiate now (within  *)
(* a second or two).  If secondary, queue the renegotiation request until  *)
(* key reaches primary."                                                   *)
(***************************************************************************)
KeyLimitHonoured ==
    Quiet /\ primary.req # "none" => primary.wait <= LimitDelay

=============================================================================
