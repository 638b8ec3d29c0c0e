------------------------------ MODULE PacketId ------------------------------
(***************************************************************************)
(* Packet ids and replay protection, openvpn/crypto/packet_id.hpp: the     *)
(* PacketIDSend of one end, the PacketIDReceive of the other, and a        *)
(* network that may lose, repeat, delay and reorder what is between them.  *)
(*                                                                         *)
(* long_form selects the control channel (tls-auth and tls-crypt, long ids  *)
(* with a time, tested first and added later, proto.hpp                    *)
(* decapsulate_post_process); otherwise it is the data channel (short ids, *)
(* tested and added at once, crypto_aead.hpp verify_packet_id).            *)
(***************************************************************************)
EXTENDS Integers

CONSTANTS
    StartAt,       \* start_at of PacketIDSend::init for long ids, 0 for short ones
    MaxPid,        \* largest id, 2^32 - 1 in the code
    WindowSize,    \* REPLAY_WINDOW_SIZE, in ids
    RecvExpire,    \* PKTID_RECV_EXPIRE, in seconds
    MaxTime        \* bound on the clock

ASSUME SizeAssumption ==
    /\ MaxPid \in Nat /\ MaxPid > 0 /\ StartAt \in 0 .. MaxPid
    /\ WindowSize \in Nat /\ WindowSize > 1
    /\ RecvExpire \in Nat /\ RecvExpire > 0 /\ MaxTime \in Nat

Times == 1 .. MaxTime
PidType == [time : 0 .. MaxTime, id : 0 .. MaxPid]

VARIABLES
    long_form,  \* form_: PacketID::LONG_FORM or SHORT_FORM
    now,        \* seconds_since_epoch(), a system clock that may be set
    pid_,       \* PacketIDSend::pid_
    wrapped,    \* packet_id_wrap was thrown, which stops the session
    sent,       \* the ids put on the network
    recv,       \* PacketIDReceiveType
    accepts     \* history: how often each id was accepted

vars == <<long_form, now, pid_, wrapped, sent, recv, accepts>>

Pid(t, i) == [time |-> t, id |-> i]

\* write, then read at the other end: a short id loses its time.
Wire(pid) == IF long_form THEN pid ELSE Pid(0, pid.id)

Recv(b, e, x, h, t, f, hist) ==
    [base |-> b, extent |-> e, expire |-> x, id_high |-> h, time_high |-> t,
     id_floor |-> f, history |-> hist]

Bits == 0 .. WindowSize - 1

Init ==
    /\ long_form \in BOOLEAN
    /\ now \in Times
    /\ pid_ = Pid(0, IF long_form THEN StartAt ELSE 0)
    /\ wrapped = FALSE
    /\ sent = {}
    /\ recv = Recv(0, 0, 0, 0, 0, 0, [b \in Bits |-> FALSE])
    /\ accepts = [pid \in PidType |-> 0]

-----------------------------------------------------------------------------
(* PacketIDReceiveType *)

\* REPLAY_INDEX
ReplayIndex(b, i) == (b + i) % WindowSize

\* Backtracks expire after RecvExpire seconds without a test.
Floor(r, t) == IF t >= r.expire THEN r.id_high ELSE r.id_floor

\* Mutant: the bits of skipped ids are not cleared.
SkippedNone(r, id, i) == FALSE

\* The ids between the new and the old high one have not been seen.
Skipped(r, id, i) == \E d \in 1 .. id - r.id_high - 1 : i = ReplayIndex(r.base, d - (id - r.id_high))

\* Mutant: an id that leaves the window behind is refused.
VerdictNoLeap(r, pin, t) ==
    IF pin.id = 0 THEN "PKTID_INVALID"
    ELSE IF pin.time < r.time_high THEN "PKTID_TIME_BACKTRACK"
    ELSE IF pin.id > r.id_high + WindowSize THEN "PKTID_BACKTRACK"
    ELSE IF pin.time > r.time_high \/ pin.id > r.id_high THEN "SUCCESS"
    ELSE IF r.id_high - pin.id >= r.extent THEN "PKTID_BACKTRACK"
    ELSE IF pin.id <= Floor(r, t) THEN "PKTID_EXPIRE"
    ELSE IF r.history[ReplayIndex(r.base, r.id_high - pin.id)] THEN "PKTID_REPLAY"
    ELSE "SUCCESS"

(***************************************************************************)
(* do_test_add, in its verdict.  An id of a later time meets the id_high   *)
(* of 0 that the restart of the window would leave, and is above it.       *)
(***************************************************************************)
Verdict(r, pin, t) ==
    IF pin.id = 0 THEN "PKTID_INVALID"
    ELSE IF pin.time < r.time_high THEN "PKTID_TIME_BACKTRACK"
    ELSE IF pin.time > r.time_high \/ pin.id > r.id_high THEN "SUCCESS"
    ELSE IF r.id_high - pin.id >= r.extent THEN "PKTID_BACKTRACK"
    ELSE IF pin.id <= Floor(r, t) THEN "PKTID_EXPIRE"
    ELSE IF r.history[ReplayIndex(r.base, r.id_high - pin.id)] THEN "PKTID_REPLAY"
    ELSE "SUCCESS"

\* Mutant: the expiry is set to the present time.
TestedAtOnce(r, t) == Recv(r.base, r.extent, t, r.id_high, r.time_high, Floor(r, t), r.history)

\* do_test_add without mod, or with a bad verdict: only the expiry moves.
Tested(r, t) ==
    Recv(r.base, r.extent, t + RecvExpire, r.id_high, r.time_high, Floor(r, t), r.history)

\* The window restarted for a later time; the history is not cleared.
Restarted(r, time) == Recv(0, 0, r.expire, 0, time, 0, r.history)

\* Mutant: the extent grows beyond the window.
ForwardUncapped(r, id) ==
    LET delta == id - r.id_high
        near  == delta < WindowSize
        b     == IF near THEN ReplayIndex(r.base, - delta) ELSE 0
        e     == IF near THEN r.extent + delta ELSE WindowSize
    IN  Recv(b, e, r.expire, id, r.time_high, r.id_floor,
             [i \in Bits |-> i = b \/ (near /\ ~ Skipped(r, id, i) /\ r.history[i])])

\* The window moved up to id, which is above id_high.
Forward(r, id) ==
    LET delta == id - r.id_high
        near  == delta < WindowSize
        b     == IF near THEN ReplayIndex(r.base, - delta) ELSE 0
        e     == IF near /\ r.extent + delta <= WindowSize THEN r.extent + delta ELSE WindowSize
    IN  Recv(b, e, r.expire, id, r.time_high, r.id_floor,
             [i \in Bits |-> i = b \/ (near /\ ~ Skipped(r, id, i) /\ r.history[i])])

\* Mutant: an id below id_high is accepted and not marked.
MarkedNot(r, id) == r

\* An id below id_high marked as seen.
Marked(r, id) ==
    Recv(r.base, r.extent, r.expire, r.id_high, r.time_high, r.id_floor,
         [r.history EXCEPT ![ReplayIndex(r.base, r.id_high - id)] = TRUE])

\* do_test_add with mod and a good verdict.
Added(r, pin, t) ==
    LET s == IF pin.time > r.time_high THEN Restarted(Tested(r, t), pin.time) ELSE Tested(r, t)
    IN  IF pin.id > s.id_high THEN Forward(s, pin.id) ELSE Marked(s, pin.id)

TestAdd(r, pin, t) == IF Verdict(r, pin, t) = "SUCCESS" THEN Added(r, pin, t) ELSE Tested(r, t)

-----------------------------------------------------------------------------
(* Actions *)

\* Mutant: an id that wraps starts again from 1 at the same time.
SendWraps ==
    /\ ~ wrapped
    /\ LET time == IF pid_.time = 0 THEN now ELSE pid_.time
       IN  /\ pid_' = Pid(time, IF pid_.id < MaxPid THEN pid_.id + 1 ELSE 1)
           /\ sent' = sent \cup {Wire(pid_')}
    /\ UNCHANGED <<long_form, wrapped, now, recv, accepts>>

(***************************************************************************)
(* PacketIDSend::next.  A short id that wraps throws packet_id_wrap, and   *)
(* the handlers of the client session answer every exception with stop();  *)
(* a long one takes a new time.  The 2^32 ids between two wraps take more  *)
(* than a second, and the clock is not set back to an earlier wrap.        *)
(***************************************************************************)
Send ==
    /\ ~ wrapped
    /\ LET time == IF pid_.time = 0 THEN now ELSE pid_.time
       IN  \/ /\ pid_.id < MaxPid
              /\ pid_' = Pid(time, pid_.id + 1)
              /\ sent' = sent \cup {Wire(pid_')}
              /\ UNCHANGED wrapped
           \/ /\ pid_.id = MaxPid /\ long_form /\ now > time
              /\ pid_' = Pid(now, 1)
              /\ sent' = sent \cup {Wire(pid_')}
              /\ UNCHANGED wrapped
           \/ /\ pid_.id = MaxPid /\ ~ long_form
              /\ pid_' = Pid(time, 0)
              /\ wrapped' = TRUE
              /\ UNCHANGED sent
    /\ UNCHANGED <<long_form, now, recv, accepts>>

Accept(pin) == accepts' = [accepts EXCEPT ![pin] = @ + 1]

\* verify_packet_id of a data packet: test_add with mod.
RecvData(pin) ==
    /\ ~ long_form
    /\ recv' = TestAdd(recv, pin, now)
    /\ IF Verdict(recv, pin, now) = "SUCCESS" THEN Accept(pin) ELSE UNCHANGED accepts
    /\ UNCHANGED <<long_form, now, pid_, wrapped, sent>>

(***************************************************************************)
(* decapsulate_post_process of a control packet: test_add without mod, and *)
(* if that and the receive window (keep) let the packet in, test_add with  *)
(* mod, whose verdict is not looked at.                                    *)
(***************************************************************************)
RecvControl(pin, keep) ==
    /\ long_form
    /\ IF keep /\ Verdict(recv, pin, now) = "SUCCESS"
         THEN recv' = TestAdd(Tested(recv, now), pin, now) /\ Accept(pin)
         ELSE recv' = Tested(recv, now) /\ UNCHANGED accepts
    /\ UNCHANGED <<long_form, now, pid_, wrapped, sent>>

\* Time passes, or the system clock is set.
SetClock(t) ==
    /\ now' = t
    /\ UNCHANGED <<long_form, pid_, wrapped, sent, recv, accepts>>

Next ==
    \/ Send
    \/ \E pin \in sent : RecvData(pin)
    \/ \E pin \in sent, keep \in BOOLEAN : RecvControl(pin, keep)
    \/ \E t \in Times : SetClock(t)

Spec == Init /\ [][Next]_vars

-----------------------------------------------------------------------------
(* Properties *)

TypeOK ==
    /\ long_form \in BOOLEAN
    /\ now \in Times
    /\ pid_ \in PidType
    /\ wrapped \in BOOLEAN
    /\ sent \subseteq PidType
    /\ recv \in [base : Bits, extent : 0 .. WindowSize, expire : Nat, id_high : 0 .. MaxPid,
                 time_high : 0 .. MaxTime, id_floor : 0 .. MaxPid, history : [Bits -> BOOLEAN]]
    /\ accepts \in [PidType -> Nat]

(***************************************************************************)
(* "to check that no packet-id (i.e. sequence number + optional timestamp) *)
(* is accepted more than once": however the packets of a key are repeated  *)
(* and reordered, and whatever jumps the window makes.                     *)
(***************************************************************************)
AcceptedOnce == \A pid \in PidType : accepts[pid] <= 1

(***************************************************************************)
(* The bits of the ring buffer within the extent, which wraps around, is   *)
(* partly cleared when ids are skipped and is not cleared when a new time  *)
(* restarts it, say exactly which ids have been accepted.                  *)
(***************************************************************************)
HistoryExact ==
    \A d \in 0 .. recv.extent - 1 :
        recv.history[ReplayIndex(recv.base, d)]
            <=> accepts[Pid(recv.time_high, recv.id_high - d)] > 0

(***************************************************************************)
(* The second test_add of decapsulate_post_process, whose result is        *)
(* ignored, never disagrees with the first one, on which the packet was    *)
(* let in, although the first one may have moved id_floor.                 *)
(***************************************************************************)
ProbeDecides ==
    \A pin \in sent : Verdict(Tested(recv, now), pin, now) = Verdict(recv, pin, now)

(***************************************************************************)
(* A packet sent after every packet accepted so far is accepted: neither   *)
(* the expiry of backtracks nor a new time locks the receiver out.         *)
(***************************************************************************)
NewestAccepted ==
    \A pin \in sent :
        (\A old \in PidType : accepts[old] > 0 =>
            old.time < pin.time \/ (old.time = pin.time /\ old.id < pin.id))
        => Verdict(recv, pin, now) = "SUCCESS"

\* PacketIDSend never gives out an id that it has given out before.
SentOnce == [][\A pid \in sent : pid_' # pid_ /\ ~ wrapped' => Wire(pid_') # pid]_vars

=============================================================================
