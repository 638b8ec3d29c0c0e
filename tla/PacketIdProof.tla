--------------------------- MODULE PacketIdProof ---------------------------
(***************************************************************************)
(* Proofs about PacketId for every window size, id width and clock: no id  *)
(* is accepted twice, and the ring buffer says which were accepted.        *)
(***************************************************************************)
EXTENDS PacketId, TLAPS

-----------------------------------------------------------------------------
(* The ring buffer *)

\* REPLAY_INDEX without its modulus, for an offset less than one turn.
LEMMA IndexCases ==
    ASSUME NEW b \in Bits, NEW i \in Int, - WindowSize < i, i < WindowSize
    PROVE  /\ ReplayIndex(b, i) = IF b + i >= WindowSize THEN b + i - WindowSize
                                  ELSE IF b + i < 0 THEN b + i + WindowSize
                                  ELSE b + i
           /\ ReplayIndex(b, i) \in Bits
<1>. WindowSize \in Nat /\ WindowSize > 1
  BY SizeAssumption
<1>. b \in Int /\ 0 <= b /\ b < WindowSize
  BY DEF Bits
<1>1. CASE b + i >= WindowSize
  <2>1. (b + i) % WindowSize = b + i - WindowSize
    BY <1>1
  <2>. QED  BY <1>1, <2>1 DEF ReplayIndex, Bits
<1>2. CASE b + i < 0
  <2>1. (b + i) % WindowSize = b + i + WindowSize
    BY <1>2
  <2>. QED  BY <1>2, <2>1 DEF ReplayIndex, Bits
<1>3. CASE 0 <= b + i /\ b + i < WindowSize
  <2>1. (b + i) % WindowSize = b + i
    BY <1>3
  <2>. QED  BY <1>3, <2>1 DEF ReplayIndex, Bits
<1>. QED  BY <1>1, <1>2, <1>3

\* Two different offsets within one turn name different bits.
LEMMA IndexInjective ==
    ASSUME NEW b \in Bits, NEW i \in Nat, i < WindowSize, NEW j \in Nat, j < WindowSize,
           ReplayIndex(b, i) = ReplayIndex(b, j)
    PROVE  i = j
<1>. WindowSize \in Nat /\ WindowSize > 1
  BY SizeAssumption
<1>. b \in Int /\ 0 <= b /\ b < WindowSize
  BY DEF Bits
<1>. QED  BY IndexCases

\* Moving the base back by delta moves every offset up by delta.
LEMMA IndexShift ==
    ASSUME NEW b \in Bits, NEW delta \in Nat, 0 < delta, delta < WindowSize,
           NEW d \in Nat, d < WindowSize
    PROVE  ReplayIndex(ReplayIndex(b, - delta), d) = ReplayIndex(b, d - delta)
<1>. WindowSize \in Nat /\ WindowSize > 1
  BY SizeAssumption
<1>. b \in Int /\ 0 <= b /\ b < WindowSize
  BY DEF Bits
<1>1. PICK c \in Bits : c = ReplayIndex(b, - delta)
  <2>1. - delta \in Int /\ - WindowSize < - delta /\ - delta < WindowSize
    OBVIOUS
  <2>. QED  BY <2>1, IndexCases
<1>. c \in Int /\ 0 <= c /\ c < WindowSize
  BY DEF Bits
<1>2. c = IF b - delta < 0 THEN b - delta + WindowSize ELSE b - delta
  <2>1. - delta \in Int /\ - WindowSize < - delta /\ - delta < WindowSize
    OBVIOUS
  <2>2. b + (- delta) = b - delta
    OBVIOUS
  <2>. QED  BY <1>1, <2>1, <2>2, IndexCases
<1>3. ReplayIndex(c, d) = IF c + d >= WindowSize THEN c + d - WindowSize ELSE c + d
  BY IndexCases
<1>4. ReplayIndex(b, d - delta) = IF b + (d - delta) >= WindowSize THEN b + (d - delta) - WindowSize
                                  ELSE IF b + (d - delta) < 0 THEN b + (d - delta) + WindowSize
                                  ELSE b + (d - delta)
  <2>1. d - delta \in Int /\ - WindowSize < d - delta /\ d - delta < WindowSize
    OBVIOUS
  <2>. QED  BY <2>1, IndexCases
<1>. QED  BY <1>1, <1>2, <1>3, <1>4

-----------------------------------------------------------------------------
(* The inductive invariant *)

RecvType ==
    [base : Bits, extent : 0 .. WindowSize, expire : Nat, id_high : 0 .. MaxPid,
     time_high : 0 .. MaxTime, id_floor : 0 .. MaxPid, history : [Bits -> BOOLEAN]]

(***************************************************************************)
(* Window r describes the ids accepted so far: none is above its high id,  *)
(* the extent stays above id 0, and the bits within it are exact.          *)
(***************************************************************************)
Describes(r, acc) ==
    /\ r.extent <= r.id_high
    /\ \A t \in 0 .. MaxTime, i \in 0 .. MaxPid :
          acc[Pid(t, i)] > 0 => t < r.time_high \/ (t = r.time_high /\ i <= r.id_high)
    /\ \A d \in 0 .. r.extent - 1 :
          r.history[ReplayIndex(r.base, d)] <=> acc[Pid(r.time_high, r.id_high - d)] > 0

\* The high id of the window was accepted, unless nothing was.
HighSeen(r, acc) ==
    (r.time_high = 0 /\ r.id_high = 0) \/ acc[Pid(r.time_high, r.id_high)] > 0

\* The ids sent lie below the sender's own.
SentInv ==
    \A pin \in sent :
        /\ pin.id > 0
        /\ long_form => /\ pid_.time > 0
                        /\ pin.time < pid_.time \/ (pin.time = pid_.time /\ pin.id <= pid_.id)
        /\ ~ long_form /\ ~ wrapped => pin.id <= pid_.id

IInv ==
    /\ TypeOK
    /\ Describes(recv, accepts)
    /\ HighSeen(recv, accepts)
    /\ AcceptedOnce
    /\ SentInv

\* One more acceptance of pin.
Plus(acc, pin) == [acc EXCEPT ![pin] = @ + 1]

\* The ids that are pairs of a time and a number.
LEMMA PidPair ==
    /\ \A t \in 0 .. MaxTime, i \in 0 .. MaxPid :
          Pid(t, i) \in PidType /\ Pid(t, i).time = t /\ Pid(t, i).id = i
    /\ \A pid \in PidType : /\ pid.time \in 0 .. MaxTime /\ pid.id \in 0 .. MaxPid
                            /\ pid = Pid(pid.time, pid.id)
  BY DEF Pid, PidType

\* What one more acceptance does to the counts.
LEMMA PlusCounts ==
    ASSUME NEW acc \in [PidType -> Nat], NEW t \in 0 .. MaxTime, NEW i \in 0 .. MaxPid
    PROVE  /\ Plus(acc, Pid(t, i)) \in [PidType -> Nat]
           /\ Plus(acc, Pid(t, i))[Pid(t, i)] = acc[Pid(t, i)] + 1
           /\ \A s \in 0 .. MaxTime, j \in 0 .. MaxPid :
                 s # t \/ j # i => Plus(acc, Pid(t, i))[Pid(s, j)] = acc[Pid(s, j)]
<1>1. \A s \in 0 .. MaxTime, j \in 0 .. MaxPid : s # t \/ j # i => Pid(s, j) # Pid(t, i)
  BY DEF Pid
<1>2. \A s \in 0 .. MaxTime, j \in 0 .. MaxPid : Pid(s, j) \in PidType
  BY PidPair
<1>. QED  BY <1>1, <1>2 DEF Plus

\* The fields of a window made by Recv.
LEMMA RecvFields ==
    ASSUME NEW b \in Bits, NEW e \in 0 .. WindowSize, NEW x \in Nat, NEW h \in 0 .. MaxPid,
           NEW t \in 0 .. MaxTime, NEW f \in 0 .. MaxPid, NEW hist \in [Bits -> BOOLEAN]
    PROVE  /\ Recv(b, e, x, h, t, f, hist) \in RecvType
           /\ Recv(b, e, x, h, t, f, hist).base = b
           /\ Recv(b, e, x, h, t, f, hist).extent = e
           /\ Recv(b, e, x, h, t, f, hist).expire = x
           /\ Recv(b, e, x, h, t, f, hist).id_high = h
           /\ Recv(b, e, x, h, t, f, hist).time_high = t
           /\ Recv(b, e, x, h, t, f, hist).id_floor = f
           /\ Recv(b, e, x, h, t, f, hist).history = hist
  BY DEF Recv, RecvType

\* A test without mod moves the expiry and nothing else.
LEMMA TestedDescribes ==
    ASSUME NEW r \in RecvType, NEW t \in Times
    PROVE  /\ Tested(r, t) \in RecvType
           /\ Tested(r, t).id_high = r.id_high
           /\ Tested(r, t).time_high = r.time_high
           /\ Tested(r, t).extent = r.extent
           /\ Tested(r, t).base = r.base
           /\ Tested(r, t).history = r.history
           /\ Tested(r, t).id_floor = Floor(r, t)
           /\ \A acc : Describes(r, acc) => Describes(Tested(r, t), acc)
<1>. RecvExpire \in Nat
  BY SizeAssumption
<1>1. /\ r.base \in Bits /\ r.extent \in 0 .. WindowSize /\ r.id_high \in 0 .. MaxPid
      /\ r.time_high \in 0 .. MaxTime /\ r.history \in [Bits -> BOOLEAN]
  BY DEF RecvType
<1>2. Floor(r, t) \in 0 .. MaxPid
  BY DEF Floor, RecvType
<1>3. t + RecvExpire \in Nat
  BY DEF Times
<1>4. /\ Tested(r, t) \in RecvType
      /\ Tested(r, t).id_high = r.id_high
      /\ Tested(r, t).time_high = r.time_high
      /\ Tested(r, t).extent = r.extent
      /\ Tested(r, t).base = r.base
      /\ Tested(r, t).history = r.history
      /\ Tested(r, t).id_floor = Floor(r, t)
  BY <1>1, <1>2, <1>3, RecvFields DEF Tested
<1>. QED  BY <1>4 DEF Describes

\* A window restarted for a later time has nothing to describe yet.
LEMMA RestartedDescribes ==
    ASSUME NEW r \in RecvType, NEW acc \in [PidType -> Nat], Describes(r, acc),
           NEW time \in 0 .. MaxTime, time > r.time_high
    PROVE  /\ Restarted(r, time) \in RecvType
           /\ Restarted(r, time).id_high = 0
           /\ Restarted(r, time).time_high = time
           /\ Describes(Restarted(r, time), acc)
<1>. WindowSize \in Nat /\ WindowSize > 1 /\ MaxPid \in Nat
  BY SizeAssumption
<1>1. /\ r.history \in [Bits -> BOOLEAN] /\ r.expire \in Nat /\ r.time_high \in 0 .. MaxTime
      /\ 0 \in Bits /\ 0 \in 0 .. WindowSize /\ 0 \in 0 .. MaxPid
  BY DEF RecvType, Bits
<1>2. /\ Restarted(r, time) \in RecvType
      /\ Restarted(r, time).extent = 0
      /\ Restarted(r, time).id_high = 0
      /\ Restarted(r, time).time_high = time
  BY <1>1, RecvFields DEF Restarted
<1>3. ASSUME NEW s \in 0 .. MaxTime, NEW i \in 0 .. MaxPid, acc[Pid(s, i)] > 0
      PROVE  s < time
  <2>1. s < r.time_high \/ s = r.time_high
    BY <1>3 DEF Describes
  <2>. QED  BY <2>1, <1>1
<1>4. Describes(Restarted(r, time), acc)
  BY <1>2, <1>3 DEF Describes
<1>. QED  BY <1>2, <1>4

(***************************************************************************)
(* Moving the window up to an id above it: the bits of the ids skipped are *)
(* cleared, the others keep their meaning.                                 *)
(***************************************************************************)
LEMMA ForwardDescribes ==
    ASSUME NEW r \in RecvType, NEW acc \in [PidType -> Nat], Describes(r, acc),
           NEW id \in 0 .. MaxPid, id > r.id_high
    PROVE  /\ Forward(r, id) \in RecvType
           /\ acc[Pid(r.time_high, id)] = 0
           /\ Describes(Forward(r, id), Plus(acc, Pid(r.time_high, id)))
           /\ HighSeen(Forward(r, id), Plus(acc, Pid(r.time_high, id)))
<1>. WindowSize \in Nat /\ WindowSize > 1
  BY SizeAssumption
<1>. MaxPid \in Nat /\ MaxTime \in Nat
  BY SizeAssumption
<1>1. PICK b \in Bits, e \in 0 .. WindowSize, h \in 0 .. MaxPid, t \in 0 .. MaxTime,
           hist \in [Bits -> BOOLEAN] :
         b = r.base /\ e = r.extent /\ h = r.id_high /\ t = r.time_high /\ hist = r.history
  BY DEF RecvType
<1>. b \in Int /\ 0 <= b /\ b < WindowSize
  BY DEF Bits
<1>2. e <= h
  BY <1>1 DEF Describes
<1>3. \A s \in 0 .. MaxTime, i \in 0 .. MaxPid : acc[Pid(s, i)] > 0 => s < t \/ (s = t /\ i <= h)
  BY <1>1 DEF Describes
<1>4. \A d \in 0 .. e - 1 : hist[ReplayIndex(b, d)] <=> acc[Pid(t, h - d)] > 0
  BY <1>1 DEF Describes
<1>5. PICK delta \in Nat : delta = id - h /\ delta > 0
  BY <1>1
<1>6. \A i \in 0 .. MaxPid : acc[Pid(t, i)] \in Nat
  BY PidPair
<1>7. \A i \in 0 .. MaxPid : i > h => acc[Pid(t, i)] = 0
  BY <1>3, <1>6
<1>. DEFINE near == delta < WindowSize
            b2   == IF near THEN ReplayIndex(b, - delta) ELSE 0
            e2   == IF near /\ e + delta <= WindowSize THEN e + delta ELSE WindowSize
            h2   == [i \in Bits |-> i = b2 \/ (near /\ ~ Skipped(r, id, i) /\ hist[i])]
            acc2 == Plus(acc, Pid(t, id))
<1>8. b2 \in Bits
  <2>1. 0 \in Bits
    BY DEF Bits
  <2>2. CASE near
    <3>1. - delta \in Int /\ - WindowSize < - delta /\ - delta < WindowSize
      BY <2>2, <1>5
    <3>. QED  BY <2>2, <3>1, IndexCases
  <2>. QED  BY <2>1, <2>2
<1>9. e2 \in 0 .. WindowSize /\ e2 <= id
  BY <1>2, <1>5
<1>10. h2 \in [Bits -> BOOLEAN]
  OBVIOUS
<1>11. r.expire \in Nat /\ r.id_floor \in 0 .. MaxPid
  BY DEF RecvType
<1>12. Forward(r, id) = Recv(b2, e2, r.expire, id, t, r.id_floor, h2)
  BY <1>1, <1>5 DEF Forward
<1>13. /\ acc2[Pid(t, id)] = acc[Pid(t, id)] + 1
       /\ acc2 \in [PidType -> Nat]
       /\ \A s \in 0 .. MaxTime, j \in 0 .. MaxPid :
             s # t \/ j # id => acc2[Pid(s, j)] = acc[Pid(s, j)]
  BY PlusCounts
<1>14. acc[Pid(t, id)] = 0
  BY <1>1, <1>7
<1>15. ASSUME NEW s \in 0 .. MaxTime, NEW i \in 0 .. MaxPid, acc2[Pid(s, i)] > 0
       PROVE  s < t \/ (s = t /\ i <= id)
  <2>. HIDE DEF acc2
  <2>1. CASE s = t /\ i = id
    BY <2>1
  <2>2. CASE s # t \/ i # id
    <3>1. s < t \/ (s = t /\ i <= h)
      BY <2>2, <1>3, <1>13, <1>15
    <3>. QED  BY <3>1, <1>1
  <2>. QED  BY <2>1, <2>2
<1>17. ASSUME near, NEW d \in Nat, d < WindowSize
       PROVE  ReplayIndex(b2, d) = ReplayIndex(b, d - delta) /\ ReplayIndex(b2, d) \in Bits
  <2>1. b2 = ReplayIndex(b, - delta)
    BY <1>17
  <2>2. ReplayIndex(ReplayIndex(b, - delta), d) = ReplayIndex(b, d - delta)
    BY <1>5, <1>17, IndexShift
  <2>3. ReplayIndex(b2, d) \in Bits
    BY <1>8, <1>17, IndexCases
  <2>. QED  BY <2>1, <2>2, <2>3
<1>18. \A i \in Bits : Skipped(r, id, i) <=> \E d \in 1 .. delta - 1 : i = ReplayIndex(b, d - delta)
  BY <1>1, <1>5 DEF Skipped
<1>19. ASSUME NEW d \in 0 .. e2 - 1
       PROVE  h2[ReplayIndex(b2, d)] <=> acc2[Pid(t, id - d)] > 0
  <2>. d \in Nat
    BY <1>9
  <2>1. d < WindowSize /\ d < e2
    BY <1>9
  <2>2. ReplayIndex(b2, d) \in Bits
    BY <1>8, <2>1, IndexCases
  <2>3. ReplayIndex(b2, 0) = b2
    <3>1. b2 \in Int /\ 0 <= b2 /\ b2 < WindowSize
      BY <1>8 DEF Bits
    <3>. HIDE DEF b2
    <3>. QED  BY <1>8, <3>1, IndexCases
  <2>4. id - d \in 0 .. MaxPid
    BY <2>1, <1>9
  <2>5. CASE d = 0
    <3>1. h2[ReplayIndex(b2, d)]
      BY <2>2, <2>3, <2>5
    <3>2. id - d = id
      BY <2>5
    <3>3. acc2[Pid(t, id - d)] > 0
      BY <3>2, <1>13, <1>14
    <3>. QED  BY <3>1, <3>3
  <2>6. ASSUME d > 0
        PROVE  ReplayIndex(b2, d) # b2
    <3>. HIDE DEF b2
    <3>. QED  BY <1>8, <2>1, <2>3, <2>6, IndexInjective
  <2>7. ASSUME d > 0
        PROVE  acc2[Pid(t, id - d)] = acc[Pid(t, id - d)]
    <3>1. id - d # id
      BY <2>7
    <3>. HIDE DEF acc2
    <3>. QED  BY <3>1, <2>4, <1>13
  <2>8. CASE d > 0 /\ d < delta
    <3>1. id - d > h
      BY <2>8, <1>5
    <3>2. acc[Pid(t, id - d)] = 0
      BY <3>1, <2>4, <1>7
    <3>3. ~(acc2[Pid(t, id - d)] > 0)
      BY <3>2, <2>7, <2>8
    <3>4. ~ h2[ReplayIndex(b2, d)]
      <4>1. CASE near
        <5>1. Skipped(r, id, ReplayIndex(b2, d))
          <6>1. d \in 1 .. delta - 1
            BY <2>8
          <6>. QED  BY <4>1, <6>1, <2>1, <2>2, <1>17, <1>18
        <5>. QED  BY <5>1, <2>2, <2>6, <2>8
      <4>2. CASE ~ near
        BY <4>2, <2>2, <2>6, <2>8
      <4>. QED  BY <4>1, <4>2
    <3>. QED  BY <3>3, <3>4
  <2>9. CASE d > 0 /\ d >= delta
    <3>1. near
      BY <2>1, <2>9
    <3>2. PICK c \in 0 .. e - 1 : c = d - delta
      <4>1. e2 <= e + delta
        BY <3>1
      <4>2. d - delta \in 0 .. e - 1
        BY <4>1, <2>1, <2>9
      <4>. QED  BY <4>2
    <3>3. ReplayIndex(b2, d) = ReplayIndex(b, c)
      BY <3>1, <3>2, <2>1, <1>17
    <3>4. h - c = id - d
      BY <3>2, <1>5
    <3>5. hist[ReplayIndex(b2, d)] <=> acc[Pid(t, id - d)] > 0
      BY <3>3, <3>4, <1>4
    <3>6. ~ Skipped(r, id, ReplayIndex(b2, d))
      <4>1. SUFFICES ASSUME NEW k \in 1 .. delta - 1,
                            ReplayIndex(b2, d) = ReplayIndex(b, k - delta)
                     PROVE  FALSE
        BY <2>2, <1>18
      <4>2. k \in Nat /\ k < WindowSize /\ k < d
        BY <3>1, <2>9
      <4>3. ReplayIndex(b2, k) = ReplayIndex(b, k - delta)
        BY <3>1, <4>2, <1>17
      <4>4. k = d
        <5>. HIDE DEF b2
        <5>. QED  BY <4>1, <4>2, <4>3, <2>1, <1>8, IndexInjective
      <4>. QED  BY <4>2, <4>4
    <3>7. h2[ReplayIndex(b2, d)] <=> hist[ReplayIndex(b2, d)]
      BY <3>1, <3>6, <2>2, <2>6, <2>9
    <3>. QED  BY <3>5, <3>7, <2>7, <2>9
  <2>. QED  BY <2>5, <2>8, <2>9
<1>. HIDE DEF near, b2, e2, h2, acc2
<1>20. /\ Forward(r, id) \in RecvType
       /\ Forward(r, id).base = b2 /\ Forward(r, id).extent = e2
       /\ Forward(r, id).id_high = id /\ Forward(r, id).time_high = t
       /\ Forward(r, id).history = h2
  <2>1. e2 \in 0 .. WindowSize
    BY <1>9
  <2>2. /\ Recv(b2, e2, r.expire, id, t, r.id_floor, h2) \in RecvType
        /\ Recv(b2, e2, r.expire, id, t, r.id_floor, h2).base = b2
        /\ Recv(b2, e2, r.expire, id, t, r.id_floor, h2).extent = e2
        /\ Recv(b2, e2, r.expire, id, t, r.id_floor, h2).id_high = id
        /\ Recv(b2, e2, r.expire, id, t, r.id_floor, h2).time_high = t
        /\ Recv(b2, e2, r.expire, id, t, r.id_floor, h2).history = h2
    BY <2>1, <1>8, <1>10, <1>11 DEF Recv, RecvType
  <2>. QED  BY <2>2, <1>12, Zenon
<1>21. Describes(Forward(r, id), acc2)
  BY <1>9, <1>15, <1>19, <1>20 DEF Describes
<1>22. HighSeen(Forward(r, id), acc2)
  BY <1>13, <1>14, <1>20 DEF HighSeen
<1>. QED  BY <1>1, <1>14, <1>20, <1>21, <1>22 DEF acc2

\* Marking an id below the high one, within the extent and not yet seen.
LEMMA MarkedDescribes ==
    ASSUME NEW r \in RecvType, NEW acc \in [PidType -> Nat], Describes(r, acc), HighSeen(r, acc),
           NEW id \in 0 .. MaxPid, id <= r.id_high, r.id_high - id < r.extent,
           ~ r.history[ReplayIndex(r.base, r.id_high - id)]
    PROVE  /\ Marked(r, id) \in RecvType
           /\ acc[Pid(r.time_high, id)] = 0
           /\ Describes(Marked(r, id), Plus(acc, Pid(r.time_high, id)))
           /\ HighSeen(Marked(r, id), Plus(acc, Pid(r.time_high, id)))
<1>. WindowSize \in Nat /\ WindowSize > 1
  BY SizeAssumption
<1>. MaxPid \in Nat /\ MaxTime \in Nat
  BY SizeAssumption
<1>1. PICK b \in Bits, e \in 0 .. WindowSize, h \in 0 .. MaxPid, t \in 0 .. MaxTime,
           hist \in [Bits -> BOOLEAN] :
         b = r.base /\ e = r.extent /\ h = r.id_high /\ t = r.time_high /\ hist = r.history
  BY DEF RecvType
<1>2. e <= h
  BY <1>1 DEF Describes
<1>3. \A s \in 0 .. MaxTime, i \in 0 .. MaxPid : acc[Pid(s, i)] > 0 => s < t \/ (s = t /\ i <= h)
  BY <1>1 DEF Describes
<1>4. \A d \in 0 .. e - 1 : hist[ReplayIndex(b, d)] <=> acc[Pid(t, h - d)] > 0
  BY <1>1 DEF Describes
<1>5. PICK c \in 0 .. e - 1 : c = h - id
  BY <1>1
<1>6. c \in Nat /\ c < WindowSize
  OBVIOUS
<1>. DEFINE x    == ReplayIndex(b, c)
            h2   == [hist EXCEPT ![x] = TRUE]
            acc2 == Plus(acc, Pid(t, id))
<1>7. x \in Bits
  BY <1>6, IndexCases
<1>8. h2 \in [Bits -> BOOLEAN]
  OBVIOUS
<1>9. r.expire \in Nat /\ r.id_floor \in 0 .. MaxPid
  BY DEF RecvType
<1>10. Marked(r, id) = Recv(b, e, r.expire, h, t, r.id_floor, h2)
  BY <1>1, <1>5 DEF Marked
<1>11. /\ acc2[Pid(t, id)] = acc[Pid(t, id)] + 1
       /\ \A s \in 0 .. MaxTime, j \in 0 .. MaxPid :
             s # t \/ j # id => acc2[Pid(s, j)] = acc[Pid(s, j)]
  BY PlusCounts
<1>12. acc[Pid(t, id)] = 0
  <2>1. h - c = id
    BY <1>5
  <2>2. ~ hist[x]
    BY <1>1, <1>5
  <2>3. ~(acc[Pid(t, id)] > 0)
    BY <2>1, <2>2, <1>4
  <2>4. acc[Pid(t, id)] \in Nat
    BY PidPair
  <2>. QED  BY <2>3, <2>4
<1>13. ASSUME NEW s \in 0 .. MaxTime, NEW i \in 0 .. MaxPid, acc2[Pid(s, i)] > 0
       PROVE  s < t \/ (s = t /\ i <= h)
  <2>. HIDE DEF acc2
  <2>1. CASE s = t /\ i = id
    BY <2>1, <1>1
  <2>2. CASE s # t \/ i # id
    BY <2>2, <1>3, <1>11, <1>13
  <2>. QED  BY <2>1, <2>2
<1>14. ASSUME NEW d \in 0 .. e - 1
       PROVE  h2[ReplayIndex(b, d)] <=> acc2[Pid(t, h - d)] > 0
  <2>1. d \in Nat /\ d < WindowSize /\ h - d \in 0 .. MaxPid
    BY <1>2
  <2>2. ReplayIndex(b, d) \in Bits
    BY <2>1, IndexCases
  <2>3. CASE d = c
    <3>1. h - d = id
      BY <2>3, <1>5
    <3>2. acc2[Pid(t, h - d)] > 0
      BY <3>1, <1>11, <1>12
    <3>3. h2[ReplayIndex(b, d)]
      BY <2>3, <1>7
    <3>. QED  BY <3>2, <3>3
  <2>4. CASE d # c
    <3>1. h - d # id
      BY <2>4, <1>5
    <3>2. ReplayIndex(b, d) # x
      BY <2>1, <2>4, <1>6, IndexInjective
    <3>3. h2[ReplayIndex(b, d)] <=> hist[ReplayIndex(b, d)]
      BY <3>2, <2>2, <1>7
    <3>4. acc2[Pid(t, h - d)] = acc[Pid(t, h - d)]
      <4>. HIDE DEF acc2
      <4>. QED  BY <3>1, <2>1, <1>11
    <3>. QED  BY <3>3, <3>4, <1>4
  <2>. QED  BY <2>3, <2>4
<1>. HIDE DEF x, h2, acc2
<1>15. /\ Marked(r, id) \in RecvType
       /\ Marked(r, id).base = b /\ Marked(r, id).extent = e
       /\ Marked(r, id).id_high = h /\ Marked(r, id).time_high = t
       /\ Marked(r, id).history = h2
  <2>1. /\ Recv(b, e, r.expire, h, t, r.id_floor, h2) \in RecvType
        /\ Recv(b, e, r.expire, h, t, r.id_floor, h2).base = b
        /\ Recv(b, e, r.expire, h, t, r.id_floor, h2).extent = e
        /\ Recv(b, e, r.expire, h, t, r.id_floor, h2).id_high = h
        /\ Recv(b, e, r.expire, h, t, r.id_floor, h2).time_high = t
        /\ Recv(b, e, r.expire, h, t, r.id_floor, h2).history = h2
    BY <1>8, <1>9 DEF Recv, RecvType
  <2>. QED  BY <2>1, <1>10, Zenon
<1>16. Describes(Marked(r, id), acc2)
  BY <1>2, <1>13, <1>14, <1>15 DEF Describes
<1>17. HighSeen(Marked(r, id), acc2)
  <2>1. CASE t = 0 /\ h = 0
    BY <2>1, <1>15 DEF HighSeen
  <2>2. CASE acc[Pid(t, h)] > 0
    <3>1. h # id
      BY <2>2, <1>12
    <3>2. acc2[Pid(t, h)] = acc[Pid(t, h)]
      BY <3>1, <1>11
    <3>. QED  BY <2>2, <3>2, <1>15 DEF HighSeen
  <2>. QED  BY <2>1, <2>2, <1>1 DEF HighSeen
<1>. QED  BY <1>1, <1>12, <1>15, <1>16, <1>17 DEF acc2

(***************************************************************************)
(* test_add with mod, when its verdict is good: the id was not accepted    *)
(* before, and the window describes that it is now.                        *)
(***************************************************************************)
LEMMA AddedDescribes ==
    ASSUME NEW r \in RecvType, NEW acc \in [PidType -> Nat], Describes(r, acc), HighSeen(r, acc),
           NEW pin \in PidType, NEW t \in Times, Verdict(r, pin, t) = "SUCCESS"
    PROVE  /\ Added(r, pin, t) \in RecvType
           /\ acc[pin] = 0
           /\ Describes(Added(r, pin, t), Plus(acc, pin))
           /\ HighSeen(Added(r, pin, t), Plus(acc, pin))
<1>1. PICK time \in 0 .. MaxTime, id \in 0 .. MaxPid : pin = Pid(time, id)
  BY PidPair
<1>2. pin.time = time /\ pin.id = id
  BY <1>1, PidPair
<1>. DEFINE w == Tested(r, t)
<1>3. /\ w \in RecvType /\ w.id_high = r.id_high /\ w.time_high = r.time_high
      /\ w.extent = r.extent /\ w.base = r.base /\ w.history = r.history
      /\ Describes(w, acc) /\ HighSeen(w, acc)
  BY TestedDescribes DEF HighSeen
<1>. HIDE DEF w
<1>4. PICK h \in 0 .. MaxPid, th \in 0 .. MaxTime, e \in 0 .. WindowSize :
         h = r.id_high /\ th = r.time_high /\ e = r.extent
  BY DEF RecvType
<1>. MaxPid \in Nat /\ MaxTime \in Nat /\ WindowSize \in Nat
  BY SizeAssumption
<1>5. id > 0
  BY <1>2 DEF Verdict
<1>6. CASE time > th
  <2>. DEFINE s == Restarted(w, time)
  <2>1. s \in RecvType /\ s.id_high = 0 /\ s.time_high = time /\ Describes(s, acc)
    BY <1>3, <1>4, <1>6, RestartedDescribes
  <2>2. Added(r, pin, t) = Forward(s, id)
    BY <2>1, <1>2, <1>4, <1>5, <1>6 DEF Added, w
  <2>. HIDE DEF s
  <2>3. id > s.id_high
    BY <2>1, <1>5
  <2>4. /\ Forward(s, id) \in RecvType
        /\ acc[Pid(s.time_high, id)] = 0
        /\ Describes(Forward(s, id), Plus(acc, Pid(s.time_high, id)))
        /\ HighSeen(Forward(s, id), Plus(acc, Pid(s.time_high, id)))
    BY <2>1, <2>3, ForwardDescribes, Zenon
  <2>. QED  BY <2>1, <2>2, <2>4, <1>1
<1>7. CASE ~(time > th)
  <2>1. time = th
    BY <1>2, <1>4, <1>7 DEF Verdict
  <2>2. Added(r, pin, t) = IF id > h THEN Forward(w, id) ELSE Marked(w, id)
    BY <1>2, <1>3, <1>4, <1>7 DEF Added, w
  <2>3. CASE id > h
    <3>1. /\ Forward(w, id) \in RecvType
          /\ acc[Pid(w.time_high, id)] = 0
          /\ Describes(Forward(w, id), Plus(acc, Pid(w.time_high, id)))
          /\ HighSeen(Forward(w, id), Plus(acc, Pid(w.time_high, id)))
        /\ HighSeen(Forward(w, id), Plus(acc, Pid(w.time_high, id)))
      BY <2>3, <1>3, <1>4, ForwardDescribes
    <3>. QED  BY <2>1, <2>2, <2>3, <3>1, <1>1, <1>3, <1>4
  <2>4. CASE ~(id > h)
    <3>1. /\ ~(r.id_high - pin.id >= r.extent)
          /\ ~ r.history[ReplayIndex(r.base, r.id_high - pin.id)]
      BY <2>1, <2>4, <1>2, <1>4 DEF Verdict
    <3>2. /\ id <= w.id_high
          /\ w.id_high - id < w.extent
          /\ ~ w.history[ReplayIndex(w.base, w.id_high - id)]
      <4>1. id <= h /\ h - id < e
        BY <2>4, <3>1, <1>2, <1>4
      <4>. QED  BY <4>1, <3>1, <1>2, <1>3, <1>4
    <3>3. /\ Marked(w, id) \in RecvType
          /\ acc[Pid(w.time_high, id)] = 0
          /\ Describes(Marked(w, id), Plus(acc, Pid(w.time_high, id)))
          /\ HighSeen(Marked(w, id), Plus(acc, Pid(w.time_high, id)))
        /\ HighSeen(Marked(w, id), Plus(acc, Pid(w.time_high, id)))
      BY <3>2, <1>3, MarkedDescribes, Zenon
    <3>. QED  BY <2>1, <2>2, <2>4, <3>3, <1>1, <1>3, <1>4
  <2>. QED  BY <2>3, <2>4
<1>. QED  BY <1>6, <1>7

(***************************************************************************)
(* The probe of a packet decides what the second test says: id_floor can   *)
(* only have moved as the second test would have moved it.                 *)
(***************************************************************************)
LEMMA TestedVerdict ==
    ASSUME NEW r \in RecvType, NEW pin \in PidType, NEW t \in Times
    PROVE  Verdict(Tested(r, t), pin, t) = Verdict(r, pin, t)
<1>1. /\ Tested(r, t).id_high = r.id_high
      /\ Tested(r, t).time_high = r.time_high
      /\ Tested(r, t).extent = r.extent
      /\ Tested(r, t).base = r.base
      /\ Tested(r, t).history = r.history
      /\ Tested(r, t).id_floor = Floor(r, t)
  BY TestedDescribes
<1>2. Floor(Tested(r, t), t) = Floor(r, t)
  <2>1. CASE t >= Tested(r, t).expire
    <3>1. Tested(r, t).expire = t + RecvExpire
      BY DEF Tested, Recv
    <3>2. RecvExpire \in Nat /\ RecvExpire > 0 /\ r.expire \in Nat /\ t \in Nat
      BY SizeAssumption DEF RecvType, Times
    <3>. QED  BY <2>1, <3>1, <3>2, <1>1 DEF Floor
  <2>2. CASE ~(t >= Tested(r, t).expire)
    BY <2>2, <1>1 DEF Floor
  <2>. QED  BY <2>1, <2>2
<1>. QED  BY <1>1, <1>2 DEF Verdict

-----------------------------------------------------------------------------
(* The theorems *)

\* The invariant holds of a fresh sender and a fresh receiver.
LEMMA InitInv == Init => IInv
<1>. SUFFICES ASSUME Init PROVE IInv
  OBVIOUS
<1>. WindowSize \in Nat /\ WindowSize > 1 /\ MaxPid \in Nat /\ MaxTime \in Nat /\ StartAt \in 0 .. MaxPid
  BY SizeAssumption
<1>1. 0 \in Bits /\ 0 \in 0 .. WindowSize /\ 0 \in 0 .. MaxPid /\ 0 \in 0 .. MaxTime
  BY DEF Bits
<1>. DEFINE hist == [b \in Bits |-> FALSE]
<1>2. hist \in [Bits -> BOOLEAN]
  OBVIOUS
<1>. HIDE DEF hist
<1>3. recv = Recv(0, 0, 0, 0, 0, 0, hist)
  BY DEF Init, hist
<1>4. recv \in RecvType /\ recv.extent = 0 /\ recv.id_high = 0 /\ recv.time_high = 0
  BY <1>1, <1>2, <1>3 DEF Recv, RecvType
<1>5. accepts \in [PidType -> Nat] /\ \A pid \in PidType : accepts[pid] = 0
  BY DEF Init
<1>6. pid_ \in PidType
  BY <1>1 DEF Init, Pid, PidType
<1>7. TypeOK
  BY <1>4, <1>5, <1>6 DEF Init, TypeOK, RecvType
<1>8. Describes(recv, accepts) /\ HighSeen(recv, accepts)
  BY <1>4, <1>5, PidPair DEF Describes, HighSeen
<1>. QED  BY <1>5, <1>7, <1>8 DEF IInv, AcceptedOnce, SentInv, Init

\* A receiver step that lets pin in by test_add with mod, from w.
LEMMA AcceptStep ==
    ASSUME IInv, NEW pin \in sent, NEW w \in RecvType, Describes(w, accepts), HighSeen(w, accepts),
           Verdict(w, pin, now) = "SUCCESS",
           recv' = TestAdd(w, pin, now), Accept(pin), UNCHANGED <<long_form, now, pid_, wrapped, sent>>
    PROVE  IInv'
<1>1. TypeOK /\ AcceptedOnce /\ SentInv
  BY DEF IInv
<1>2. pin \in PidType /\ now \in Times /\ accepts \in [PidType -> Nat]
  BY <1>1 DEF TypeOK
<1>3. recv' = Added(w, pin, now) /\ accepts' = Plus(accepts, pin)
  BY DEF TestAdd, Accept, Plus
<1>4. /\ Added(w, pin, now) \in RecvType
      /\ accepts[pin] = 0
      /\ Describes(Added(w, pin, now), Plus(accepts, pin))
      /\ HighSeen(Added(w, pin, now), Plus(accepts, pin))
  BY <1>2, AddedDescribes, Zenon
<1>5. TypeOK'
  <2>1. accepts' \in [PidType -> Nat]
    BY <1>2, <1>3 DEF Plus
  <2>. QED  BY <2>1, <1>1, <1>3, <1>4 DEF TypeOK, RecvType
<1>6. AcceptedOnce'
  BY <1>1, <1>2, <1>3, <1>4 DEF AcceptedOnce, Plus
<1>7. SentInv'
  BY <1>1 DEF SentInv
<1>. QED  BY <1>3, <1>4, <1>5, <1>6, <1>7 DEF IInv

\* A receiver step that only tests.
LEMMA RejectStep ==
    ASSUME IInv, recv' = Tested(recv, now), UNCHANGED <<long_form, now, pid_, wrapped, sent, accepts>>
    PROVE  IInv'
<1>1. TypeOK /\ AcceptedOnce /\ SentInv /\ Describes(recv, accepts) /\ HighSeen(recv, accepts)
  BY DEF IInv
<1>2. recv \in RecvType /\ now \in Times
  BY <1>1 DEF TypeOK, RecvType
<1>3. recv' \in RecvType /\ Describes(recv', accepts) /\ HighSeen(recv', accepts)
  BY <1>1, <1>2, TestedDescribes DEF HighSeen
<1>. QED  BY <1>1, <1>3 DEF IInv, TypeOK, RecvType, AcceptedOnce, SentInv

\* PacketIDSend::next keeps the ids sent below its own.
LEMMA SendInv ==
    ASSUME IInv, Send
    PROVE  IInv' /\ \A pid \in sent : ~ wrapped' => Wire(pid_') # pid
<1>. MaxPid \in Nat /\ MaxTime \in Nat
  BY SizeAssumption
<1>1. TypeOK /\ SentInv /\ AcceptedOnce /\ Describes(recv, accepts) /\ HighSeen(recv, accepts)
  BY DEF IInv
<1>2. PICK t \in 0 .. MaxTime, i \in 0 .. MaxPid : t = pid_.time /\ i = pid_.id
  BY <1>1 DEF TypeOK, PidType
<1>3. now \in 1 .. MaxTime /\ long_form \in BOOLEAN /\ ~ wrapped
  BY <1>1 DEF TypeOK, Times, Send
<1>. DEFINE time == IF t = 0 THEN now ELSE t
<1>4. time \in 1 .. MaxTime
  BY <1>3
<1>5. UNCHANGED <<long_form, now, recv, accepts>>
  BY DEF Send
<1>6. ASSUME NEW u \in 1 .. MaxTime, NEW j \in 1 .. MaxPid, pid_' = Pid(u, j),
             sent' = sent \cup {Wire(pid_')}, wrapped' = wrapped,
             u > t \/ (u = t /\ j > i), ~ long_form => j > i
      PROVE  IInv' /\ \A pid \in sent : Wire(pid_') # pid
  <2>1. pid_' \in PidType /\ pid_'.time = u /\ pid_'.id = j
    BY <1>6, PidPair
  <2>2. Wire(pid_') \in PidType /\ Wire(pid_').id = j /\ (long_form => Wire(pid_') = pid_')
    BY <2>1 DEF Wire, Pid, PidType
  <2>3. TypeOK'
    BY <2>1, <2>2, <1>1, <1>5, <1>6 DEF TypeOK
  <2>4. ASSUME NEW pin \in sent
        PROVE  /\ pin.id > 0
               /\ long_form => u > 0 /\ (pin.time < u \/ (pin.time = u /\ pin.id < j))
               /\ ~ long_form => pin.id < j
    <3>1. pin.time \in 0 .. MaxTime /\ pin.id \in 0 .. MaxPid
      BY <1>1 DEF TypeOK, PidType
    <3>2. /\ pin.id > 0
          /\ long_form => t > 0 /\ (pin.time < t \/ (pin.time = t /\ pin.id <= i))
          /\ ~ long_form => pin.id <= i
      BY <1>1, <1>2, <1>3 DEF SentInv
    <3>. QED  BY <3>1, <3>2, <1>6
  <2>5. SentInv'
    <3>1. ASSUME NEW pin \in sent'
          PROVE  /\ pin.id > 0
                 /\ long_form => /\ u > 0
                                 /\ pin.time < u \/ (pin.time = u /\ pin.id <= j)
                 /\ ~ long_form => pin.id <= j
      <4>1. CASE pin \in sent
        <5>1. pin.id \in 0 .. MaxPid
          BY <4>1, <1>1 DEF TypeOK, PidType
        <5>. QED  BY <4>1, <5>1, <2>4
      <4>2. CASE pin = Wire(pid_')
        BY <4>2, <2>1, <2>2
      <4>. QED  BY <4>1, <4>2, <1>6
    <3>. QED  BY <3>1, <2>1, <1>5 DEF SentInv
  <2>6. \A pid \in sent : Wire(pid_') # pid
    BY <2>1, <2>2, <2>4, <1>3
  <2>7. AcceptedOnce' /\ Describes(recv, accepts)' /\ HighSeen(recv, accepts)'
    BY <1>1, <1>5 DEF AcceptedOnce
  <2>. QED  BY <2>3, <2>5, <2>6, <2>7 DEF IInv
<1>7. CASE pid_.id < MaxPid /\ pid_' = Pid(time, pid_.id + 1)
           /\ sent' = sent \cup {Wire(pid_')} /\ wrapped' = wrapped
  <2>1. PICK j \in 1 .. MaxPid : j = i + 1 /\ j > i
    BY <1>2, <1>7
  <2>2. PICK u \in 1 .. MaxTime : u = time
    BY <1>4
  <2>3. u > t \/ u = t
    BY <2>2, <1>3
  <2>4. pid_' = Pid(u, j)
    BY <2>1, <2>2, <1>2, <1>7
  <2>. HIDE DEF time
  <2>. QED  BY <2>1, <2>3, <2>4, <1>6, <1>7
<1>8. CASE pid_.id = MaxPid /\ long_form /\ now > time /\ pid_' = Pid(now, 1)
           /\ sent' = sent \cup {Wire(pid_')} /\ wrapped' = wrapped
  <2>1. 1 \in 1 .. MaxPid /\ now > t
    BY <1>3, <1>8, SizeAssumption
  <2>. QED  BY <2>1, <1>3, <1>6, <1>8
<1>9. CASE pid_.id = MaxPid /\ ~ long_form /\ pid_' = Pid(time, 0) /\ wrapped' = TRUE /\ sent' = sent
  <2>1. pid_' \in PidType
    BY <1>4, <1>9 DEF Pid, PidType
  <2>2. TypeOK'
    BY <2>1, <1>1, <1>5, <1>9 DEF TypeOK
  <2>3. SentInv'
    BY <1>1, <1>5, <1>9 DEF SentInv
  <2>4. AcceptedOnce' /\ Describes(recv, accepts)' /\ HighSeen(recv, accepts)'
    BY <1>1, <1>5 DEF AcceptedOnce
  <2>. QED  BY <2>2, <2>3, <2>4, <1>9 DEF IInv
<1>. QED  BY <1>2, <1>7, <1>8, <1>9 DEF Send

\* Every step preserves the invariant.
LEMMA NextInv == ASSUME IInv, [Next]_vars PROVE IInv'
<1>1. TypeOK /\ Describes(recv, accepts) /\ HighSeen(recv, accepts)
  BY DEF IInv
<1>2. recv \in RecvType /\ now \in Times /\ sent \subseteq PidType
  BY <1>1 DEF TypeOK, RecvType
<1>3. CASE Send
  BY <1>3, SendInv
<1>4. ASSUME NEW pin \in sent, RecvData(pin)
      PROVE  IInv'
  <2>1. recv' = TestAdd(recv, pin, now) /\ UNCHANGED <<long_form, now, pid_, wrapped, sent>>
    BY <1>4 DEF RecvData
  <2>2. CASE Verdict(recv, pin, now) = "SUCCESS"
    <3>1. Accept(pin)
      BY <1>4, <2>2 DEF RecvData
    <3>. QED  BY <2>1, <2>2, <3>1, <1>1, <1>2, AcceptStep, Zenon
  <2>3. CASE Verdict(recv, pin, now) # "SUCCESS"
    BY <1>4, <2>1, <2>3, RejectStep DEF RecvData, TestAdd
  <2>. QED  BY <2>2, <2>3
<1>5. ASSUME NEW pin \in sent, NEW keep \in BOOLEAN, RecvControl(pin, keep)
      PROVE  IInv'
  <2>. DEFINE w == Tested(recv, now)
  <2>1. CASE keep /\ Verdict(recv, pin, now) = "SUCCESS"
    <3>1. recv' = TestAdd(w, pin, now) /\ Accept(pin) /\ UNCHANGED <<long_form, now, pid_, wrapped, sent>>
      BY <1>5, <2>1 DEF RecvControl
    <3>2. pin \in PidType
      BY <1>2
    <3>3. w \in RecvType /\ Describes(w, accepts) /\ HighSeen(w, accepts)
      BY <1>1, <1>2, TestedDescribes DEF HighSeen
    <3>4. Verdict(w, pin, now) = "SUCCESS"
      BY <3>2, <2>1, <1>2, TestedVerdict
    <3>. HIDE DEF w
    <3>. QED  BY <3>1, <3>3, <3>4, AcceptStep, Zenon
  <2>2. CASE ~(keep /\ Verdict(recv, pin, now) = "SUCCESS")
    BY <1>5, <2>2, RejectStep DEF RecvControl
  <2>. QED  BY <2>1, <2>2
<1>6. ASSUME NEW t \in Times, SetClock(t)
      PROVE  IInv'
  BY <1>6 DEF SetClock, IInv, TypeOK, AcceptedOnce, SentInv
<1>7. CASE UNCHANGED vars
  BY <1>7 DEF vars, IInv, TypeOK, AcceptedOnce, SentInv
<1>. QED  BY <1>3, <1>4, <1>5, <1>6, <1>7 DEF Next

\* The inductive invariant holds in every state.
THEOREM Inductive == Spec => []IInv
<1>1. IInv /\ [Next]_vars => IInv'
  BY NextInv
<1>. QED  BY <1>1, InitInv, PTL DEF Spec

\* The state of PacketIDSend and PacketIDReceive stays within its types.
THEOREM TypeCorrect == Spec => []TypeOK
<1>1. IInv => TypeOK
  BY DEF IInv
<1>. QED  BY <1>1, Inductive, PTL

\* No packet id is accepted more than once, for every window size and id width.
THEOREM NoReplay == Spec => []AcceptedOnce
<1>1. IInv => AcceptedOnce
  BY DEF IInv
<1>. QED  BY <1>1, Inductive, PTL

\* The ring buffer says exactly which of the ids in the window were accepted.
THEOREM ExactHistory == Spec => []HistoryExact
<1>1. IInv => HistoryExact
  BY DEF IInv, Describes, HistoryExact
<1>. QED  BY <1>1, Inductive, PTL

\* test_add without mod predicts what test_add with mod says next.
THEOREM ProbeAgrees == Spec => []ProbeDecides
<1>1. IInv => ProbeDecides
  <2>. SUFFICES ASSUME IInv, NEW pin \in sent
                PROVE  Verdict(Tested(recv, now), pin, now) = Verdict(recv, pin, now)
    BY DEF ProbeDecides
  <2>1. recv \in RecvType /\ now \in Times /\ pin \in PidType
    BY DEF IInv, TypeOK, RecvType
  <2>. QED  BY <2>1, TestedVerdict
<1>. QED  BY <1>1, Inductive, PTL

\* A packet sent after all those accepted so far is accepted.
THEOREM NoLockout == Spec => []NewestAccepted
<1>1. ASSUME IInv, NEW pin \in sent,
             \A old \in PidType : accepts[old] > 0 =>
                old.time < pin.time \/ (old.time = pin.time /\ old.id < pin.id)
      PROVE  Verdict(recv, pin, now) = "SUCCESS"
  <2>1. HighSeen(recv, accepts) /\ SentInv /\ TypeOK
    BY <1>1 DEF IInv
  <2>2. PICK t \in 0 .. MaxTime, i \in 0 .. MaxPid, th \in 0 .. MaxTime, h \in 0 .. MaxPid :
           t = pin.time /\ i = pin.id /\ th = recv.time_high /\ h = recv.id_high
    BY <2>1 DEF TypeOK, PidType
  <2>3. i > 0
    BY <2>1, <2>2 DEF SentInv
  <2>4. t > th \/ (t = th /\ i > h)
    <3>1. CASE th = 0 /\ h = 0
      BY <3>1, <2>3
    <3>2. CASE accepts[Pid(th, h)] > 0
      BY <3>2, <1>1, <2>2, PidPair
    <3>. QED  BY <3>1, <3>2, <2>1, <2>2 DEF HighSeen
  <2>. QED  BY <2>2, <2>3, <2>4 DEF Verdict
<1>2. IInv => NewestAccepted
  BY <1>1 DEF NewestAccepted
<1>. QED  BY <1>2, Inductive, PTL

\* PacketIDSend never repeats an id, also across the wrap of a long one.
THEOREM NoReuse == Spec => SentOnce
<1>1. ASSUME IInv, [Next]_vars
      PROVE  [\A pid \in sent : pid_' # pid_ /\ ~ wrapped' => Wire(pid_') # pid]_vars
  <2>1. CASE Send
    BY <1>1, <2>1, SendInv
  <2>2. CASE pid_' = pid_
    BY <2>2
  <2>. QED  BY <1>1, <2>1, <2>2 DEF Next, RecvData, RecvControl, SetClock, vars
<1>. QED  BY <1>1, Inductive, PTL DEF Spec, SentOnce

=============================================================================
