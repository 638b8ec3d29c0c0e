--------------------------- MODULE ReliableProof ---------------------------
(***************************************************************************)
(* Proofs about Reliable for every window size, payload set and bound.     *)
(***************************************************************************)
EXTENDS Reliable, SequenceTheorems, TLAPS

-----------------------------------------------------------------------------
(* The inductive invariant. *)

\* Each end's send window against what it has sent.
SendInv(p) ==
    /\ Len(sent[p]) = next[p]
    /\ rel_send[p].head <= next[p]
    /\ next[p] <= rel_send[p].head + SendSpan
    /\ Submitted(p) <= MaxMsgs[p]
    /\ \A i \in Ids :
          /\ i < next[p] => rel_send[p].slot[i] \in {Erased, sent[p][i + 1]}
          /\ i >= next[p] => rel_send[p].slot[i] = Undef
          /\ i < rel_send[p].head => rel_send[p].slot[i] = Erased

\* Each end's receive window against what its peer has sent.
RecvInv(p) ==
    /\ Len(rcvd[p]) = rel_recv[p].head
    /\ rel_recv[p].head <= next[Other(p)]
    /\ \A i \in Ids :
          /\ rel_recv[p].slot[i] # Undef => /\ i < next[Other(p)]
                                            /\ rel_recv[p].slot[i] = sent[Other(p)][i + 1]
          /\ i < rel_recv[p].head => /\ rel_recv[p].slot[i] # Undef
                                     /\ rcvd[p][i + 1] = rel_recv[p].slot[i]
    /\ ssl_started[p] => rel_recv[p].slot[rel_recv[p].head] = Undef

\* What an ACK stands for, in the re-ACK list, in the window and in flight.
AckInv(p) ==
    /\ \A j \in 1 .. Len(re_acks[p]) : rel_recv[p].slot[re_acks[p][j]] # Undef
    /\ \A i \in Ids : rel_send[p].slot[i] = Erased => rel_recv[Other(p)].slot[i] # Undef

\* A packet in flight carries the message its id stands for.
NetInv(pkt) ==
    /\ pkt.op = "CONTROL" => /\ pkt.id < next[pkt.src]
                             /\ pkt.msg = sent[pkt.src][pkt.id + 1]
    /\ \A a \in pkt.acks : rel_recv[pkt.src].slot[a] # Undef

IInv ==
    /\ TypeOK
    /\ \A p \in Peer : SendInv(p) /\ RecvInv(p) /\ AckInv(p)
    /\ \A pkt \in net : NetInv(pkt)

-----------------------------------------------------------------------------
(* Lemmas about the operators. *)

\* There are two ends, and each is the other's other.
LEMMA OtherEnd ==
    ASSUME NEW p \in Peer
    PROVE  /\ Other(p) \in Peer
           /\ Other(p) # p
           /\ Other(Other(p)) = p
           /\ \A q \in Peer : q # p => q = Other(p)
<1>1. \A x \in Peer : Other(x) \in Peer /\ Other(x) # x
  BY PeerAssumption DEF Other
<1>2. \A q \in Peer : q # p => q = Other(p)
  BY <1>1, PeerAssumption
<1>. QED  BY <1>1, <1>2

\* u is s, of length n, extended by the first k elements of t.
ExtendedBy(u, S, s, n, t, k) ==
    /\ u \in Seq(S)
    /\ Len(u) = n + k
    /\ \A i \in 1 .. n : u[i] = s[i]
    /\ \A i \in 1 .. k : u[n + i] = t[i]

\* What appending the first k elements of t to s does to s.
LEMMA Extended ==
    ASSUME NEW S, NEW s \in Seq(S), NEW n \in Nat, n = Len(s),
           NEW t \in Seq(S), NEW k \in Nat, k <= Len(t)
    PROVE  ExtendedBy(s \o SubSeq(t, 1, k), S, s, n, t, k)
<1>. DEFINE v == SubSeq(t, 1, k)
<1>1. /\ v \in Seq(S)
      /\ Len(v) = k
      /\ \A i \in 1 .. k : v[i] = t[i]
  BY SubSeqProperties
<1>. HIDE DEF v
<1>2. /\ s \o v \in Seq(S)
      /\ Len(s \o v) = n + k
      /\ \A i \in 1 .. n + k : (s \o v)[i] = IF i <= n THEN s[i] ELSE v[i - n]
  BY <1>1, ConcatProperties
<1>3. ASSUME NEW i \in 1 .. k
      PROVE  (s \o v)[n + i] = t[i]
  BY <1>1, <1>2
<1>4. ExtendedBy(s \o v, S, s, n, t, k)
  BY <1>2, <1>3 DEF ExtendedBy
<1>. QED  BY <1>4 DEF v

\* What remains of a queue after its first k elements are taken.
LEMMA Remainder ==
    ASSUME NEW S, NEW s \in Seq(S), NEW k \in 0 .. Len(s)
    PROVE  /\ SubSeq(s, k + 1, Len(s)) \in Seq(S)
           /\ Len(SubSeq(s, k + 1, Len(s))) = Len(s) - k
<1>. QED  BY SubSeqProperties

\* What flush has to send is a sequence of packets.
LEMMA PendingType ==
    ASSUME NEW started \in BOOLEAN, NEW raw \in Seq(Payload), NEW app \in Seq(Payload)
    PROVE  /\ Pending(started, raw, app) \in Seq(Payload)
           /\ Len(Pending(started, raw, app)) = Len(raw) + (IF started THEN Len(app) ELSE 0)
<1>1. <<>> \in Seq(Payload) /\ Len(<<>>) = 0
  OBVIOUS
<1>. QED  BY <1>1, ConcatProperties DEF Pending

\* The smaller of a length and the room that is left after n.
LEMMA RoomFor ==
    ASSUME NEW l \in Nat, NEW h \in Nat, NEW s \in Nat, NEW n \in Nat, h <= n, n <= h + s
    PROVE  LET c == IF l < h + s - n THEN l ELSE h + s - n
           IN  c \in Nat /\ c <= l /\ n + c <= h + s
<1>1. CASE l < h + s - n
  BY <1>1
<1>2. CASE ~ (l < h + s - n)
  BY <1>2
<1>. QED  BY <1>1, <1>2

(***************************************************************************)
(* A window that flush may start from: p's send window, possibly after     *)
(* ACKs were applied.                                                      *)
(***************************************************************************)
SendWindow(p, w) ==
    /\ Len(sent[p]) = next[p]
    /\ w.head <= next[p]
    /\ next[p] <= w.head + SendSpan
    /\ \A i \in Ids :
          /\ i < next[p] => w.slot[i] \in {Erased, sent[p][i + 1]}
          /\ i >= next[p] => w.slot[i] = Undef
          /\ i < w.head => w.slot[i] = Erased

\* The bound of the model on what p is given to send.
WithinBound(p, raw, app) == next[p] + Len(raw) + Len(app) <= MaxMsgs[p]

\* A packet that flush or retransmit of p may put in flight.
Genuine(p, re, pkt) ==
    /\ pkt \in Packet
    /\ pkt.src = p
    /\ pkt.acks = AcksToSend(re)
    /\ pkt.op = "CONTROL" => pkt.id < next[p] /\ pkt.msg = sent[p][pkt.id + 1]

\* The state that a flush of p leaves, from window w, with n sent before it.
FlushResult(p, n, w, re) ==
    /\ rel_send' \in [Peer -> Windows]
    /\ next' \in [Peer -> Ids]
    /\ sent' \in [Peer -> Seq(Payload)]
    /\ raw_write_queue' \in [Peer -> Seq(Payload)]
    /\ app_write_queue' \in [Peer -> Seq(Payload)]
    /\ re_acks' = [re_acks EXCEPT ![p] = re]
    /\ SendInv(p)'
    /\ n <= next'[p]
    /\ \A i \in 1 .. n : sent'[p][i] = sent[p][i]
    /\ \A i \in Ids : rel_send'[p].slot[i] = Erased => w.slot[i] = Erased
    /\ \A q \in Peer : q # p =>
          /\ rel_send'[q] = rel_send[q] /\ next'[q] = next[q] /\ sent'[q] = sent[q]
          /\ raw_write_queue'[q] = raw_write_queue[q]
          /\ app_write_queue'[q] = app_write_queue[q]
    /\ \A pkt \in net' : pkt \in net \/ Genuine(p, re, pkt)'

\* What flush does to the end that runs it, whatever the caller's arguments.
LEMMA FlushStep ==
    ASSUME TypeOK, NEW p \in Peer, NEW n \in Nat, n = next[p],
           NEW w \in Windows, NEW h \in Nat, h = w.head, SendWindow(p, w),
           NEW started \in BOOLEAN, NEW raw \in Seq(Payload), NEW app \in Seq(Payload),
           WithinBound(p, raw, app),
           NEW re \in Seq(Ids), NEW fresh \in BOOLEAN, NEW inflight \in SUBSET net,
           Flush(p, w, started, raw, app, re, fresh, inflight)
    PROVE  FlushResult(p, n, w, re)
<1>. DEFINE pend == Pending(started, raw, app)
<1>. SendSpan \in Nat
  BY SpanAssumption
<1>. MaxId \in Nat
  BY MaxIdAssumption
<1>1. PICK lr \in Nat, la \in Nat, l \in Nat :
         /\ lr = Len(raw) /\ la = Len(app) /\ l = Len(pend)
         /\ l <= lr + la /\ lr <= l
         /\ pend \in Seq(Payload)
  BY PendingType
<1>2. h <= n /\ n <= h + SendSpan
  BY DEF SendWindow
<1>. HIDE DEF pend
<1>3. PICK k \in Nat : k = Admitted(p, w, pend) /\ k <= l /\ n + k <= h + SendSpan
  <2>. DEFINE c == IF l < h + SendSpan - n THEN l ELSE h + SendSpan - n
  <2>1. c \in Nat /\ c <= l /\ n + c <= h + SendSpan
    BY <1>2, RoomFor
  <2>2. c = Admitted(p, w, pend)
    BY <1>1 DEF Admitted
  <2>. HIDE DEF c
  <2>. QED  BY <2>1, <2>2
<1>4. PICK kr \in Nat, ka \in Nat :
         kr = (IF lr < k THEN lr ELSE k) /\ kr <= lr /\ ka = k - kr /\ ka <= la
  BY <1>1, <1>3, SMTT(30)
<1>5. PICK m \in Nat : m = MaxMsgs[p] /\ m <= MaxId
  BY MaxMsgsAssumption
<1>5a. n + lr + la <= m
  BY <1>1, <1>5 DEF WithinBound
<1>. DEFINE slots == [i \in Ids |-> IF i >= n /\ i < n + k THEN pend[i - n + 1] ELSE w.slot[i]]
<1>6. /\ rel_send' = [rel_send EXCEPT ![p] = Window(w.head, slots)]
      /\ next' = [next EXCEPT ![p] = n + k]
      /\ sent' = [sent EXCEPT ![p] = sent[p] \o SubSeq(pend, 1, k)]
      /\ raw_write_queue' = [raw_write_queue EXCEPT ![p] = SubSeq(raw, kr + 1, lr)]
      /\ app_write_queue' = [app_write_queue EXCEPT ![p] = SubSeq(app, ka + 1, la)]
      /\ re_acks' = [re_acks EXCEPT ![p] = re]
  BY <1>1, <1>3, <1>4 DEF Flush, pend
<1>7. \A pkt \in net' :
         \/ pkt \in inflight
         \/ \E i \in 1 .. k : pkt = [op |-> "CONTROL", src |-> p, id |-> n + i - 1,
                                     msg |-> pend[i], acks |-> AcksToSend(re)]
         \/ pkt = [op |-> "ACK", src |-> p, acks |-> AcksToSend(re)]
  BY <1>3 DEF Flush, Transmit, pend
<1>5b. k <= lr + la /\ n + k <= MaxId
  <2>1. l <= lr + la
    BY <1>1
  <2>2. k <= l
    BY <1>3
  <2>3. m <= MaxId
    BY <1>5
  <2>. QED  BY <2>1, <2>2, <2>3, <1>5a, SMTT(30)
<1>8. /\ n + k \in Ids
      /\ \A i \in Ids : i \in Int /\ 0 <= i /\ i <= MaxId
      /\ \A i \in Nat : i <= MaxId => i \in Ids
  BY <1>5b DEF Ids
<1>9. \A i \in 1 .. k : pend[i] \in Payload
  BY <1>1, <1>3, ElementOfSeq
<1>10. w.slot \in [Ids -> Slots] /\ w.head \in Ids
  BY DEF Windows
<1>11. slots \in [Ids -> Slots]
  <2>1. ASSUME NEW i \in Ids, i >= n, i < n + k
        PROVE  pend[i - n + 1] \in Slots
    <3>1. i - n + 1 \in 1 .. k
      BY <2>1, <1>8, SMTT(30)
    <3>. QED  BY <3>1, <1>9 DEF Slots
  <2>. QED  BY <2>1, <1>10
<1>12. /\ n = Len(sent[p])
       /\ sent[p] \in Seq(Payload)
  BY DEF SendWindow, TypeOK
<1>13. /\ sent[p] \o SubSeq(pend, 1, k) \in Seq(Payload)
       /\ Len(sent[p] \o SubSeq(pend, 1, k)) = n + k
       /\ \A i \in 1 .. n : (sent[p] \o SubSeq(pend, 1, k))[i] = sent[p][i]
       /\ \A i \in 1 .. k : (sent[p] \o SubSeq(pend, 1, k))[n + i] = pend[i]
  <2>1. pend \in Seq(Payload)
    BY <1>1
  <2>2. k <= Len(pend)
    BY <1>1, <1>3
  <2>3. ExtendedBy(sent[p] \o SubSeq(pend, 1, k), Payload, sent[p], n, pend, k)
    BY <2>1, <2>2, <1>12, Extended, Zenon
  <2>. QED  BY <2>3 DEF ExtendedBy
<1>14. /\ SubSeq(raw, kr + 1, lr) \in Seq(Payload)
       /\ Len(SubSeq(raw, kr + 1, lr)) = lr - kr
       /\ SubSeq(app, ka + 1, la) \in Seq(Payload)
       /\ Len(SubSeq(app, ka + 1, la)) = la - ka
  <2>1. kr \in 0 .. Len(raw) /\ ka \in 0 .. Len(app)
    BY <1>1, <1>4
  <2>. QED  BY <2>1, <1>1, Remainder
<1>15. AcksToSend(re) \subseteq Ids
  BY DEF AcksToSend
<1>16. /\ rel_send' \in [Peer -> Windows]
       /\ next' \in [Peer -> Ids]
       /\ sent' \in [Peer -> Seq(Payload)]
       /\ raw_write_queue' \in [Peer -> Seq(Payload)]
       /\ app_write_queue' \in [Peer -> Seq(Payload)]
  <2>1. Window(w.head, slots) \in Windows
    BY <1>10, <1>11 DEF Windows, Window
  <2>. HIDE DEF slots
  <2>. QED  BY <1>6, <1>8, <1>13, <1>14, <2>1 DEF TypeOK
<1>. DEFINE u == sent[p] \o SubSeq(pend, 1, k)
<1>17. /\ next'[p] = n + k
       /\ sent'[p] = u
       /\ rel_send'[p].head = h
       /\ rel_send'[p].slot = slots
       /\ Len(raw_write_queue'[p]) = lr - kr
       /\ Len(app_write_queue'[p]) = la - ka
  <2>. HIDE DEF slots, u
  <2>. QED  BY <1>6, <1>14 DEF TypeOK, Window, u
<1>18. ASSUME NEW i \in Ids
       PROVE  /\ i < n + k => slots[i] \in {Erased, u[i + 1]}
              /\ i >= n + k => slots[i] = Undef
              /\ i < h => slots[i] = Erased
  <2>. i \in Int
    BY <1>8
  <2>1. 0 <= i
    BY <1>8
  <2>2. CASE i < n
    <3>1. slots[i] = w.slot[i]
      BY <2>1, <2>2
    <3>. HIDE DEF slots, u
    <3>2. i + 1 \in 1 .. n
      BY <2>1, <2>2
    <3>3. u[i + 1] = sent[p][i + 1]
      BY <3>2, <1>13 DEF u
    <3>4. i < n + k /\ ~ (i >= n + k)
      BY <2>1, <2>2
    <3>. QED  BY <2>1, <2>2, <3>1, <3>3, <3>4 DEF SendWindow
  <2>3. CASE i >= n /\ i < n + k
    <3>1. PICK j \in 1 .. k : j = i - n + 1
      BY <2>1, <2>3
    <3>2. slots[i] = pend[j] /\ u[i + 1] = pend[j]
      <4>1. i = n + j - 1 /\ i + 1 = n + j
        BY <2>1, <3>1, SMTT(30)
      <4>. QED  BY <2>3, <3>1, <4>1, <1>13
    <3>. HIDE DEF slots, u
    <3>. QED  BY <2>1, <2>3, <3>2, <1>2
  <2>4. CASE i >= n + k
    <3>1. slots[i] = w.slot[i]
      BY <2>1, <2>4
    <3>. HIDE DEF slots, u
    <3>. QED  BY <2>1, <2>4, <3>1, <1>2 DEF SendWindow
  <2>. HIDE DEF slots, u
  <2>. QED  BY <2>2, <2>3, <2>4
<1>19. SendInv(p)'
  <2>1. /\ Len(sent'[p]) = next'[p]
        /\ rel_send'[p].head <= next'[p]
        /\ next'[p] <= rel_send'[p].head + SendSpan
    <3>1. Len(u) = n + k /\ h <= n + k /\ n + k <= h + SendSpan
      BY <1>2, <1>3, <1>13, SMTT(30)
    <3>. HIDE DEF u, slots
    <3>. QED  BY <3>1, <1>17
  <2>2. Submitted(p)' <= MaxMsgs[p]
    <3>1. n + k + (lr - kr) + (la - ka) <= m
      BY <1>4, <1>5a, SMTT(30)
    <3>. HIDE DEF u, slots
    <3>. QED  BY <3>1, <1>5, <1>17 DEF Submitted
  <2>3. \A i \in Ids :
           /\ i < next'[p] => rel_send'[p].slot[i] \in {Erased, sent'[p][i + 1]}
           /\ i >= next'[p] => rel_send'[p].slot[i] = Undef
           /\ i < rel_send'[p].head => rel_send'[p].slot[i] = Erased
    <3>. HIDE DEF u, slots
    <3>. QED  BY <1>17, <1>18
  <2>. HIDE DEF u, slots
  <2>. QED  BY <2>1, <2>2, <2>3 DEF SendInv
<1>20. \A i \in Ids : rel_send'[p].slot[i] = Erased => w.slot[i] = Erased
  <2>1. \A i \in Ids : slots[i] = Erased => w.slot[i] = Erased
    BY <1>8, <1>9, PayloadAssumption, SMTT(30)
  <2>. HIDE DEF slots
  <2>. QED  BY <2>1, <1>17
<1>21. \A q \in Peer : q # p =>
          /\ rel_send'[q] = rel_send[q] /\ next'[q] = next[q] /\ sent'[q] = sent[q]
          /\ raw_write_queue'[q] = raw_write_queue[q]
          /\ app_write_queue'[q] = app_write_queue[q]
  <2>. HIDE DEF slots
  <2>. QED  BY <1>6 DEF TypeOK
<1>22. ASSUME NEW pkt \in net'
       PROVE  pkt \in net \/ Genuine(p, re, pkt)'
  <2>1. CASE pkt \in inflight
    BY <2>1
  <2>2. ASSUME NEW i \in 1 .. k,
               pkt = [op |-> "CONTROL", src |-> p, id |-> n + i - 1,
                      msg |-> pend[i], acks |-> AcksToSend(re)]
        PROVE  Genuine(p, re, pkt)'
    <3>1. n + i - 1 \in Ids
      BY <1>5b, SMTT(30) DEF Ids
    <3>2. pkt \in Packet
      BY <2>2, <3>1, <1>9, <1>15 DEF Packet, ControlPacket
    <3>3. pkt.id < next'[p]
      <4>. HIDE DEF u, slots
      <4>. QED  BY <2>2, <1>17
    <3>4. pkt.msg = sent'[p][pkt.id + 1]
      <4>1. pkt.msg = pend[i] /\ pkt.id + 1 = n + i
        BY <2>2
      <4>2. u[n + i] = pend[i]
        BY <1>13
      <4>. HIDE DEF u, slots
      <4>. QED  BY <4>1, <4>2, <1>17
    <3>. QED  BY <2>2, <3>2, <3>3, <3>4 DEF Genuine, AcksToSend
  <2>3. CASE pkt = [op |-> "ACK", src |-> p, acks |-> AcksToSend(re)]
    BY <2>3, <1>15 DEF Genuine, Packet, AckPacket, AcksToSend
  <2>. QED  BY <2>1, <2>2, <2>3, <1>7
<1>23. n <= next'[p] /\ \A i \in 1 .. n : sent'[p][i] = sent[p][i]
  <2>1. \A i \in 1 .. n : u[i] = sent[p][i]
    BY <1>13
  <2>. HIDE DEF u, slots
  <2>. QED  BY <2>1, <1>17, SMTT(30)
<1>. HIDE DEF u, slots
<1>. QED  BY <1>6, <1>16, <1>19, <1>20, <1>21, <1>22, <1>23 DEF FlushResult

\* Concatenation, in the terms of ExtendedBy.
LEMMA Appended ==
    ASSUME NEW S, NEW s \in Seq(S), NEW n \in Nat, n = Len(s),
           NEW t \in Seq(S), NEW k \in Nat, k = Len(t)
    PROVE  ExtendedBy(s \o t, S, s, n, t, k)
<1>1. /\ s \o t \in Seq(S)
      /\ Len(s \o t) = n + k
      /\ \A i \in 1 .. n + k : (s \o t)[i] = IF i <= n THEN s[i] ELSE t[i - n]
  BY ConcatProperties
<1>2. ASSUME NEW i \in 1 .. k
      PROVE  (s \o t)[n + i] = t[i]
  BY <1>1
<1>. QED  BY <1>1, <1>2 DEF ExtendedBy

\* A run of d objects of a window, as a sequence.
LEMMA RunOfSlots ==
    ASSUME NEW f \in [Ids -> Slots], NEW a \in Nat, NEW d \in Nat, a + d \in Ids,
           \A i \in Ids : i >= a /\ i < a + d => f[i] \in Payload
    PROVE  /\ [i \in 1 .. d |-> f[a + i - 1]] \in Seq(Payload)
           /\ Len([i \in 1 .. d |-> f[a + i - 1]]) = d
<1>. MaxId \in Nat
  BY MaxIdAssumption
<1>1. ASSUME NEW i \in 1 .. d
      PROVE  f[a + i - 1] \in Payload
  <2>1. a + i - 1 \in Ids /\ a + i - 1 >= a /\ a + i - 1 < a + d
    BY DEF Ids
  <2>. QED  BY <2>1
<1>. QED  BY <1>1

(***************************************************************************)
(* The window that up_sequenced starts from: p's receive window, possibly  *)
(* with one more packet stored.                                            *)
(***************************************************************************)
RecvWindow(p, w) ==
    /\ Len(rcvd[p]) = w.head
    /\ \A i \in Ids :
          /\ w.slot[i] \in Payload \cup {Undef}
          /\ i < w.head => w.slot[i] \in Payload /\ rcvd[p][i + 1] = w.slot[i]

\* What up_sequenced leaves behind.
PassedUp(p, w, started, h) ==
    /\ rel_recv' = [rel_recv EXCEPT ![p] = Window(h, w.slot)]
    /\ rcvd' \in [Peer -> Seq(Payload)]
    /\ \A q \in Peer : q # p => rcvd'[q] = rcvd[q]
    /\ Len(rcvd'[p]) = h
    /\ w.head <= h
    /\ \A i \in Ids : i < h => w.slot[i] \in Payload /\ rcvd'[p][i + 1] = w.slot[i]
    /\ \A i \in 1 .. w.head : rcvd'[p][i] = rcvd[p][i]
    /\ started => w.slot[h] \notin Payload

\* up_sequenced passes up a run of packets from the head of the window on.
LEMMA UpSequencedStep ==
    ASSUME TypeOK, NEW p \in Peer, NEW w \in Windows, NEW a \in Nat, a = w.head, RecvWindow(p, w),
           NEW started \in BOOLEAN, UpSequenced(p, w, started)
    PROVE  \E h \in Ids : PassedUp(p, w, started, h)
<1>. MaxId \in Nat
  BY MaxIdAssumption
<1>1. PICK h \in Ids :
         /\ PassesUpTo(w, started, h)
         /\ rel_recv' = [rel_recv EXCEPT ![p] = Window(h, w.slot)]
         /\ rcvd' = [rcvd EXCEPT ![p] =
                        rcvd[p] \o [i \in 1 .. (h - w.head) |-> w.slot[w.head + i - 1]]]
  BY DEF UpSequenced
<1>. h \in Nat
  BY DEF Ids
<1>2. a <= h
  BY <1>1 DEF PassesUpTo
<1>3. \A i \in Ids : i >= a /\ i < h => w.slot[i] \in Payload
  BY <1>1 DEF PassesUpTo, Defined
<1>4. started => w.slot[h] \notin Payload
  BY <1>1 DEF PassesUpTo, Defined
<1>5. PICK d \in Nat : d = h - a
  BY <1>2
<1>6. w.slot \in [Ids -> Slots]
  BY DEF Windows
<1>. DEFINE t == [i \in 1 .. d |-> w.slot[a + i - 1]]
<1>7. t \in Seq(Payload) /\ Len(t) = d
  <2>1. a + d = h
    BY <1>5
  <2>2. a + d \in Ids
    BY <2>1
  <2>3. \A i \in Ids : i >= a /\ i < a + d => w.slot[i] \in Payload
    BY <2>1, <1>3
  <2>. QED  BY <2>2, <2>3, <1>6, RunOfSlots, Zenon
<1>8. \A i \in 1 .. d : t[i] = w.slot[a + i - 1]
  OBVIOUS
<1>9. rcvd' = [rcvd EXCEPT ![p] = rcvd[p] \o t]
  BY <1>1, <1>5
<1>. HIDE DEF t
<1>10. rcvd[p] \in Seq(Payload) /\ a = Len(rcvd[p])
  BY DEF TypeOK, RecvWindow
<1>11. ExtendedBy(rcvd[p] \o t, Payload, rcvd[p], a, t, d)
  BY <1>7, <1>10, Appended, Zenon
<1>12. rcvd'[p] = rcvd[p] \o t /\ \A q \in Peer : q # p => rcvd'[q] = rcvd[q]
  BY <1>9 DEF TypeOK
<1>13. rcvd' \in [Peer -> Seq(Payload)]
  BY <1>9, <1>11 DEF TypeOK, ExtendedBy
<1>14. Len(rcvd'[p]) = h /\ \A i \in 1 .. a : rcvd'[p][i] = rcvd[p][i]
  <2>1. a + d = h
    BY <1>5
  <2>2. Len(rcvd[p] \o t) = a + d
    BY <1>11 DEF ExtendedBy
  <2>3. \A i \in 1 .. a : (rcvd[p] \o t)[i] = rcvd[p][i]
    BY <1>11 DEF ExtendedBy
  <2>. QED  BY <2>1, <2>2, <2>3, <1>12
<1>15. ASSUME NEW i \in Ids, i < h
       PROVE  w.slot[i] \in Payload /\ rcvd'[p][i + 1] = w.slot[i]
  <2>. i \in Nat
    BY DEF Ids
  <2>1. CASE i < a
    <3>1. i + 1 \in 1 .. a
      BY <2>1
    <3>. QED  BY <2>1, <3>1, <1>14 DEF RecvWindow
  <2>2. CASE i >= a
    <3>1. PICK j \in 1 .. d : j = i - a + 1
      BY <2>2, <1>15, <1>5
    <3>2. i + 1 = a + j /\ a + j - 1 = i
      BY <3>1
    <3>3. (rcvd[p] \o t)[a + j] = t[j]
      BY <1>11 DEF ExtendedBy
    <3>4. t[j] = w.slot[i]
      BY <3>2, <1>8
    <3>5. w.slot[i] \in Payload
      BY <2>2, <1>15, <1>3
    <3>. QED  BY <3>2, <3>3, <3>4, <3>5, <1>12
  <2>. QED  BY <2>1, <2>2
<1>16. PassedUp(p, w, started, h)
  BY <1>1, <1>2, <1>4, <1>12, <1>13, <1>14, <1>15 DEF PassedUp
<1>. QED  BY <1>16

-----------------------------------------------------------------------------
(* What every handler does: it may store and pass up, and it flushes. *)

\* The receive side of p after a handler; every id of re has arrived.
RecvResult(p, re) ==
    /\ rel_recv' \in [Peer -> Windows]
    /\ rcvd' \in [Peer -> Seq(Payload)]
    /\ ssl_started' \in [Peer -> BOOLEAN]
    /\ \A q \in Peer : q # p =>
          rel_recv'[q] = rel_recv[q] /\ rcvd'[q] = rcvd[q] /\ ssl_started'[q] = ssl_started[q]
    /\ RecvInv(p)'
    /\ rel_recv[p].head <= rel_recv'[p].head
    /\ \A i \in Ids : rel_recv[p].slot[i] # Undef => rel_recv'[p].slot[i] # Undef
    /\ re \in Seq(Ids)
    /\ \A j \in 1 .. Len(re) : rel_recv'[p].slot[re[j]] # Undef

\* The ids that window w of p has erased have arrived at the peer.
ErasedArrived(p, w) ==
    \A i \in Ids : w.slot[i] = Erased => rel_recv[Other(p)].slot[i] # Undef

\* A handler preserves the invariant and is a step of the abstract channel.
LEMMA HandlerStep ==
    ASSUME IInv, NEW p \in Peer, NEW n \in Nat, n = next[p], NEW w, NEW re,
           FlushResult(p, n, w, re), RecvResult(p, re), ErasedArrived(p, w),
           invalidated' \in [Peer -> BOOLEAN]
    PROVE  IInv' /\ Channel!Step(p)
<1>. DEFINE q == Other(p)
<1>1. q \in Peer /\ q # p /\ Other(q) = p /\ \A r \in Peer : r = p \/ r = q
  BY OtherEnd
<1>2. TypeOK /\ SendInv(q) /\ RecvInv(q) /\ AckInv(q) /\ \A pkt \in net : NetInv(pkt)
  BY <1>1 DEF IInv
<1>. HIDE DEF q
<1>3. TypeOK'
  <2>1. re_acks' \in [Peer -> Seq(Ids)]
    BY <1>2 DEF TypeOK, FlushResult, RecvResult
  <2>2. net' \subseteq Packet
    BY <1>2 DEF TypeOK, FlushResult, Genuine
  <2>. QED  BY <2>1, <2>2 DEF TypeOK, FlushResult, RecvResult
<1>4. SendInv(p)' /\ RecvInv(p)'
  BY DEF FlushResult, RecvResult
<1>5. /\ rel_send'[q] = rel_send[q] /\ next'[q] = next[q] /\ sent'[q] = sent[q]
      /\ raw_write_queue'[q] = raw_write_queue[q]
      /\ app_write_queue'[q] = app_write_queue[q]
      /\ rel_recv'[q] = rel_recv[q] /\ rcvd'[q] = rcvd[q]
      /\ ssl_started'[q] = ssl_started[q]
      /\ re_acks'[q] = re_acks[q]
      /\ re_acks'[p] = re
  BY <1>1, <1>2 DEF FlushResult, RecvResult, TypeOK
<1>6. SendInv(q)'
  BY <1>2, <1>5 DEF SendInv, Submitted
<1>7. PICK n2 \in Nat : n2 = next'[p] /\ n <= n2
  BY <1>3 DEF TypeOK, Ids, FlushResult
<1>8. \A i \in 1 .. n : sent'[p][i] = sent[p][i]
  BY DEF FlushResult
<1>9. RecvInv(q)'
  <2>1. /\ Len(rcvd'[q]) = rel_recv'[q].head
        /\ ssl_started'[q] => rel_recv'[q].slot[rel_recv'[q].head] = Undef
    BY <1>2, <1>5 DEF RecvInv
  <2>2. rel_recv'[q].head <= next'[p]
    <3>1. PICK a \in Nat : a = rel_recv[q].head
      BY <1>1, <1>2 DEF TypeOK, Windows, Ids
    <3>2. a <= n
      BY <1>1, <1>2, <3>1 DEF RecvInv
    <3>. QED  BY <3>1, <3>2, <1>5, <1>7
  <2>3. ASSUME NEW i \in Ids, rel_recv[q].slot[i] # Undef
        PROVE  i < next'[p] /\ rel_recv[q].slot[i] = sent'[p][i + 1]
    <3>. i \in Nat
      BY MaxIdAssumption DEF Ids
    <3>1. i < n /\ rel_recv[q].slot[i] = sent[p][i + 1]
      BY <1>1, <1>2, <2>3 DEF RecvInv
    <3>2. i + 1 \in 1 .. n
      BY <3>1
    <3>. QED  BY <3>1, <3>2, <1>7, <1>8
  <2>4. \A i \in Ids : i < rel_recv[q].head =>
           rel_recv[q].slot[i] # Undef /\ rcvd[q][i + 1] = rel_recv[q].slot[i]
    BY <1>2 DEF RecvInv
  <2>. QED  BY <2>1, <2>2, <2>3, <2>4, <1>1, <1>5 DEF RecvInv
<1>10. AckInv(p)'
  <2>1. \A j \in 1 .. Len(re) : rel_recv'[p].slot[re[j]] # Undef
    BY DEF RecvResult
  <2>2. \A i \in Ids : rel_send'[p].slot[i] = Erased => rel_recv'[q].slot[i] # Undef
    BY <1>5 DEF FlushResult, ErasedArrived, q
  <2>. QED  BY <2>1, <2>2, <1>5 DEF AckInv, q
<1>11. AckInv(q)'
  <2>1. \A j \in 1 .. Len(re_acks[q]) : rel_recv[q].slot[re_acks[q][j]] # Undef
    BY <1>2 DEF AckInv
  <2>2. \A i \in Ids : rel_send[q].slot[i] = Erased => rel_recv'[p].slot[i] # Undef
    BY <1>1, <1>2 DEF AckInv, RecvResult
  <2>. QED  BY <2>1, <2>2, <1>1, <1>5 DEF AckInv
<1>12. ASSUME NEW pkt \in net'
       PROVE  NetInv(pkt)'
  <2>1. CASE Genuine(p, re, pkt)'
    <3>1. \A a \in pkt.acks : rel_recv'[p].slot[a] # Undef
      BY <2>1 DEF Genuine, AcksToSend, RecvResult
    <3>. QED  BY <2>1, <3>1 DEF Genuine, NetInv
  <2>2. CASE pkt \in net
    <3>1. pkt \in Packet /\ NetInv(pkt)
      BY <2>2, <1>2 DEF TypeOK
    <3>2. pkt.src \in Peer /\ pkt.acks \subseteq Ids /\ (pkt.op = "CONTROL" => pkt.id \in Ids)
      BY <3>1 DEF Packet, ControlPacket, AckPacket
    <3>3. CASE pkt.src = q
      BY <3>1, <3>3, <1>5 DEF NetInv
    <3>4. CASE pkt.src = p
      <4>1. \A a \in pkt.acks : rel_recv'[p].slot[a] # Undef
        BY <3>1, <3>2, <3>4 DEF NetInv, RecvResult
      <4>2. ASSUME pkt.op = "CONTROL"
            PROVE  pkt.id < next'[p] /\ pkt.msg = sent'[p][pkt.id + 1]
        <5>1. PICK i \in Nat : i = pkt.id
          BY <3>2, <4>2, MaxIdAssumption DEF Ids
        <5>2. i < n /\ pkt.msg = sent[p][i + 1]
          BY <3>1, <3>4, <4>2, <5>1 DEF NetInv
        <5>3. i + 1 \in 1 .. n
          BY <5>2
        <5>. QED  BY <5>1, <5>2, <5>3, <1>7, <1>8
      <4>. QED  BY <4>1, <4>2, <3>4 DEF NetInv
    <3>. QED  BY <3>2, <3>3, <3>4, <1>1
  <2>. QED  BY <2>1, <2>2 DEF FlushResult
<1>13. Channel!PrefixOf(sent[p], sent'[p])
  <2>1. Len(sent[p]) = n /\ Len(sent'[p]) = n2
    BY <1>4, <1>7 DEF SendInv, IInv
  <2>. QED  BY <2>1, <1>7, <1>8 DEF Channel!PrefixOf
<1>14. PICK a \in Nat, b \in Nat :
          a = rel_recv[p].head /\ b = rel_recv'[p].head /\ b <= MaxId
  <2>1. /\ rel_recv[p].head \in Nat
        /\ rel_recv'[p].head \in Nat
        /\ rel_recv'[p].head <= MaxId
    BY <1>2, <1>3, MaxIdAssumption, SMTT(30) DEF TypeOK, Windows, Ids
  <2>. QED  BY <2>1
<1>15. a <= b
  BY <1>14 DEF RecvResult
<1>16. /\ Len(rcvd[p]) = a
       /\ \A i \in Ids : i < a => rcvd[p][i + 1] = sent[q][i + 1]
  BY <1>14 DEF IInv, RecvInv, q
<1>17. /\ Len(rcvd'[p]) = b
       /\ \A i \in Ids : i < b => rcvd'[p][i + 1] = sent[q][i + 1]
  BY <1>4, <1>5, <1>14 DEF RecvInv, q
<1>18. ASSUME NEW i \in 1 .. b
       PROVE  /\ i <= a => rcvd[p][i] = sent[q][i]
              /\ rcvd'[p][i] = sent[q][i]
  <2>1. PICK j \in Nat : j + 1 = i /\ j \in Ids /\ j < b
    <3>1. i - 1 \in Nat /\ (i - 1) + 1 = i /\ i - 1 \in Ids /\ i - 1 < b
      BY <1>14, MaxIdAssumption DEF Ids
    <3>. QED  BY <3>1
  <2>2. i <= a => j < a
    BY <2>1
  <2>. QED  BY <2>1, <2>2, <1>16, <1>17
<1>19. Channel!PrefixOf(rcvd[p], rcvd'[p])
  BY <1>15, <1>16, <1>17, <1>18 DEF Channel!PrefixOf
<1>20. Channel!PrefixOf(rcvd'[p], sent[q])
  <2>1. PICK m \in Nat : m = next[q]
    BY <1>1, <1>2 DEF TypeOK, Ids
  <2>2. b <= m
    BY <2>1, <1>4, <1>5, <1>14 DEF RecvInv, q
  <2>3. Len(sent[q]) = m
    BY <2>1, <1>2 DEF SendInv
  <2>. QED  BY <2>2, <2>3, <1>17, <1>18 DEF Channel!PrefixOf
<1>21. Channel!Step(p)
  BY <1>1, <1>3, <1>5, <1>13, <1>19, <1>20 DEF Channel!Step, TypeOK
<1>. QED  BY <1>1, <1>3, <1>4, <1>6, <1>9, <1>10, <1>11, <1>12, <1>21 DEF IInv

\* Every id of a list has arrived in window r.
ListArrived(re, r) == \A j \in 1 .. Len(re) : r.slot[re[j]] # Undef

\* A handler of p that leaves the receive side alone.
LEMMA RecvUnchanged ==
    ASSUME IInv, NEW p \in Peer, NEW n, NEW w, NEW re, FlushResult(p, n, w, re),
           rel_recv' = rel_recv, rcvd' = rcvd, ssl_started' = ssl_started,
           re \in Seq(Ids), ListArrived(re, rel_recv[p])
    PROVE  RecvResult(p, re)
<1>. DEFINE q == Other(p)
<1>1. q \in Peer /\ q # p
  BY OtherEnd
<1>2. TypeOK /\ RecvInv(p)
  BY DEF IInv
<1>3. next'[q] = next[q] /\ sent'[q] = sent[q]
  BY <1>1 DEF FlushResult
<1>4. RecvInv(p)'
  BY <1>2, <1>3 DEF RecvInv
<1>5. PICK a \in Nat : a = rel_recv[p].head
  BY <1>2 DEF TypeOK, Windows, Ids
<1>6. rel_recv[p].head <= rel_recv'[p].head
  BY <1>5
<1>. QED  BY <1>2, <1>4, <1>6 DEF RecvResult, TypeOK, ListArrived

\* r is p's receive window, possibly with one more message of the peer in it.
Grown(p, r) ==
    /\ r \in Windows
    /\ r.head = rel_recv[p].head
    /\ \A i \in Ids :
          /\ r.slot[i] # Undef => i < next[Other(p)] /\ r.slot[i] = sent[Other(p)][i + 1]
          /\ rel_recv[p].slot[i] # Undef => r.slot[i] = rel_recv[p].slot[i]

\* A handler of p that passes up what is in order in r.
LEMMA RecvPassedUp ==
    ASSUME IInv, NEW p \in Peer, NEW n, NEW w, NEW re, FlushResult(p, n, w, re),
           NEW r \in Windows, Grown(p, r),
           NEW started \in BOOLEAN, ssl_started' = [ssl_started EXCEPT ![p] = started],
           UpSequenced(p, r, started),
           re \in Seq(Ids), ListArrived(re, r)
    PROVE  RecvResult(p, re)
<1>. DEFINE q == Other(p)
<1>. MaxId \in Nat
  BY MaxIdAssumption
<1>1. q \in Peer /\ q # p
  BY OtherEnd
<1>2. TypeOK /\ RecvInv(p) /\ SendInv(q)
  BY <1>1 DEF IInv
<1>3. next'[q] = next[q] /\ sent'[q] = sent[q]
  BY <1>1 DEF FlushResult
<1>. HIDE DEF q
<1>4. PICK nq \in Nat : nq = next[q] /\ nq <= MaxId
  BY <1>1, <1>2 DEF TypeOK, Ids
<1>5. PICK a \in Nat : a = r.head
  BY DEF Windows, Ids
<1>6. nq = Len(sent[q]) /\ sent[q] \in Seq(Payload)
  BY <1>1, <1>2, <1>4 DEF SendInv, TypeOK
<1>7. ASSUME NEW i \in Ids, r.slot[i] # Undef
      PROVE  i < nq /\ r.slot[i] = sent[q][i + 1] /\ r.slot[i] \in Payload
  <2>. i \in Nat
    BY DEF Ids
  <2>1. i < nq /\ r.slot[i] = sent[q][i + 1]
    BY <1>4, <1>7 DEF Grown, q
  <2>2. i + 1 \in 1 .. Len(sent[q])
    BY <2>1, <1>6
  <2>. QED  BY <2>1, <2>2, <1>6, ElementOfSeq
<1>8. RecvWindow(p, r)
  <2>1. Len(rcvd[p]) = r.head
    BY <1>2 DEF RecvInv, Grown
  <2>2. \A i \in Ids : i < r.head => r.slot[i] # Undef /\ rcvd[p][i + 1] = r.slot[i]
    BY <1>2 DEF RecvInv, Grown
  <2>. QED  BY <2>1, <2>2, <1>7 DEF RecvWindow
<1>9. PICK h \in Ids : PassedUp(p, r, started, h)
  <2>1. \E h \in Ids : PassedUp(p, r, started, h)
    BY <1>2, <1>5, <1>8, UpSequencedStep, Zenon
  <2>. QED  BY <2>1
<1>. h \in Nat
  BY DEF Ids
<1>10. Window(h, r.slot) \in Windows
  BY DEF Windows, Window
<1>11. rel_recv' = [rel_recv EXCEPT ![p] = Window(h, r.slot)]
  BY <1>9 DEF PassedUp
<1>12. /\ rel_recv' \in [Peer -> Windows]
       /\ rel_recv'[p] = Window(h, r.slot)
       /\ \A x \in Peer : x # p => rel_recv'[x] = rel_recv[x]
  BY <1>2, <1>10, <1>11 DEF TypeOK
<1>13. rel_recv'[p].head = h /\ rel_recv'[p].slot = r.slot
  BY <1>12 DEF Window
<1>14. /\ ssl_started' \in [Peer -> BOOLEAN]
       /\ ssl_started'[p] = started
       /\ \A x \in Peer : x # p => ssl_started'[x] = ssl_started[x]
  BY <1>2 DEF TypeOK
<1>15. h <= nq
  <2>1. SUFFICES ASSUME ~(h <= nq) PROVE FALSE
    OBVIOUS
  <2>2. nq \in Ids /\ nq < h
    BY <2>1, <1>4 DEF Ids
  <2>3. r.slot[nq] \in Payload
    BY <2>2, <1>9 DEF PassedUp
  <2>4. r.slot[nq] # Undef
    BY <2>3, PayloadAssumption
  <2>. QED  BY <2>2, <2>4, <1>7
<1>16. RecvInv(p)'
  <2>1. Len(rcvd'[p]) = h
    BY <1>9 DEF PassedUp
  <2>2. \A i \in Ids : i < h => r.slot[i] # Undef /\ rcvd'[p][i + 1] = r.slot[i]
    BY <1>9, PayloadAssumption DEF PassedUp
  <2>3. started => r.slot[h] = Undef
    BY <1>7, <1>9 DEF PassedUp
  <2>4. \A i \in Ids : r.slot[i] # Undef => i < nq /\ r.slot[i] = sent[q][i + 1]
    BY <1>7
  <2>. QED  BY <2>1, <2>2, <2>3, <2>4, <1>3, <1>4, <1>13, <1>14, <1>15 DEF RecvInv, q
<1>17. rcvd' \in [Peer -> Seq(Payload)] /\ \A x \in Peer : x # p => rcvd'[x] = rcvd[x]
  BY <1>9 DEF PassedUp
<1>18. \A i \in Ids : rel_recv[p].slot[i] # Undef => rel_recv'[p].slot[i] # Undef
  BY <1>13 DEF Grown
<1>19. \A j \in 1 .. Len(re) : rel_recv'[p].slot[re[j]] # Undef
  BY <1>13 DEF ListArrived
<1>20. rel_recv[p].head <= rel_recv'[p].head
  BY <1>9, <1>13 DEF Grown, PassedUp
<1>. QED  BY <1>12, <1>14, <1>16, <1>17, <1>18, <1>19, <1>20 DEF RecvResult

-----------------------------------------------------------------------------
(* The windows and lists that the handlers start from. *)

\* p's send window as it stands, and its queues.
LEMMA OwnWindow ==
    ASSUME IInv, NEW p \in Peer
    PROVE  /\ SendWindow(p, rel_send[p]) /\ rel_send[p] \in Windows
           /\ ErasedArrived(p, rel_send[p])
           /\ WithinBound(p, raw_write_queue[p], app_write_queue[p])
           /\ raw_write_queue[p] \in Seq(Payload) /\ app_write_queue[p] \in Seq(Payload)
           /\ re_acks[p] \in Seq(Ids) /\ ListArrived(re_acks[p], rel_recv[p])
<1>1. TypeOK /\ SendInv(p) /\ AckInv(p)
  BY DEF IInv
<1>2. SendWindow(p, rel_send[p])
  BY <1>1 DEF SendInv, SendWindow
<1>3. ErasedArrived(p, rel_send[p]) /\ ListArrived(re_acks[p], rel_recv[p])
  BY <1>1 DEF AckInv, ErasedArrived, ListArrived
<1>4. WithinBound(p, raw_write_queue[p], app_write_queue[p])
  BY <1>1 DEF SendInv, Submitted, WithinBound
<1>. QED  BY <1>1, <1>2, <1>3, <1>4 DEF TypeOK

\* p's send window after the ACKs of a packet in flight.
LEMMA AckedWindow ==
    ASSUME IInv, NEW p \in Peer, NEW pkt \in net, pkt.src = Other(p), NEW h \in Ids, NEW w,
           w = Window(h, EraseIds(rel_send[p], SendSpan, pkt.acks).slot),
           Acked(p, pkt.acks, w)
    PROVE  w \in Windows /\ w.head = h /\ SendWindow(p, w) /\ ErasedArrived(p, w)
<1>. DEFINE q == Other(p)
            o == rel_send[p]
<1>. MaxId \in Nat
  BY MaxIdAssumption
<1>. SendSpan \in Nat
  BY SpanAssumption
<1>. h \in Nat
  BY DEF Ids
<1>1. q \in Peer /\ q # p /\ Other(q) = p
  BY OtherEnd
<1>2. TypeOK /\ SendInv(p) /\ AckInv(p) /\ RecvInv(q) /\ NetInv(pkt)
  BY <1>1 DEF IInv
<1>3. pkt.acks \subseteq Ids /\ \A a \in pkt.acks : rel_recv[q].slot[a] # Undef
  BY <1>2 DEF NetInv, TypeOK, Packet, ControlPacket, AckPacket
<1>. HIDE DEF q, o
<1>4. w.head = h /\ w.slot = [i \in Ids |-> IF i \in pkt.acks /\ InWindow(o, SendSpan, i)
                                              THEN Erased ELSE o.slot[i]]
  BY DEF EraseIds, Window, o
<1>5. o \in Windows
  BY <1>2 DEF TypeOK, o
<1>6. w \in Windows
  <2>1. w.slot \in [Ids -> Slots]
    BY <1>4, <1>5 DEF Windows, Slots
  <2>2. w = [head |-> w.head, slot |-> w.slot]
    BY DEF Window
  <2>. QED  BY <2>1, <2>2, <1>4 DEF Windows
<1>7. PICK n \in Nat : n = next[p] /\ n \in Ids
  BY <1>2 DEF TypeOK, Ids
<1>8. PICK a \in Nat : a = o.head
  BY <1>5 DEF Windows, Ids
<1>9. a <= n /\ n <= a + SendSpan
  BY <1>2, <1>7, <1>8 DEF SendInv, o
<1>10. \A i \in pkt.acks : i < n
  BY <1>1, <1>2, <1>3, <1>7 DEF RecvInv
<1>11. \A i \in Ids :
          /\ i < n => w.slot[i] \in {Erased, sent[p][i + 1]}
          /\ i >= n => w.slot[i] = Undef
  <2>1. \A i \in Ids :
           /\ i < n => o.slot[i] \in {Erased, sent[p][i + 1]}
           /\ i >= n => o.slot[i] = Undef
    BY <1>2, <1>7 DEF SendInv, o
  <2>. SUFFICES ASSUME NEW i \in Ids
                PROVE  /\ i < n => w.slot[i] \in {Erased, sent[p][i + 1]}
                       /\ i >= n => w.slot[i] = Undef
    OBVIOUS
  <2>. i \in Nat
    BY DEF Ids
  <2>2. CASE i \in pkt.acks /\ InWindow(o, SendSpan, i)
    <3>1. i < n
      BY <2>2, <1>10
    <3>. QED  BY <2>2, <3>1, <1>4
  <2>3. CASE ~(i \in pkt.acks /\ InWindow(o, SendSpan, i))
    BY <2>1, <2>3, <1>4
  <2>. QED  BY <2>2, <2>3
<1>12. \A i \in Ids : w.slot[i] = Erased => o.slot[i] = Erased \/ i \in pkt.acks
  BY <1>4
<1>13. ErasedArrived(p, w)
  BY <1>2, <1>3, <1>12 DEF ErasedArrived, AckInv, o, q
<1>14. a <= h /\ \A i \in Ids : i >= a /\ i < h => w.slot[i] = Erased
  <2>1. PurgesTo(EraseIds(o, SendSpan, pkt.acks), h)
    BY <1>4 DEF Acked, o
  <2>2. /\ EraseIds(o, SendSpan, pkt.acks).head = a
        /\ EraseIds(o, SendSpan, pkt.acks).slot = w.slot
    BY <1>4, <1>8 DEF EraseIds, Window
  <2>. QED  BY <2>1, <2>2 DEF PurgesTo
<1>15. h <= n
  <2>1. SUFFICES ASSUME ~(h <= n) PROVE FALSE
    OBVIOUS
  <2>2. w.slot[n] = Erased
    BY <2>1, <1>7, <1>9, <1>14
  <2>3. w.slot[n] = Undef
    BY <1>7, <1>11
  <2>. QED  BY <2>2, <2>3 DEF Undef, Erased
<1>16. n <= h + SendSpan
  BY <1>9, <1>14
<1>17. \A i \in Ids : i < h => w.slot[i] = Erased
  <2>. SUFFICES ASSUME NEW i \in Ids, i < h
                PROVE  w.slot[i] = Erased
    OBVIOUS
  <2>. i \in Nat
    BY DEF Ids
  <2>1. CASE i < a
    <3>1. o.slot[i] = Erased
      BY <2>1, <1>2, <1>8 DEF SendInv, o
    <3>. QED  BY <3>1, <1>4
  <2>2. CASE i >= a
    BY <2>2, <1>14
  <2>. QED  BY <2>1, <2>2
<1>18. Len(sent[p]) = n
  BY <1>2, <1>7 DEF SendInv
<1>19. SendWindow(p, w)
  BY <1>4, <1>7, <1>11, <1>15, <1>16, <1>17, <1>18 DEF SendWindow
<1>. QED  BY <1>4, <1>6, <1>13, <1>19

\* Taking elements out of a list adds none.
ListOf(t, S, s) ==
    t \in Seq(S) /\ \A j \in 1 .. Len(t) : \E i \in 1 .. Len(s) : t[j] = s[i]

\* A list without its k-th element has no new element.
LEMMA WithoutList ==
    ASSUME NEW S, NEW s \in Seq(S), NEW l \in Nat, l = Len(s), NEW k \in 1 .. l
    PROVE  ListOf(Without(s, k), S, s)
<1>. DEFINE a == SubSeq(s, 1, k - 1)
            b == SubSeq(s, k + 1, l)
<1>. k \in Nat
  OBVIOUS
<1>1. /\ a \in Seq(S) /\ Len(a) = k - 1
      /\ \A j \in 1 .. k - 1 : a[j] = s[j]
  BY SubSeqProperties
<1>2. /\ b \in Seq(S) /\ Len(b) = l - k
      /\ \A j \in 1 .. l - k : b[j] = s[k + j]
  BY SubSeqProperties
<1>3. Without(s, k) = a \o b
  BY DEF Without
<1>. HIDE DEF a, b
<1>4. PICK x \in Nat, y \in Nat : x = k - 1 /\ y = l - k
  <2>1. k - 1 \in Nat /\ l - k \in Nat
    OBVIOUS
  <2>. QED  BY <2>1
<1>5. ExtendedBy(a \o b, S, a, x, b, y)
  <2>1. a \in Seq(S) /\ x = Len(a) /\ b \in Seq(S) /\ y = Len(b)
    BY <1>1, <1>2, <1>4
  <2>. QED  BY <2>1, Appended, Zenon
<1>6. ASSUME NEW j \in 1 .. x + y
      PROVE  \E i \in 1 .. l : (a \o b)[j] = s[i]
  <2>1. CASE j <= x
    <3>1. j \in 1 .. x /\ j \in 1 .. l /\ j \in 1 .. k - 1
      BY <2>1, <1>4
    <3>2. (a \o b)[j] = a[j]
      BY <3>1, <1>5 DEF ExtendedBy
    <3>. QED  BY <3>1, <3>2, <1>1
  <2>2. CASE ~(j <= x)
    <3>1. PICK m \in 1 .. y : m = j - x
      BY <2>2
    <3>2. b[m] = s[k + m] /\ k + m \in 1 .. l
      BY <1>2, <1>4
    <3>3. (a \o b)[x + m] = b[m]
      BY <1>5 DEF ExtendedBy
    <3>4. x + m = j
      BY <3>1
    <3>. QED  BY <3>2, <3>3, <3>4
  <2>. QED  BY <2>1, <2>2
<1>7. a \o b \in Seq(S) /\ Len(a \o b) = x + y
  BY <1>5 DEF ExtendedBy
<1>. QED  BY <1>3, <1>6, <1>7 DEF ListOf

\* Every element of t is id or one of the l elements of s.
ListOrId(t, S, s, l, id) ==
    /\ t \in Seq(S)
    /\ \A j \in 1 .. Len(t) : t[j] = id \/ \E i \in 1 .. l : t[j] = s[i]

\* push_front on a re-ACK list, cut at the cap, adds no element but the id.
LEMMA PushList ==
    ASSUME NEW S, NEW s \in Seq(S), NEW l \in Nat, l = Len(s), NEW id \in S
    PROVE  ListOrId(PushReack(s, id), S, s, l, id)
<1>. ReackCap \in Nat
  BY SpanAssumption
<1>. DEFINE t == <<id>> \o s
            k == IF l + 1 > ReackCap THEN ReackCap ELSE l + 1
<1>1. <<id>> \in Seq(S) /\ Len(<<id>>) = 1 /\ <<id>>[1] = id
  OBVIOUS
<1>2. /\ t \in Seq(S)
      /\ Len(t) = 1 + l
      /\ \A i \in 1 .. 1 + l : t[i] = IF i <= 1 THEN <<id>>[i] ELSE s[i - 1]
  BY <1>1, ConcatProperties
<1>3. k \in Nat /\ k <= l + 1
  OBVIOUS
<1>4. PushReack(s, id) = SubSeq(t, 1, k)
  BY DEF PushReack
<1>5. ASSUME NEW i \in 1 .. 1 + l
      PROVE  t[i] = id \/ \E m \in 1 .. l : t[i] = s[m]
  <2>1. CASE i = 1
    BY <2>1, <1>1, <1>2
  <2>2. CASE i > 1
    <3>1. i - 1 \in 1 .. l /\ ~(i <= 1)
      BY <2>2
    <3>2. t[i] = s[i - 1]
      BY <3>1, <1>2
    <3>. QED  BY <3>1, <3>2
  <2>. QED  BY <2>1, <2>2
<1>. HIDE DEF t, k
<1>6. /\ SubSeq(t, 1, k) \in Seq(S)
      /\ Len(SubSeq(t, 1, k)) = k
      /\ \A j \in 1 .. k : SubSeq(t, 1, k)[j] = t[j]
  BY <1>2, <1>3, SubSeqProperties
<1>7. ASSUME NEW j \in 1 .. k
      PROVE  SubSeq(t, 1, k)[j] = id \/ \E m \in 1 .. l : SubSeq(t, 1, k)[j] = s[m]
  <2>1. j \in 1 .. 1 + l
    BY <1>3
  <2>. QED  BY <2>1, <1>5, <1>6
<1>. QED  BY <1>4, <1>6, <1>7 DEF ListOrId

\* The re-ACK list after an id was moved to its front has no other new id.
LEMMA ReackList ==
    ASSUME NEW s \in Seq(Ids), NEW id \in Ids, NEW r, ListArrived(s, r), r.slot[id] # Undef
    PROVE  AddAckToReack(s, id) \in Seq(Ids) /\ ListArrived(AddAckToReack(s, id), r)
<1>. DEFINE e == EraseAck(s, id)
<1>1. PICK l \in Nat : l = Len(s)
  OBVIOUS
<1>2. ListOf(e, Ids, s)
  <2>1. CASE \E i \in 1 .. Len(s) : s[i] = id
    <3>. DEFINE k == CHOOSE i \in 1 .. Len(s) : s[i] = id
    <3>1. k \in 1 .. l
      BY <2>1, <1>1
    <3>2. e = Without(s, k)
      BY <2>1 DEF EraseAck
    <3>. HIDE DEF k
    <3>. QED  BY <3>1, <3>2, <1>1, WithoutList
  <2>2. CASE ~ \E i \in 1 .. Len(s) : s[i] = id
    BY <2>2 DEF EraseAck, ListOf
  <2>. QED  BY <2>1, <2>2
<1>. HIDE DEF e
<1>3. e \in Seq(Ids) /\ ListArrived(e, r)
  BY <1>2 DEF ListOf, ListArrived
<1>4. PICK m \in Nat : m = Len(e)
  BY <1>3
<1>5. ListOrId(PushReack(e, id), Ids, e, m, id)
  BY <1>3, <1>4, PushList, Zenon
<1>6. ListArrived(PushReack(e, id), r)
  BY <1>3, <1>4, <1>5 DEF ListArrived, ListOrId
<1>. QED  BY <1>5, <1>6 DEF AddAckToReack, ListOrId, e

-----------------------------------------------------------------------------
(* Each action preserves the invariant. *)

\* The invariant holds of two fresh ends and an empty network.
LEMMA InitInv == Init => IInv
<1>. SUFFICES ASSUME Init PROVE IInv
  OBVIOUS
<1>. MaxId \in Nat
  BY MaxIdAssumption
<1>1. 0 \in Ids
  BY DEF Ids
<1>2. EmptyWindow \in Windows /\ EmptyWindow.head = 0 /\ \A i \in Ids : EmptyWindow.slot[i] = Undef
  BY <1>1 DEF EmptyWindow, Window, Windows, Slots
<1>3. \A S : <<>> \in Seq(S) /\ Len(<<>>) = 0
  OBVIOUS
<1>. HIDE DEF EmptyWindow
<1>4. TypeOK
  BY <1>1, <1>2, <1>3 DEF Init, TypeOK
<1>5. ASSUME NEW p \in Peer
      PROVE  SendInv(p) /\ RecvInv(p) /\ AckInv(p)
  <2>. DEFINE q == Other(p)
  <2>1. q \in Peer
    BY OtherEnd
  <2>. HIDE DEF q
  <2>2. /\ rel_send[p] = EmptyWindow /\ next[p] = 0 /\ rel_recv[p] = EmptyWindow
        /\ re_acks[p] = <<>> /\ raw_write_queue[p] = <<>> /\ app_write_queue[p] = <<>>
        /\ ~ ssl_started[p] /\ sent[p] = <<>> /\ rcvd[p] = <<>>
        /\ next[q] = 0 /\ rel_recv[q] = EmptyWindow
    BY <2>1 DEF Init
  <2>3. \A i \in Ids : i \in Nat
    BY DEF Ids
  <2>4. MaxMsgs[p] \in Nat
    BY MaxMsgsAssumption
  <2>5. 0 <= MaxMsgs[p] /\ 0 <= 0 + SendSpan
    BY <2>4, SpanAssumption
  <2>6. SendInv(p)
    BY <1>2, <2>2, <2>3, <2>5 DEF SendInv, Submitted
  <2>7. RecvInv(p)
    BY <1>2, <2>2, <2>3 DEF RecvInv, q
  <2>8. AckInv(p)
    BY <1>2, <2>2 DEF AckInv, q, Undef, Erased
  <2>. QED  BY <2>6, <2>7, <2>8
<1>. QED  BY <1>4, <1>5 DEF IInv, Init

\* raw_send or app_send, followed by flush, given the longer queues.
LEMMA SendStep ==
    ASSUME IInv, NEW p \in Peer, NEW raw \in Seq(Payload), NEW app \in Seq(Payload),
           WithinBound(p, raw, app),
           Flush(p, rel_send[p], ssl_started[p], raw, app, re_acks[p], FALSE, net),
           UNCHANGED <<rel_recv, ssl_started, invalidated, rcvd>>
    PROVE  IInv' /\ Channel!Step(p)
<1>1. TypeOK
  BY DEF IInv
<1>2. PICK n \in Nat : n = next[p]
  BY <1>1 DEF TypeOK, Ids
<1>3. PICK h \in Nat : h = rel_send[p].head
  BY <1>1 DEF TypeOK, Windows, Ids
<1>4. ssl_started[p] \in BOOLEAN /\ FALSE \in BOOLEAN /\ net \in SUBSET net
  BY <1>1 DEF TypeOK
<1>5. /\ SendWindow(p, rel_send[p]) /\ rel_send[p] \in Windows
      /\ ErasedArrived(p, rel_send[p])
      /\ re_acks[p] \in Seq(Ids) /\ ListArrived(re_acks[p], rel_recv[p])
  BY OwnWindow, Zenon
<1>6. FlushResult(p, n, rel_send[p], re_acks[p])
  BY <1>1, <1>2, <1>3, <1>4, <1>5, FlushStep, Zenon
<1>7. RecvResult(p, re_acks[p])
  BY <1>5, <1>6, RecvUnchanged, Zenon
<1>8. invalidated' \in [Peer -> BOOLEAN]
  BY <1>1 DEF TypeOK
<1>. QED  BY <1>2, <1>5, <1>6, <1>7, <1>8, HandlerStep, Zenon

\* A queue given one more packet stays within the bound.
LEMMA SubmitWithinBound ==
    ASSUME IInv, NEW p \in Peer, Submitted(p) < MaxMsgs[p], NEW m \in Payload
    PROVE  /\ Append(raw_write_queue[p], m) \in Seq(Payload)
           /\ Append(app_write_queue[p], m) \in Seq(Payload)
           /\ WithinBound(p, Append(raw_write_queue[p], m), app_write_queue[p])
           /\ WithinBound(p, raw_write_queue[p], Append(app_write_queue[p], m))
<1>1. TypeOK
  BY DEF IInv
<1>2. PICK n \in Nat, r \in Nat, a \in Nat, b \in Nat :
         /\ n = next[p] /\ r = Len(raw_write_queue[p]) /\ a = Len(app_write_queue[p])
         /\ b = MaxMsgs[p]
  BY <1>1, MaxMsgsAssumption DEF TypeOK, Ids
<1>3. n + r + a < b
  BY <1>2 DEF Submitted
<1>4. /\ Len(Append(raw_write_queue[p], m)) = r + 1
      /\ Len(Append(app_write_queue[p], m)) = a + 1
      /\ Append(raw_write_queue[p], m) \in Seq(Payload)
      /\ Append(app_write_queue[p], m) \in Seq(Payload)
  BY <1>1, <1>2, AppendProperties DEF TypeOK
<1>5. n + (r + 1) + a <= b /\ n + r + (a + 1) <= b
  BY <1>3
<1>. QED  BY <1>2, <1>4, <1>5 DEF WithinBound

\* raw_send preserves the invariant and is a step of the abstract channel.
LEMMA RawSendInv ==
    ASSUME IInv, NEW p \in Peer, NEW m \in Payload, RawSend(p, m)
    PROVE  IInv' /\ Channel!Step(p)
<1>1. /\ Submitted(p) < MaxMsgs[p]
      /\ Flush(p, rel_send[p], ssl_started[p], Append(raw_write_queue[p], m),
               app_write_queue[p], re_acks[p], FALSE, net)
      /\ UNCHANGED <<rel_recv, ssl_started, invalidated, rcvd>>
  BY DEF RawSend
<1>2. app_write_queue[p] \in Seq(Payload)
  BY OwnWindow
<1>. QED  BY <1>1, <1>2, SubmitWithinBound, SendStep, Zenon

\* So does app_send.
LEMMA AppSendInv ==
    ASSUME IInv, NEW p \in Peer, NEW m \in Payload, AppSend(p, m)
    PROVE  IInv' /\ Channel!Step(p)
<1>1. /\ Submitted(p) < MaxMsgs[p]
      /\ Flush(p, rel_send[p], ssl_started[p], raw_write_queue[p],
               Append(app_write_queue[p], m), re_acks[p], FALSE, net)
      /\ UNCHANGED <<rel_recv, ssl_started, invalidated, rcvd>>
  BY DEF AppSend
<1>2. raw_write_queue[p] \in Seq(Payload)
  BY OwnWindow
<1>. QED  BY <1>1, <1>2, SubmitWithinBound, SendStep, Zenon

\* p's receive window as it stands is one that RecvPassedUp starts from.
LEMMA OwnRecvWindow ==
    ASSUME IInv, NEW p \in Peer
    PROVE  rel_recv[p] \in Windows /\ Grown(p, rel_recv[p])
<1>1. TypeOK /\ RecvInv(p)
  BY DEF IInv
<1>. QED  BY <1>1 DEF TypeOK, RecvInv, Grown

\* So does start_handshake.
LEMMA StartHandshakeInv ==
    ASSUME IInv, NEW p \in Peer, StartHandshake(p)
    PROVE  IInv' /\ Channel!Step(p)
<1>1. TypeOK
  BY DEF IInv
<1>2. PICK n \in Nat : n = next[p]
  BY <1>1 DEF TypeOK, Ids
<1>3. PICK h \in Nat : h = rel_send[p].head
  BY <1>1 DEF TypeOK, Windows, Ids
<1>4. TRUE \in BOOLEAN /\ FALSE \in BOOLEAN /\ net \in SUBSET net
  OBVIOUS
<1>5. /\ SendWindow(p, rel_send[p]) /\ rel_send[p] \in Windows
      /\ ErasedArrived(p, rel_send[p])
      /\ WithinBound(p, raw_write_queue[p], app_write_queue[p])
      /\ raw_write_queue[p] \in Seq(Payload) /\ app_write_queue[p] \in Seq(Payload)
      /\ re_acks[p] \in Seq(Ids) /\ ListArrived(re_acks[p], rel_recv[p])
  BY OwnWindow, Zenon
<1>6. FlushResult(p, n, rel_send[p], re_acks[p])
  <2>1. Flush(p, rel_send[p], TRUE, raw_write_queue[p], app_write_queue[p],
              re_acks[p], FALSE, net)
    BY DEF StartHandshake
  <2>. QED  BY <2>1, <1>1, <1>2, <1>3, <1>4, <1>5, FlushStep, Zenon
<1>7. RecvResult(p, re_acks[p])
  <2>1. /\ ssl_started' = [ssl_started EXCEPT ![p] = TRUE]
        /\ UpSequenced(p, rel_recv[p], TRUE)
    BY DEF StartHandshake
  <2>2. rel_recv[p] \in Windows /\ Grown(p, rel_recv[p])
    BY OwnRecvWindow
  <2>. QED  BY <2>1, <2>2, <1>4, <1>5, <1>6, RecvPassedUp, Zenon
<1>8. invalidated' \in [Peer -> BOOLEAN]
  BY <1>1 DEF TypeOK, StartHandshake
<1>. QED  BY <1>2, <1>5, <1>6, <1>7, <1>8, HandlerStep, Zenon

\* The send side of a handler that received pkt, with re and fresh as given.
LEMMA RecvFlush ==
    ASSUME IInv, NEW p \in Peer, NEW pkt \in net, pkt.src = Other(p), NEW h \in Ids, NEW w,
           w = Window(h, EraseIds(rel_send[p], SendSpan, pkt.acks).slot),
           Acked(p, pkt.acks, w), NEW re \in Seq(Ids), NEW fresh \in BOOLEAN,
           NEW inflight \in SUBSET net, NEW n \in Nat, n = next[p],
           Flush(p, w, ssl_started[p], raw_write_queue[p], app_write_queue[p],
                 re, fresh, inflight)
    PROVE  FlushResult(p, n, w, re) /\ ErasedArrived(p, w)
<1>1. TypeOK /\ ssl_started[p] \in BOOLEAN
  BY DEF IInv, TypeOK
<1>2. w \in Windows /\ w.head = h /\ SendWindow(p, w) /\ ErasedArrived(p, w)
  BY AckedWindow
<1>3. PICK a \in Nat : a = w.head
  <2>1. h \in Nat
    BY MaxIdAssumption DEF Ids
  <2>. QED  BY <1>2, <2>1
<1>4. /\ WithinBound(p, raw_write_queue[p], app_write_queue[p])
      /\ raw_write_queue[p] \in Seq(Payload) /\ app_write_queue[p] \in Seq(Payload)
  BY OwnWindow, Zenon
<1>. QED  BY <1>1, <1>2, <1>3, <1>4, FlushStep

\* So does net_recv of a standalone ACK.
LEMMA RecvAckInv ==
    ASSUME IInv, NEW p \in Peer, NEW pkt \in net, RecvAck(p, pkt)
    PROVE  IInv' /\ Channel!Step(p)
<1>1. TypeOK
  BY DEF IInv
<1>2. PICK n \in Nat : n = next[p]
  BY <1>1 DEF TypeOK, Ids
<1>3. PICK h \in Ids, inflight \in {net, net \ {pkt}} :
         LET w == Window(h, EraseIds(rel_send[p], SendSpan, pkt.acks).slot)
         IN  /\ Acked(p, pkt.acks, w)
             /\ Flush(p, w, ssl_started[p], raw_write_queue[p], app_write_queue[p],
                      re_acks[p], FALSE, inflight)
  BY DEF RecvAck
<1>. DEFINE w == Window(h, EraseIds(rel_send[p], SendSpan, pkt.acks).slot)
<1>4. /\ pkt.src = Other(p)
      /\ inflight \in SUBSET net
      /\ FALSE \in BOOLEAN
      /\ UNCHANGED <<rel_recv, ssl_started, invalidated, rcvd>>
  BY DEF RecvAck
<1>5. re_acks[p] \in Seq(Ids) /\ ListArrived(re_acks[p], rel_recv[p])
  BY OwnWindow, Zenon
<1>6. FlushResult(p, n, w, re_acks[p]) /\ ErasedArrived(p, w)
  BY <1>2, <1>3, <1>4, <1>5, RecvFlush, Zenon
<1>7. RecvResult(p, re_acks[p])
  BY <1>4, <1>5, <1>6, RecvUnchanged, Zenon
<1>8. invalidated' \in [Peer -> BOOLEAN]
  BY <1>1, <1>4 DEF TypeOK
<1>. HIDE DEF w
<1>. QED  BY <1>2, <1>6, <1>7, <1>8, HandlerStep, Zenon

\* So does net_recv of a control packet.
LEMMA RecvControlInv ==
    ASSUME IInv, NEW p \in Peer, NEW pkt \in net, RecvControl(p, pkt)
    PROVE  IInv' /\ Channel!Step(p)
<1>. MaxId \in Nat
  BY MaxIdAssumption
<1>1. TypeOK /\ RecvInv(p) /\ NetInv(pkt)
  BY DEF IInv
<1>2. PICK n \in Nat : n = next[p]
  BY <1>1 DEF TypeOK, Ids
<1>. DEFINE r     == rel_recv[p]
            inwin == InWindow(r, RecvSpan, pkt.id)
            toack == inwin \/ PreWindow(r, pkt.id)
            re    == IF toack THEN AddAckToReack(re_acks[p], pkt.id) ELSE re_acks[p]
            g     == Store(r, pkt.id, pkt.msg)
<1>3. PICK h \in Ids, inflight \in {net, net \ {pkt}} :
         LET w == Window(h, EraseIds(rel_send[p], SendSpan, pkt.acks).slot)
         IN  /\ Acked(p, pkt.acks, w)
             /\ IF inwin THEN UpSequenced(p, g, ssl_started[p])
                         ELSE UNCHANGED <<rel_recv, rcvd>>
             /\ Flush(p, w, ssl_started[p], raw_write_queue[p], app_write_queue[p],
                      re, toack, inflight)
  BY DEF RecvControl
<1>. DEFINE w == Window(h, EraseIds(rel_send[p], SendSpan, pkt.acks).slot)
<1>4. /\ pkt.src = Other(p) /\ pkt.op = "CONTROL"
      /\ UNCHANGED <<ssl_started, invalidated>>
  BY DEF RecvControl
<1>5. inflight \in SUBSET net /\ toack \in BOOLEAN
  BY DEF InWindow, PreWindow
<1>6. pkt.id \in Ids /\ pkt.msg \in Payload
  BY <1>1, <1>4 DEF TypeOK, Packet, ControlPacket, AckPacket
<1>7. re_acks[p] \in Seq(Ids) /\ ListArrived(re_acks[p], r)
  BY OwnWindow, Zenon
<1>8. r \in Windows /\ Grown(p, r)
  BY OwnRecvWindow
<1>9. pkt.id < next[Other(p)] /\ pkt.msg = sent[Other(p)][pkt.id + 1]
  BY <1>1, <1>4 DEF NetInv
<1>. HIDE DEF inwin, toack, re, g, w, r
<1>10. g.head = r.head /\ g.slot = [r.slot EXCEPT ![pkt.id] = pkt.msg] /\ g \in Windows
  BY <1>6, <1>8 DEF g, Store, Window, Windows, Slots
<1>11. /\ g.slot[pkt.id] = pkt.msg
       /\ \A i \in Ids : i # pkt.id => g.slot[i] = r.slot[i]
  BY <1>6, <1>8, <1>10 DEF Windows
<1>12. pkt.msg # Undef
  BY <1>6, PayloadAssumption
<1>13. Grown(p, g)
  BY <1>8, <1>9, <1>10, <1>11, <1>12 DEF Grown, r
<1>14. \A i \in Ids : r.slot[i] # Undef => g.slot[i] # Undef
  BY <1>11, <1>12
<1>15. ListArrived(re_acks[p], g)
  BY <1>7, <1>14 DEF ListArrived
<1>16. g.slot[pkt.id] # Undef
  BY <1>11, <1>12
<1>17. re \in Seq(Ids) /\ ListArrived(re, g)
  <2>1. CASE toack
    <3>1. re = AddAckToReack(re_acks[p], pkt.id)
      BY <2>1 DEF re
    <3>. QED  BY <3>1, <1>6, <1>7, <1>15, <1>16, ReackList, Zenon
  <2>2. CASE ~ toack
    <3>1. re = re_acks[p]
      BY <2>2 DEF re
    <3>. QED  BY <3>1, <1>7, <1>15
  <2>. QED  BY <2>1, <2>2
<1>18. ~ inwin => re \in Seq(Ids) /\ ListArrived(re, r)
  <2>1. CASE PreWindow(r, pkt.id)
    <3>1. pkt.id < r.head
      BY <2>1 DEF PreWindow
    <3>2. r.slot[pkt.id] # Undef
      BY <3>1, <1>1, <1>6 DEF RecvInv, r
    <3>3. AddAckToReack(re_acks[p], pkt.id) \in Seq(Ids)
          /\ ListArrived(AddAckToReack(re_acks[p], pkt.id), r)
      BY <3>2, <1>6, <1>7, ReackList, Zenon
    <3>. QED  BY <3>3, <2>1 DEF re, toack
  <2>2. CASE ~ PreWindow(r, pkt.id)
    BY <2>2, <1>7 DEF re, toack
  <2>. QED  BY <2>1, <2>2
<1>19. FlushResult(p, n, w, re) /\ ErasedArrived(p, w)
  <2>1. /\ Acked(p, pkt.acks, w)
        /\ Flush(p, w, ssl_started[p], raw_write_queue[p], app_write_queue[p],
                 re, toack, inflight)
    BY <1>3 DEF w
  <2>2. w = Window(h, EraseIds(rel_send[p], SendSpan, pkt.acks).slot)
    BY DEF w
  <2>. QED  BY <2>1, <2>2, <1>2, <1>4, <1>5, <1>17, RecvFlush, Zenon
<1>20. RecvResult(p, re)
  <2>1. CASE inwin
    <3>1. UpSequenced(p, g, ssl_started[p])
      BY <2>1, <1>3
    <3>2. /\ ssl_started' = [ssl_started EXCEPT ![p] = ssl_started[p]]
          /\ ssl_started[p] \in BOOLEAN
      BY <1>1, <1>4 DEF TypeOK
    <3>. QED  BY <3>1, <3>2, <1>10, <1>13, <1>17, <1>19, RecvPassedUp, Zenon
  <2>2. CASE ~ inwin
    <3>1. rel_recv' = rel_recv /\ rcvd' = rcvd /\ ssl_started' = ssl_started
      BY <2>2, <1>3, <1>4
    <3>2. ListArrived(re, rel_recv[p])
      BY <2>2, <1>18 DEF r
    <3>. QED  BY <3>1, <3>2, <1>17, <1>19, RecvUnchanged, Zenon
  <2>. QED  BY <2>1, <2>2
<1>21. invalidated' \in [Peer -> BOOLEAN]
  BY <1>1, <1>4 DEF TypeOK
<1>. QED  BY <1>2, <1>19, <1>20, <1>21, HandlerStep, Zenon

(***************************************************************************)
(* A step that touches only the network, and puts only genuine packets in  *)
(* it, preserves the invariant.                                            *)
(***************************************************************************)
LEMMA NetStep ==
    ASSUME IInv, UNCHANGED <<wins, queues, ssl_started, sent, rcvd>>,
           invalidated' \in [Peer -> BOOLEAN],
           \A pkt \in net' : pkt \in net \/ \E p \in Peer : Genuine(p, re_acks[p], pkt)
    PROVE  IInv'
<1>1. TypeOK /\ (\A p \in Peer : SendInv(p) /\ RecvInv(p) /\ AckInv(p)) /\ \A pkt \in net : NetInv(pkt)
  BY DEF IInv
<1>2. /\ rel_send' = rel_send /\ next' = next /\ rel_recv' = rel_recv /\ re_acks' = re_acks
      /\ raw_write_queue' = raw_write_queue /\ app_write_queue' = app_write_queue
      /\ ssl_started' = ssl_started /\ sent' = sent /\ rcvd' = rcvd
  BY DEF wins, queues
<1>3. TypeOK'
  BY <1>1, <1>2 DEF TypeOK, Genuine
<1>4. ASSUME NEW p \in Peer
      PROVE  (SendInv(p) /\ RecvInv(p) /\ AckInv(p))'
  BY <1>1, <1>2 DEF SendInv, RecvInv, AckInv, Submitted
<1>5. ASSUME NEW pkt \in net'
      PROVE  NetInv(pkt)'
  <2>1. CASE pkt \in net
    BY <2>1, <1>1, <1>2 DEF NetInv
  <2>2. ASSUME NEW p \in Peer, Genuine(p, re_acks[p], pkt)
        PROVE  NetInv(pkt)'
    <3>1. \A a \in pkt.acks : rel_recv[p].slot[a] # Undef
      BY <2>2, <1>1 DEF Genuine, AcksToSend, AckInv
    <3>. QED  BY <2>2, <3>1, <1>2 DEF Genuine, NetInv
  <2>. QED  BY <2>1, <2>2
<1>. QED  BY <1>3, <1>4, <1>5 DEF IInv

\* retransmit repeats messages of the window, which are those their ids stand for.
LEMMA RetransmitInv ==
    ASSUME IInv, NEW p \in Peer, NEW due, Retransmit(p, due)
    PROVE  IInv'
<1>1. TypeOK /\ SendInv(p)
  BY DEF IInv
<1>2. /\ UNCHANGED <<wins, queues, ssl_started, invalidated, sent, rcvd>>
      /\ due \subseteq DefinedIds(rel_send[p], SendSpan)
  BY DEF Retransmit
<1>3. \A pkt \in net' :
         \/ pkt \in net
         \/ \E i \in due : pkt = [op |-> "CONTROL", src |-> p, id |-> i, msg |-> rel_send[p].slot[i],
                                  acks |-> AcksToSend(re_acks[p])]
  BY DEF Retransmit, Transmit
<1>4. AcksToSend(re_acks[p]) \subseteq Ids
  BY <1>1 DEF AcksToSend, TypeOK
<1>5. ASSUME NEW i \in due, NEW pkt,
             pkt = [op |-> "CONTROL", src |-> p, id |-> i, msg |-> rel_send[p].slot[i],
                    acks |-> AcksToSend(re_acks[p])]
      PROVE  Genuine(p, re_acks[p], pkt)
  <2>1. i \in Ids /\ rel_send[p].slot[i] \in Payload
    BY <1>2 DEF DefinedIds, Defined
  <2>2. rel_send[p].slot[i] # Undef /\ rel_send[p].slot[i] # Erased
    BY <2>1, PayloadAssumption
  <2>3. PICK j \in Nat, n \in Nat : j = i /\ n = next[p]
    BY <2>1, <1>1 DEF TypeOK, Ids
  <2>4. j < n
    <3>1. ~(j >= n)
      BY <2>1, <2>2, <2>3, <1>1 DEF SendInv
    <3>. QED  BY <3>1
  <2>5. rel_send[p].slot[i] = sent[p][i + 1]
    BY <2>1, <2>2, <2>3, <2>4, <1>1 DEF SendInv
  <2>6. pkt \in Packet
    BY <1>5, <2>1, <1>4 DEF Packet, ControlPacket
  <2>. QED  BY <1>5, <2>3, <2>4, <2>5, <2>6 DEF Genuine
<1>6. \A pkt \in net' : pkt \in net \/ \E q \in Peer : Genuine(q, re_acks[q], pkt)
  BY <1>3, <1>5
<1>7. invalidated' \in [Peer -> BOOLEAN]
  BY <1>1, <1>2 DEF TypeOK
<1>. QED  BY <1>2, <1>6, <1>7, NetStep

\* invalidate and the loss of a packet leave what the invariant is about alone.
LEMMA InvalidateLoseInv ==
    ASSUME IInv, (\E p \in Peer : Invalidate(p)) \/ (\E pkt \in net : Lose(pkt))
    PROVE  IInv' /\ UNCHANGED <<sent, rcvd>>
<1>1. TypeOK
  BY DEF IInv
<1>2. /\ UNCHANGED <<wins, queues, ssl_started, sent, rcvd>>
      /\ net' \subseteq net
      /\ invalidated' \in [Peer -> BOOLEAN]
  BY <1>1 DEF Invalidate, Lose, TypeOK
<1>. QED  BY <1>2, NetStep

\* Every step preserves the invariant and is a step or a stutter of the channel.
LEMMA NextInv ==
    ASSUME IInv, [Next]_vars
    PROVE  IInv' /\ [Channel!Next]_<<sent, rcvd>>
<1>1. ASSUME NEW p \in Peer, NEW m \in Payload, RawSend(p, m) \/ AppSend(p, m)
      PROVE  IInv' /\ Channel!Step(p)
  BY <1>1, RawSendInv, AppSendInv
<1>2. ASSUME NEW p \in Peer, StartHandshake(p)
      PROVE  IInv' /\ Channel!Step(p)
  BY <1>2, StartHandshakeInv
<1>3. ASSUME NEW p \in Peer, NEW pkt \in net, RecvAck(p, pkt) \/ RecvControl(p, pkt)
      PROVE  IInv' /\ Channel!Step(p)
  BY <1>3, RecvAckInv, RecvControlInv
<1>4. ASSUME NEW p \in Peer, NEW due, Retransmit(p, due)
      PROVE  IInv' /\ UNCHANGED <<sent, rcvd>>
  BY <1>4, RetransmitInv DEF Retransmit
<1>5. CASE UNCHANGED vars
  <2>1. /\ UNCHANGED <<wins, queues, ssl_started, sent, rcvd>>
        /\ invalidated' = invalidated /\ net' = net
    BY <1>5 DEF vars
  <2>2. invalidated' \in [Peer -> BOOLEAN]
    BY <2>1 DEF IInv, TypeOK
  <2>. QED  BY <2>1, <2>2, NetStep
<1>. QED  BY <1>1, <1>2, <1>3, <1>4, <1>5, InvalidateLoseInv DEF Next, Channel!Next

-----------------------------------------------------------------------------
(* The theorems. *)

\* The inductive invariant holds in every state of every behaviour.
THEOREM Inductive == Spec => []IInv
<1>1. IInv /\ [Next]_vars => IInv'
  BY NextInv
<1>. QED  BY <1>1, InitInv, PTL DEF Spec

\* No handler takes a window, a queue or a packet out of its type.
THEOREM TypeCorrect == Spec => []TypeOK
<1>1. IInv => TypeOK
  BY DEF IInv
<1>. QED  BY <1>1, Inductive, PTL

(***************************************************************************)
(* up_sequenced passes up what the peer sent, each message once and in     *)
(* order, whatever the network does.                                       *)
(***************************************************************************)
THEOREM Delivery == Spec => []DeliveredPrefix
<1>1. ASSUME IInv, NEW p \in Peer
      PROVE  /\ Len(rcvd[p]) = rel_recv[p].head
             /\ Len(rcvd[p]) <= Len(sent[Other(p)])
             /\ \A i \in 1 .. Len(rcvd[p]) : rcvd[p][i] = sent[Other(p)][i]
  <2>. DEFINE q == Other(p)
  <2>1. q \in Peer
    BY OtherEnd
  <2>2. TypeOK /\ RecvInv(p) /\ SendInv(q)
    BY <1>1, <2>1 DEF IInv
  <2>. HIDE DEF q
  <2>3. PICK a \in Nat, m \in Nat : a = rel_recv[p].head /\ m = next[q] /\ a <= MaxId
    BY <2>1, <2>2, SMTT(30) DEF TypeOK, Windows, Ids
  <2>4. Len(rcvd[p]) = a /\ a <= m /\ Len(sent[q]) = m
    BY <2>2, <2>3 DEF RecvInv, SendInv, q
  <2>5. ASSUME NEW i \in 1 .. a
        PROVE  rcvd[p][i] = sent[q][i]
    <3>1. PICK j \in Nat : j + 1 = i /\ j \in Ids /\ j < a
      <4>1. i - 1 \in Nat /\ (i - 1) + 1 = i /\ i - 1 \in Ids /\ i - 1 < a
        BY <2>3, MaxIdAssumption DEF Ids
      <4>. QED  BY <4>1
    <3>2. rcvd[p][j + 1] = sent[q][j + 1]
      BY <3>1, <2>2, <2>3 DEF RecvInv, q
    <3>. QED  BY <3>1, <3>2
  <2>. QED  BY <2>3, <2>4, <2>5 DEF q
<1>2. IInv => DeliveredPrefix
  BY <1>1 DEF DeliveredPrefix
<1>. QED  BY <1>2, Inductive, PTL

(***************************************************************************)
(* An ACK, fresh or from the re-ACK list, frees a message of the send      *)
(* window only if the peer has it.                                         *)
(***************************************************************************)
THEOREM AckSafety == Spec => []AckedOnlyIfArrived
<1>1. ASSUME IInv, NEW p \in Peer, NEW i \in Ids, rel_send[p].slot[i] = Erased
      PROVE  Arrived(Other(p), i)
  <2>. DEFINE q == Other(p)
  <2>1. q \in Peer /\ Other(q) = p
    BY OtherEnd
  <2>2. TypeOK /\ AckInv(p) /\ RecvInv(q) /\ SendInv(p)
    BY <1>1, <2>1 DEF IInv
  <2>. HIDE DEF q
  <2>3. rel_recv[q].slot[i] # Undef
    BY <1>1, <2>2 DEF AckInv, q
  <2>4. PICK j \in Nat, n \in Nat : j = i /\ n = next[p]
    <3>1. i \in Nat /\ next[p] \in Nat
      BY <2>2 DEF TypeOK, Ids
    <3>. QED  BY <3>1
  <2>5. j < n /\ rel_recv[q].slot[i] = sent[p][j + 1]
    BY <2>1, <2>2, <2>3, <2>4 DEF RecvInv
  <2>6. j + 1 \in 1 .. Len(sent[p]) /\ sent[p] \in Seq(Payload)
    BY <2>2, <2>4, <2>5 DEF SendInv, TypeOK
  <2>7. sent[p][j + 1] \in Payload
    BY <2>6, ElementOfSeq
  <2>. QED  BY <2>5, <2>7 DEF Arrived, Defined, q
<1>2. IInv => AckedOnlyIfArrived
  BY <1>1 DEF AckedOnlyIfArrived
<1>. QED  BY <1>2, Inductive, PTL

(***************************************************************************)
(* No packet in flight is past the receive window of an end whose          *)
(* handshake has started: the send window is no larger than the receive    *)
(* window and never ahead of it.                                           *)
(***************************************************************************)
THEOREM WindowsAgree == Spec => []NeverBeyondWindow
<1>1. ASSUME IInv, NEW pkt \in net, pkt.op = "CONTROL", ssl_started[Other(pkt.src)]
      PROVE  pkt.id < rel_recv[Other(pkt.src)].head + RecvSpan
  <2>. SendSpan \in Nat /\ RecvSpan \in Nat /\ SendSpan <= RecvSpan
    BY SpanAssumption
  <2>1. pkt \in Packet /\ NetInv(pkt) /\ TypeOK
    BY <1>1 DEF IInv, TypeOK
  <2>2. PICK p \in Peer : p = pkt.src
    BY <2>1 DEF Packet, ControlPacket, AckPacket
  <2>. DEFINE q == Other(p)
  <2>3. q \in Peer /\ Other(q) = p
    BY OtherEnd
  <2>4. SendInv(p) /\ RecvInv(q) /\ AckInv(p)
    BY <1>1, <2>3 DEF IInv
  <2>. HIDE DEF q
  <2>5. PICK i \in Nat, n \in Nat, a \in Nat, b \in Nat :
           /\ i = pkt.id /\ n = next[p] /\ a = rel_send[p].head /\ b = rel_recv[q].head
           /\ b \in Ids
    <3>1. pkt.id \in Ids
      BY <1>1, <2>1 DEF Packet, ControlPacket, AckPacket
    <3>2. next[p] \in Ids /\ rel_send[p].head \in Ids /\ rel_recv[q].head \in Ids
      BY <2>1, <2>3 DEF TypeOK, Windows
    <3>3. \A x \in Ids : x \in Nat
      BY DEF Ids
    <3>. QED  BY <3>1, <3>2, <3>3
  <2>6. i < n /\ n <= a + SendSpan
    BY <1>1, <2>1, <2>2, <2>4, <2>5 DEF NetInv, SendInv
  <2>7. a <= b
    <3>1. SUFFICES ASSUME ~(a <= b) PROVE FALSE
      OBVIOUS
    <3>2. b < a
      BY <3>1
    <3>3. rel_send[p].slot[b] = Erased
      BY <3>2, <2>4, <2>5 DEF SendInv
    <3>4. rel_recv[q].slot[b] # Undef
      BY <3>3, <2>4, <2>5 DEF AckInv, q
    <3>. QED  BY <1>1, <2>2, <3>4, <2>4, <2>5 DEF RecvInv, q
  <2>8. i < b + RecvSpan
    <3>1. i < b + SendSpan
      BY <2>6, <2>7
    <3>. QED  BY <3>1
  <2>. QED  BY <2>2, <2>5, <2>8 DEF q
<1>2. IInv => NeverBeyondWindow
  BY <1>1 DEF NeverBeyondWindow
<1>. QED  BY <1>2, Inductive, PTL

(***************************************************************************)
(* The reliability layer over a lossy, duplicating and reordering network  *)
(* implements two FIFO channels.                                           *)
(***************************************************************************)
THEOREM Refinement == Spec => ChannelSpec
<1>1. Init => Channel!Init
  BY DEF Init, Channel!Init
<1>2. IInv /\ [Next]_vars => [Channel!Next]_<<sent, rcvd>>
  BY NextInv
<1>. QED  BY <1>1, <1>2, Inductive, PTL DEF Spec, ChannelSpec, Channel!Spec

-----------------------------------------------------------------------------
(* The write queues. *)

\* Nothing that p could send waits.
Drained(p) ==
    \/ raw_write_queue[p] = <<>> /\ (ssl_started[p] => app_write_queue[p] = <<>>)
    \/ next[p] = rel_send[p].head + SendSpan

\* A flush, from any window that ACKs may leave, drains the queues of its end.
LEMMA FlushDrains ==
    ASSUME TypeOK, NEW p \in Peer, NEW w \in Windows, SendWindow(p, w),
           NEW started \in BOOLEAN, NEW raw \in Seq(Payload), NEW app \in Seq(Payload),
           NEW re, NEW fresh, NEW inflight,
           Flush(p, w, started, raw, app, re, fresh, inflight), ssl_started'[p] = started
    PROVE  Drained(p)'
<1>. DEFINE pend == Pending(started, raw, app)
<1>. SendSpan \in Nat
  BY SpanAssumption
<1>1. PICK lr \in Nat, la \in Nat, l \in Nat :
         /\ lr = Len(raw) /\ la = Len(app) /\ l = Len(pend)
         /\ l = lr + (IF started THEN la ELSE 0)
  BY PendingType
<1>2. PICK n \in Nat, h \in Nat : n = next[p] /\ h = w.head /\ h <= n /\ n <= h + SendSpan
  BY DEF TypeOK, Windows, Ids, SendWindow
<1>. HIDE DEF pend
<1>. DEFINE room == h + SendSpan - n
            k == IF l < room THEN l ELSE room
            kraw == IF lr < k THEN lr ELSE k
<1>3. k = Admitted(p, w, pend)
  BY <1>1, <1>2 DEF Admitted
<1>4. /\ rel_send'[p].head = h
      /\ next'[p] = n + k
      /\ raw_write_queue'[p] = SubSeq(raw, kraw + 1, lr)
      /\ app_write_queue'[p] = SubSeq(app, k - kraw + 1, la)
  <2>. HIDE DEF k
  <2>1. /\ rel_send' = [rel_send EXCEPT ![p] = Window(w.head, [i \in Ids |-> IF i >= next[p] /\ i < next[p] + k
                                               THEN pend[i - next[p] + 1]
                                               ELSE w.slot[i]])]
        /\ next' = [next EXCEPT ![p] = @ + k]
        /\ raw_write_queue' = [raw_write_queue EXCEPT ![p] = SubSeq(raw, kraw + 1, Len(raw))]
        /\ app_write_queue' = [app_write_queue EXCEPT ![p] = SubSeq(app, k - kraw + 1, Len(app))]
    BY <1>1, <1>3, Zenon DEF Flush, pend
  <2>2. rel_send \in [Peer -> Windows] /\ next \in [Peer -> Ids]
        /\ raw_write_queue \in [Peer -> Seq(Payload)] /\ app_write_queue \in [Peer -> Seq(Payload)]
    BY DEF TypeOK
  <2>3. next'[p] = n + k
    BY <1>2, <2>1, <2>2
  <2>4. raw_write_queue'[p] = SubSeq(raw, kraw + 1, lr) /\ app_write_queue'[p] = SubSeq(app, k - kraw + 1, la)
    BY <1>1, <2>1, <2>2, Zenon
  <2>5. rel_send'[p].head = h
    BY <1>2, <2>1, <2>2 DEF Window
  <2>. QED  BY <2>3, <2>4, <2>5
<1>5. CASE ~ (l < room)
  BY <1>2, <1>4, <1>5 DEF Drained
<1>6. CASE l < room
  <2>1. k = l /\ kraw = lr
    BY <1>1, <1>6
  <2>2. raw_write_queue'[p] = SubSeq(raw, lr + 1, lr)
    BY <1>4, <2>1
  <2>3. SubSeq(raw, lr + 1, lr) = <<>>
    BY <1>1, SubSeqProperties, EmptySeq
  <2>4. started => app_write_queue'[p] = SubSeq(app, la + 1, la)
    <3>1. started => l - lr + 1 = la + 1
      BY <1>1
    <3>2. app_write_queue'[p] = SubSeq(app, l - lr + 1, la)
      BY <1>4, <2>1
    <3>. QED  BY <3>1, <3>2
  <2>5. SubSeq(app, la + 1, la) = <<>>
    BY <1>1, SubSeqProperties, EmptySeq
  <2>. QED  BY <2>2, <2>3, <2>4, <2>5 DEF Drained
<1>. QED  BY <1>5, <1>6

\* What a flush leaves alone: the other end, whose packets only the network touches.
LEMMA FlushFrame ==
    ASSUME TypeOK, NEW p \in Peer, NEW w, NEW started, NEW raw, NEW app, NEW re, NEW fresh,
           NEW inflight \in SUBSET net, Flush(p, w, started, raw, app, re, fresh, inflight)
    PROVE  /\ \A q \in Peer : q # p =>
                 /\ rel_send'[q] = rel_send[q] /\ next'[q] = next[q] /\ sent'[q] = sent[q]
                 /\ re_acks'[q] = re_acks[q]
                 /\ raw_write_queue'[q] = raw_write_queue[q] /\ app_write_queue'[q] = app_write_queue[q]
           /\ \A pkt \in net' \ net : pkt.src = p
<1>. DEFINE pend == Pending(started, raw, app)
            k == Admitted(p, w, pend)
            kraw == IF Len(raw) < k THEN Len(raw) ELSE k
            ctl == {[op |-> "CONTROL", src |-> p, id |-> next[p] + i - 1,
                     msg |-> pend[i], acks |-> AcksToSend(re)] : i \in 1 .. k}
            ack == IF fresh /\ k = 0
                     THEN {[op |-> "ACK", src |-> p, acks |-> AcksToSend(re)]} ELSE {}
            slots == [i \in Ids |-> IF i >= next[p] /\ i < next[p] + k
                                      THEN pend[i - next[p] + 1] ELSE w.slot[i]]
            n1 == next[p] + k
            sent1 == sent[p] \o SubSeq(pend, 1, k)
            raw1 == SubSeq(raw, kraw + 1, Len(raw))
            app1 == SubSeq(app, k - kraw + 1, Len(app))
            w1 == Window(w.head, slots)
<1>1. /\ rel_send' = [rel_send EXCEPT ![p] = w1] /\ next' = [next EXCEPT ![p] = n1]
      /\ sent' = [sent EXCEPT ![p] = sent1] /\ re_acks' = [re_acks EXCEPT ![p] = re]
      /\ raw_write_queue' = [raw_write_queue EXCEPT ![p] = raw1]
      /\ app_write_queue' = [app_write_queue EXCEPT ![p] = app1]
      /\ net' = Transmit(inflight, ctl \cup ack)
  BY Zenon DEF Flush
<1>2. \A pkt \in ctl \cup ack : pkt.src = p
  <2>1. \A pkt \in ctl : pkt.src = p
    OBVIOUS
  <2>2. \A pkt \in ack : pkt.src = p
    OBVIOUS
  <2>. QED  BY <2>1, <2>2
<1>. HIDE DEF w1, n1, sent1, raw1, app1, ctl, ack
<1>3. net' \subseteq inflight \cup (ctl \cup ack)
  BY <1>1 DEF Transmit
<1>4. \A pkt \in net' \ net : pkt.src = p
  BY <1>2, <1>3
<1>5. /\ rel_send \in [Peer -> Windows] /\ next \in [Peer -> Ids] /\ sent \in [Peer -> Seq(Payload)]
      /\ re_acks \in [Peer -> Seq(Ids)] /\ raw_write_queue \in [Peer -> Seq(Payload)]
      /\ app_write_queue \in [Peer -> Seq(Payload)]
  BY DEF TypeOK
<1>6. \A q \in Peer : q # p =>
         /\ rel_send'[q] = rel_send[q] /\ next'[q] = next[q] /\ sent'[q] = sent[q]
         /\ re_acks'[q] = re_acks[q]
         /\ raw_write_queue'[q] = raw_write_queue[q] /\ app_write_queue'[q] = app_write_queue[q]
  BY <1>1, <1>5
<1>. QED  BY <1>4, <1>6

\* What handlers of p leave alone.
OnlyOwn(p) ==
    /\ \A q \in Peer : q # p =>
          /\ UNCHANGED <<rel_send[q], next[q], rel_recv[q], re_acks[q], sent[q], rcvd[q]>>
          /\ UNCHANGED <<raw_write_queue[q], app_write_queue[q], ssl_started[q], invalidated[q]>>
    /\ \A pkt \in net' \ net : pkt.src = p

\* A handler that flushes belongs to an end that is not invalidated, touches only that end and drains it.
LEMMA FlushingHandler ==
    ASSUME IInv, NEW p \in Peer,
           \/ \E m \in Payload : RawSend(p, m) \/ AppSend(p, m)
           \/ StartHandshake(p)
           \/ \E pkt \in net : RecvAck(p, pkt) \/ RecvControl(p, pkt)
    PROVE  ~ invalidated[p] /\ OnlyOwn(p) /\ Drained(p)'
<1>1. TypeOK /\ ssl_started[p] \in BOOLEAN /\ TRUE \in BOOLEAN
  BY DEF IInv, TypeOK
<1>2. ~ invalidated[p] /\ UNCHANGED invalidated
  BY DEF RawSend, AppSend, StartHandshake, RecvAck, RecvControl
<1>3. \A q \in Peer : q # p => UNCHANGED <<rel_recv[q], rcvd[q], ssl_started[q]>>
  <2>1. /\ rel_recv \in [Peer -> Windows] /\ rcvd \in [Peer -> Seq(Payload)] /\ ssl_started \in [Peer -> BOOLEAN]
    BY <1>1 DEF TypeOK
  <2>2. ASSUME NEW w, NEW started, UpSequenced(p, w, started)
        PROVE  \A q \in Peer : q # p => UNCHANGED <<rel_recv[q], rcvd[q]>>
    BY <2>1, <2>2 DEF UpSequenced
  <2>3. CASE \E m \in Payload : RawSend(p, m) \/ AppSend(p, m)
    BY <2>3 DEF RawSend, AppSend
  <2>4. CASE StartHandshake(p)
    BY <2>1, <2>2, <2>4 DEF StartHandshake
  <2>5. CASE \E pkt \in net : RecvAck(p, pkt)
    BY <2>5 DEF RecvAck
  <2>6. CASE \E pkt \in net : RecvControl(p, pkt)
    BY <2>2, <2>6 DEF RecvControl
  <2>. QED  BY <2>3, <2>4, <2>5, <2>6
<1>. DEFINE Frame ==
              /\ \A q \in Peer : q # p =>
                    /\ rel_send'[q] = rel_send[q] /\ next'[q] = next[q] /\ sent'[q] = sent[q]
                    /\ re_acks'[q] = re_acks[q]
                    /\ raw_write_queue'[q] = raw_write_queue[q] /\ app_write_queue'[q] = app_write_queue[q]
              /\ \A pkt \in net' \ net : pkt.src = p
<1>4. ASSUME NEW w \in Windows, SendWindow(p, w), NEW started \in BOOLEAN, NEW raw \in Seq(Payload),
             NEW app \in Seq(Payload), NEW re, NEW fresh, NEW inflight \in SUBSET net,
             ssl_started'[p] = started, Flush(p, w, started, raw, app, re, fresh, inflight)
      PROVE  Drained(p)' /\ Frame
  <2>1. Drained(p)'
    BY <1>1, <1>4, FlushDrains
  <2>2. Frame
    BY <1>1, <1>4, FlushFrame
  <2>. QED  BY <2>1, <2>2
<1>. HIDE DEF Frame
<1>5. /\ SendWindow(p, rel_send[p]) /\ rel_send[p] \in Windows
      /\ raw_write_queue[p] \in Seq(Payload) /\ app_write_queue[p] \in Seq(Payload)
      /\ net \in SUBSET net
  BY OwnWindow
<1>6. ASSUME \E m \in Payload : RawSend(p, m)
      PROVE  Drained(p)' /\ Frame
  <2>1. PICK m \in Payload : RawSend(p, m)
    BY <1>6
  <2>2. /\ Append(raw_write_queue[p], m) \in Seq(Payload) /\ ssl_started' = ssl_started
        /\ Flush(p, rel_send[p], ssl_started[p], Append(raw_write_queue[p], m), app_write_queue[p], re_acks[p], FALSE, net)
    BY <1>5, <2>1, AppendProperties DEF RawSend
  <2>. QED  BY <1>1, <1>4, <1>5, <2>2, Zenon
<1>7. ASSUME \E m \in Payload : AppSend(p, m)
      PROVE  Drained(p)' /\ Frame
  <2>1. PICK m \in Payload : AppSend(p, m)
    BY <1>7
  <2>2. /\ Append(app_write_queue[p], m) \in Seq(Payload) /\ ssl_started' = ssl_started
        /\ Flush(p, rel_send[p], ssl_started[p], raw_write_queue[p], Append(app_write_queue[p], m), re_acks[p], FALSE, net)
    BY <1>5, <2>1, AppendProperties DEF AppSend
  <2>. QED  BY <1>1, <1>4, <1>5, <2>2, Zenon
<1>8. ASSUME StartHandshake(p)
      PROVE  Drained(p)' /\ Frame
  <2>1. /\ ssl_started' = [ssl_started EXCEPT ![p] = TRUE]
        /\ Flush(p, rel_send[p], TRUE, raw_write_queue[p], app_write_queue[p], re_acks[p], FALSE, net)
    BY <1>8 DEF StartHandshake
  <2>2. ssl_started'[p] = TRUE
    BY <1>1, <2>1, Zenon DEF TypeOK
  <2>. QED  BY <1>1, <1>4, <1>5, <2>1, <2>2, Zenon
<1>9. ASSUME NEW pkt \in net, pkt.src = Other(p), NEW h \in Ids, NEW inflight \in {net, net \ {pkt}}, NEW re, NEW fresh,
             NEW w, w = Window(h, EraseIds(rel_send[p], SendSpan, pkt.acks).slot), Acked(p, pkt.acks, w),
             ssl_started' = ssl_started,
             Flush(p, w, ssl_started[p], raw_write_queue[p], app_write_queue[p], re, fresh, inflight)
      PROVE  Drained(p)' /\ Frame
  <2>1. w \in Windows /\ SendWindow(p, w)
    BY <1>9, AckedWindow
  <2>2. inflight \in SUBSET net
    BY <1>9
  <2>. QED  BY <1>1, <1>4, <1>5, <1>9, <2>1, <2>2, Zenon
<1>10. ASSUME \E pkt \in net : RecvAck(p, pkt)
      PROVE  Drained(p)' /\ Frame
  <2>1. PICK pkt \in net : RecvAck(p, pkt)
    BY <1>10
  <2>2. PICK h \in Ids, inflight \in {net, net \ {pkt}} :
          LET w == Window(h, EraseIds(rel_send[p], SendSpan, pkt.acks).slot)
          IN  /\ Acked(p, pkt.acks, w)
              /\ Flush(p, w, ssl_started[p], raw_write_queue[p], app_write_queue[p], re_acks[p], FALSE, inflight)
    BY <2>1 DEF RecvAck
  <2>3. pkt.src = Other(p) /\ ssl_started' = ssl_started
    BY <2>1 DEF RecvAck
  <2>. QED  BY <1>9, <2>2, <2>3, Zenon
<1>11. ASSUME \E pkt \in net : RecvControl(p, pkt)
      PROVE  Drained(p)' /\ Frame
  <2>1. PICK pkt \in net : RecvControl(p, pkt)
    BY <1>11
  <2>. DEFINE toack == InWindow(rel_recv[p], RecvSpan, pkt.id) \/ PreWindow(rel_recv[p], pkt.id)
              re == IF toack THEN AddAckToReack(re_acks[p], pkt.id) ELSE re_acks[p]
  <2>2. PICK h \in Ids, inflight \in {net, net \ {pkt}} :
          LET w == Window(h, EraseIds(rel_send[p], SendSpan, pkt.acks).slot)
          IN  /\ Acked(p, pkt.acks, w)
              /\ Flush(p, w, ssl_started[p], raw_write_queue[p], app_write_queue[p], re, toack, inflight)
    BY <2>1, Zenon DEF RecvControl
  <2>3. pkt.src = Other(p) /\ ssl_started' = ssl_started
    BY <2>1 DEF RecvControl
  <2>. HIDE DEF toack, re
  <2>. QED  BY <1>9, <2>2, <2>3, Zenon
<1>12. Drained(p)' /\ Frame
  BY <1>6, <1>7, <1>8, <1>10, <1>11
<1>13. OnlyOwn(p)
  BY <1>2, <1>3, <1>12 DEF OnlyOwn, Frame
<1>. QED  BY <1>2, <1>12, <1>13

\* Retransmissions, the end of a key and lost packets leave the windows and queues alone.
LEMMA QuietHandler ==
    ASSUME NEW p \in Peer, (\E due : Retransmit(p, due)) \/ Invalidate(p)
    PROVE  /\ ~ invalidated[p] /\ UNCHANGED <<wins, queues, ssl_started, sent, rcvd>>
           /\ \A pkt \in net' \ net : pkt.src = p
<1>1. CASE Invalidate(p)
  BY <1>1 DEF Invalidate
<1>2. ASSUME NEW due, Retransmit(p, due)
      PROVE  /\ ~ invalidated[p] /\ UNCHANGED <<wins, queues, ssl_started, sent, rcvd>>
             /\ \A pkt \in net' \ net : pkt.src = p
  <2>. DEFINE new == {[op |-> "CONTROL", src |-> p, id |-> i, msg |-> rel_send[p].slot[i],
                       acks |-> AcksToSend(re_acks[p])] : i \in due}
  <2>1. net' = Transmit(net, new) /\ ~ invalidated[p] /\ UNCHANGED <<wins, queues, ssl_started, sent, rcvd>>
    BY <1>2 DEF Retransmit
  <2>2. \A pkt \in new : pkt.src = p
    OBVIOUS
  <2>. HIDE DEF new
  <2>3. net' \subseteq net \cup new
    BY <2>1 DEF Transmit
  <2>. QED  BY <2>1, <2>2, <2>3
<1>. QED  BY <1>1, <1>2

(***************************************************************************)
(* flush leaves nothing behind that the send window has room for, nor does *)
(* any handler that changes the window, the queues or the handshake return *)
(* without having flushed: a packet waits only for an ACK or, cleartext,   *)
(* for the handshake.                                                      *)
(***************************************************************************)
THEOREM QueuesDrained == Spec => []QueuedOnlyIfFull
<1>1. Init => QueuedOnlyIfFull
  BY DEF Init, QueuedOnlyIfFull
<1>2. IInv /\ QueuedOnlyIfFull /\ [Next]_vars => QueuedOnlyIfFull'
  <2>. SUFFICES ASSUME IInv, \A q \in Peer : Drained(q), [Next]_vars, NEW r \in Peer
                PROVE  Drained(r)'
    BY DEF QueuedOnlyIfFull, Drained
  <2>1. ASSUME NEW p \in Peer,
               \/ \E m \in Payload : RawSend(p, m) \/ AppSend(p, m)
               \/ StartHandshake(p)
               \/ \E pkt \in net : RecvAck(p, pkt) \/ RecvControl(p, pkt)
        PROVE  Drained(r)'
    <3>1. OnlyOwn(p) /\ Drained(p)'
      BY <2>1, FlushingHandler
    <3>2. CASE r = p
      BY <3>1, <3>2
    <3>3. CASE r # p
      BY <3>1, <3>3 DEF OnlyOwn, Drained
    <3>. QED  BY <3>2, <3>3
  <2>2. CASE UNCHANGED <<wins, queues, ssl_started>>
    BY <2>2 DEF Drained, wins, queues
  <2>3. ASSUME NEW p \in Peer, (\E due : Retransmit(p, due)) \/ Invalidate(p)
        PROVE  Drained(r)'
    BY <2>2, <2>3, QuietHandler
  <2>4. ASSUME NEW pkt, Lose(pkt)
        PROVE  Drained(r)'
    BY <2>2, <2>4 DEF Lose
  <2>5. UNCHANGED vars => UNCHANGED <<wins, queues, ssl_started>>
    BY DEF vars
  <2>. QED  BY <2>1, <2>2, <2>3, <2>4, <2>5 DEF Next
<1>. QED  BY <1>1, <1>2, Inductive, PTL DEF Spec

(***************************************************************************)
(* An end that was invalidated stays so: no handler of its own runs and no *)
(* step of the other end or of the network changes its windows, its re-ACK *)
(* list or what it has sent and passed up, or sends in its name.           *)
(***************************************************************************)
THEOREM InvalidatedFinal == Spec => InvalidatedIsFinal
<1>. DEFINE Final(p) == /\ invalidated'[p]
                        /\ UNCHANGED <<rel_send[p], next[p], rel_recv[p], re_acks[p], sent[p], rcvd[p]>>
                        /\ \A pkt \in net' \ net : pkt.src # p
<1>1. IInv /\ [Next]_vars => [\A p \in Peer : invalidated[p] => Final(p)]_vars
  <2>. SUFFICES ASSUME IInv, Next, NEW p \in Peer, invalidated[p]
                PROVE  Final(p)
    OBVIOUS
  <2>1. ASSUME NEW q \in Peer,
               \/ \E m \in Payload : RawSend(q, m) \/ AppSend(q, m)
               \/ StartHandshake(q)
               \/ \E pkt \in net : RecvAck(q, pkt) \/ RecvControl(q, pkt)
        PROVE  Final(p)
    <3>1. ~ invalidated[q] /\ OnlyOwn(q)
      BY <2>1, FlushingHandler
    <3>2. p # q
      BY <3>1
    <3>. QED  BY <3>1, <3>2 DEF OnlyOwn
  <2>2. ASSUME NEW q \in Peer, (\E due : Retransmit(q, due)) \/ Invalidate(q)
        PROVE  Final(p)
    <3>1. /\ ~ invalidated[q] /\ UNCHANGED <<wins, sent, rcvd>> /\ \A pkt \in net' \ net : pkt.src = q
      BY <2>2, QuietHandler
    <3>2. invalidated'[p]
      <4>1. invalidated \in [Peer -> BOOLEAN]
        BY DEF IInv, TypeOK
      <4>. QED  BY <2>2, <3>1, <4>1 DEF Retransmit, Invalidate
    <3>. QED  BY <3>1, <3>2 DEF wins
  <2>3. ASSUME NEW pkt, Lose(pkt)
        PROVE  Final(p)
    BY <2>3 DEF Lose, wins
  <2>. HIDE DEF Final
  <2>. QED  BY <2>1, <2>2, <2>3 DEF Next
<1>. QED  BY <1>1, Inductive, PTL DEF Spec, InvalidatedIsFinal

=============================================================================
