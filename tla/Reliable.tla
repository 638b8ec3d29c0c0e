------------------------------ MODULE Reliable ------------------------------
(***************************************************************************)
(* The control-channel reliability layer: ReliableSend, ReliableRecv and   *)
(* ReliableAck (openvpn/reliable) as ProtoStackBase drives them            *)
(* (openvpn/ssl/protostack.hpp), for the two KeyContexts of one key and    *)
(* the datagram network between them, which may lose, duplicate and        *)
(* reorder packets.                                                        *)
(*                                                                         *)
(* One action is one handler of the event loop, run to its end: the        *)
(* callers (client/cliproto.hpp, server/servproto.hpp) follow every        *)
(* net_recv, app_send, raw_send and start_handshake by flush(true), which  *)
(* sends what the window admits and then the pending ACKs.  The list of    *)
(* ACKs to be sent (ReliableAck::data) is therefore empty between          *)
(* handlers and holds at most the id just received within one.             *)
(***************************************************************************)
EXTENDS MsgWindow, Integers, Sequences, FiniteSets

CONSTANTS
    Peer,         \* the two ends
    TlsPayload,   \* payloads for which contains_tls_ciphertext() holds
    SendSpan,     \* ovpn_sending_window
    RecvSpan,     \* ovpn_receiving_window
    ControlAcks,  \* maximum_acks_control_v1: ACKs carried by one packet
    ReackCap,     \* maximum_acks_ack_v1: length of the re-ACK list
    MaxMsgs,      \* bound on the messages each end sends, [Peer -> Nat]
    MaxNet        \* bound on the packets in flight

ASSUME PeerAssumption ==
    /\ Peer # {}
    /\ \A p \in Peer : \E q \in Peer : q # p /\ \A r \in Peer : r \in {p, q}

ASSUME TlsAssumption == TlsPayload \subseteq Payload

ASSUME SpanAssumption ==
    /\ SendSpan \in Nat \ {0} /\ RecvSpan \in Nat \ {0}
    /\ ControlAcks \in Nat \ {0} /\ ReackCap \in Nat \ {0}
    /\ SendSpan <= RecvSpan

ASSUME MaxMsgsAssumption ==
    MaxMsgs \in [Peer -> Nat] /\ \A p \in Peer : MaxMsgs[p] <= MaxId

ASSUME NetAssumption == MaxNet \in Nat

Other(p) == CHOOSE q \in Peer : q # p

VARIABLES
    rel_send,         \* ReliableSend::window_ of each end
    next,             \* ReliableSend::next, the id of the next new message
    rel_recv,         \* ReliableRecv::window_
    re_acks,          \* ReliableAck::re_acks
    raw_write_queue,  \* raw packets waiting for room in the send window
    app_write_queue,  \* cleartext waiting for the handshake or for room
    ssl_started,      \* ssl_started_
    invalidated,      \* invalidated_
    net,              \* the packets in flight
    sent,             \* history: the payload given to each id, in id order
    rcvd              \* history: the payloads passed up, in order

wins == <<rel_send, next, rel_recv, re_acks>>
queues == <<raw_write_queue, app_write_queue>>
vars == <<wins, queues, ssl_started, invalidated, net, sent, rcvd>>

(***************************************************************************)
(* A control packet carries its id, a payload and ACKs; a standalone ACK   *)
(* (ACK_V1) only ACKs.                                                     *)
(***************************************************************************)
ControlPacket == [op : {"CONTROL"}, src : Peer, id : Ids, msg : Payload, acks : SUBSET Ids]
AckPacket     == [op : {"ACK"}, src : Peer, acks : SUBSET Ids]
Packet        == ControlPacket \cup AckPacket

Init ==
    /\ rel_send = [p \in Peer |-> EmptyWindow]
    /\ next = [p \in Peer |-> 0]
    /\ rel_recv = [p \in Peer |-> EmptyWindow]
    /\ re_acks = [p \in Peer |-> <<>>]
    /\ raw_write_queue = [p \in Peer |-> <<>>]
    /\ app_write_queue = [p \in Peer |-> <<>>]
    /\ ssl_started = [p \in Peer |-> FALSE]
    /\ invalidated = [p \in Peer |-> FALSE]
    /\ net = {}
    /\ sent = [p \in Peer |-> <<>>]
    /\ rcvd = [p \in Peer |-> <<>>]

\* net_send: a full network drops what it is given.
Transmit(inflight, new) ==
    IF Cardinality(inflight \cup new) <= MaxNet THEN inflight \cup new ELSE inflight

-----------------------------------------------------------------------------
(* ReliableAck *)

Without(s, i) == SubSeq(s, 1, i - 1) \o SubSeq(s, i + 1, Len(s))

\* The list without the id; it holds an id at most once, so any match is the first.
EraseAck(s, id) ==
    IF \E i \in 1 .. Len(s) : s[i] = id
      THEN Without(s, CHOOSE i \in 1 .. Len(s) : s[i] = id)
      ELSE s

\* push_front, then pop_back above the cap.
PushReack(s, id) ==
    SubSeq(<<id>> \o s, 1, IF Len(s) + 1 > ReackCap THEN ReackCap ELSE Len(s) + 1)

\* add_ack_to_reack: the id moves to the front of the list.
AddAckToReack(s, id) == PushReack(EraseAck(s, id), id)

(***************************************************************************)
(* prepend: the ids that go into a packet.  The fresh ACK, if any, has     *)
(* been put at the front of re_acks, and the rest of the room is filled    *)
(* from the list, so in both cases it is the front of the list that goes.  *)
(* generate_ack passes the opcode of its scratch packet, which is never    *)
(* ACK_V1, so a standalone ACK has room for no more than a control packet. *)
(***************************************************************************)
AcksToSend(re) == {re[i] : i \in {j \in 1 .. Len(re) : j <= ControlAcks}}

-----------------------------------------------------------------------------
(* ProtoStackBase *)

\* Mutant: up_sequenced passes up an object without looking whether it is defined.
PassesUpToUndefined(w, started, h) == h = w.head + 1

\* h is the head after up_sequenced: in-order packets are passed up until a
\* gap, or a TLS packet that must wait for start_handshake.
PassesUpTo(w, started, h) ==
    /\ h >= w.head
    /\ \A i \in Ids : i >= w.head /\ i < h =>
          Defined(w, i) /\ (w.slot[i] \in TlsPayload => started)
    /\ ~ (Defined(w, h) /\ (w.slot[h] \in TlsPayload => started))

\* Mutant: the packets are passed up, the window is not advanced.
UpSequencedNoAdvance(p, w, started) ==
    \E h \in Ids :
        /\ PassesUpTo(w, started, h)
        /\ rel_recv' = [rel_recv EXCEPT ![p] = w]
        /\ rcvd' = [rcvd EXCEPT ![p] =
                       @ \o [i \in 1 .. (h - w.head) |-> w.slot[w.head + i - 1]]]

\* up_sequenced: pass up and advance.
UpSequenced(p, w, started) ==
    \E h \in Ids :
        /\ PassesUpTo(w, started, h)
        /\ rel_recv' = [rel_recv EXCEPT ![p] = Window(h, w.slot)]
        /\ rcvd' = [rcvd EXCEPT ![p] =
                       @ \o [i \in 1 .. (h - w.head) |-> w.slot[w.head + i - 1]]]

\* What waits to be sent, in the order flush sends it.
Pending(started, raw, app) == raw \o (IF started THEN app ELSE <<>>)

\* Mutant: ready() admits one id after the window.
AdmittedOneMore(p, w, pend) ==
    LET room == w.head + SendSpan + 1 - next[p]
    IN  IF Len(pend) < room THEN Len(pend) ELSE room

\* Mutant: a flush sends at most one message.
AdmittedOnlyOne(p, w, pend) ==
    IF w.head + SendSpan - next[p] > 0 /\ Len(pend) > 0 THEN 1 ELSE 0

\* How much of it the send window w has room for: ready() is in_window(next).
Admitted(p, w, pend) ==
    LET room == w.head + SendSpan - next[p]
    IN  IF Len(pend) < room THEN Len(pend) ELSE room

(***************************************************************************)
(* flush: down_stack_raw, then down_stack_app if the handshake has         *)
(* started, as far as the send window w has room, then send_pending_acks.  *)
(* Every packet of one flush carries the same ACKs; a standalone ACK goes  *)
(* out only if no control packet took the fresh ACK.                       *)
(***************************************************************************)
Flush(p, w, started, raw, app, re, fresh, inflight) ==
    LET pend == Pending(started, raw, app)
        k    == Admitted(p, w, pend)
        kraw == IF Len(raw) < k THEN Len(raw) ELSE k
        ctl  == {[op |-> "CONTROL", src |-> p, id |-> next[p] + i - 1,
                  msg |-> pend[i], acks |-> AcksToSend(re)] : i \in 1 .. k}
        ack  == IF fresh /\ k = 0
                  THEN {[op |-> "ACK", src |-> p, acks |-> AcksToSend(re)]} ELSE {}
    IN  /\ rel_send' = [rel_send EXCEPT ![p] =
              Window(w.head, [i \in Ids |-> IF i >= next[p] /\ i < next[p] + k
                                               THEN pend[i - next[p] + 1]
                                               ELSE w.slot[i]])]
        /\ next' = [next EXCEPT ![p] = @ + k]
        /\ sent' = [sent EXCEPT ![p] = @ \o SubSeq(pend, 1, k)]
        /\ raw_write_queue' = [raw_write_queue EXCEPT ![p] = SubSeq(raw, kraw + 1, Len(raw))]
        /\ app_write_queue' = [app_write_queue EXCEPT ![p] = SubSeq(app, k - kraw + 1, Len(app))]
        /\ re_acks' = [re_acks EXCEPT ![p] = re]
        /\ net' = Transmit(inflight, ctl \cup ack)

\* Total messages an end has been given; the bound of the model.
Submitted(p) == next[p] + Len(raw_write_queue[p]) + Len(app_write_queue[p])

\* raw_send followed by flush.
RawSend(p, m) ==
    /\ ~ invalidated[p]
    /\ m \in Payload \ TlsPayload
    /\ Submitted(p) < MaxMsgs[p]
    /\ Flush(p, rel_send[p], ssl_started[p], Append(raw_write_queue[p], m),
             app_write_queue[p], re_acks[p], FALSE, net)
    /\ UNCHANGED <<rel_recv, ssl_started, invalidated, rcvd>>

\* app_send followed by flush; the SSL object turns m into one TLS packet.
AppSend(p, m) ==
    /\ ~ invalidated[p]
    /\ m \in TlsPayload
    /\ Submitted(p) < MaxMsgs[p]
    /\ Flush(p, rel_send[p], ssl_started[p], raw_write_queue[p],
             Append(app_write_queue[p], m), re_acks[p], FALSE, net)
    /\ UNCHANGED <<rel_recv, ssl_started, invalidated, rcvd>>

\* start_handshake: pass up the TLS packets that were waiting, then flush.
StartHandshake(p) ==
    /\ ~ invalidated[p]
    /\ ~ ssl_started[p]
    /\ ssl_started' = [ssl_started EXCEPT ![p] = TRUE]
    /\ UpSequenced(p, rel_recv[p], TRUE)
    /\ Flush(p, rel_send[p], TRUE, raw_write_queue[p], app_write_queue[p],
             re_acks[p], FALSE, net)
    /\ UNCHANGED invalidated

\* ReliableAck::ack over the ids of a packet: w is the send window it leaves.
Acked(p, ids, w) ==
    LET e == EraseIds(rel_send[p], SendSpan, ids)
    IN  PurgesTo(e, w.head) /\ w = Window(w.head, e.slot)

\* net_recv of an ACK_V1 packet, followed by flush.
RecvAck(p, pkt) ==
    /\ ~ invalidated[p]
    /\ pkt.src = Other(p) /\ pkt.op = "ACK"
    /\ \E h \in Ids, inflight \in {net, net \ {pkt}} :
          LET w == Window(h, EraseIds(rel_send[p], SendSpan, pkt.acks).slot)
          IN  /\ Acked(p, pkt.acks, w)
              /\ Flush(p, w, ssl_started[p], raw_write_queue[p], app_write_queue[p],
                       re_acks[p], FALSE, inflight)
    /\ UNCHANGED <<rel_recv, ssl_started, invalidated, rcvd>>

(***************************************************************************)
(* net_recv of a control packet (decapsulate_tls_plain), followed by       *)
(* flush.  A packet in the receive window is stored and ACKed and what is  *)
(* in order is passed up; one before the window is only ACKed; one after   *)
(* the window is dropped without an ACK.  The ACKs it carries are          *)
(* processed in each case.                                                 *)
(***************************************************************************)
RecvControl(p, pkt) ==
    /\ ~ invalidated[p]
    /\ pkt.src = Other(p) /\ pkt.op = "CONTROL"
    /\ \E h \in Ids, inflight \in {net, net \ {pkt}} :
          LET w     == Window(h, EraseIds(rel_send[p], SendSpan, pkt.acks).slot)
              r     == rel_recv[p]
              inwin == InWindow(r, RecvSpan, pkt.id)
              toack == inwin \/ PreWindow(r, pkt.id)
              re    == IF toack THEN AddAckToReack(re_acks[p], pkt.id) ELSE re_acks[p]
          IN  /\ Acked(p, pkt.acks, w)
              /\ IF inwin
                   THEN UpSequenced(p, Store(r, pkt.id, pkt.msg), ssl_started[p])
                   ELSE UNCHANGED <<rel_recv, rcvd>>
              /\ Flush(p, w, ssl_started[p], raw_write_queue[p], app_write_queue[p],
                       re, toack, inflight)
    /\ UNCHANGED <<ssl_started, invalidated>>

\* Mutant: retransmit goes on after invalidate.
RetransmitInvalidated(p, due) ==
    /\ due # {} /\ due \subseteq DefinedIds(rel_send[p], SendSpan)
    /\ net' = Transmit(net, {[op |-> "CONTROL", src |-> p, id |-> i, msg |-> rel_send[p].slot[i],
                              acks |-> AcksToSend(re_acks[p])] : i \in due})
    /\ UNCHANGED <<wins, queues, ssl_started, invalidated, sent, rcvd>>

(***************************************************************************)
(* retransmit: every message of the window whose timer is due is sent      *)
(* again.  Timers run from the moment of each message's last               *)
(* transmission, so any set of unacknowledged messages may be due.         *)
(***************************************************************************)
Retransmit(p, due) ==
    /\ ~ invalidated[p]
    /\ due # {} /\ due \subseteq DefinedIds(rel_send[p], SendSpan)
    /\ net' = Transmit(net, {[op |-> "CONTROL", src |-> p, id |-> i, msg |-> rel_send[p].slot[i],
                              acks |-> AcksToSend(re_acks[p])] : i \in due})
    /\ UNCHANGED <<wins, queues, ssl_started, invalidated, sent, rcvd>>

\* invalidate: an SSL error, a timeout or a disconnect ends this end.
Invalidate(p) ==
    /\ ~ invalidated[p]
    /\ invalidated' = [invalidated EXCEPT ![p] = TRUE]
    /\ UNCHANGED <<wins, queues, ssl_started, net, sent, rcvd>>

\* The network drops a packet.
Lose(pkt) ==
    /\ net' = net \ {pkt}
    /\ UNCHANGED <<wins, queues, ssl_started, invalidated, sent, rcvd>>

Next ==
    \/ \E p \in Peer :
          \/ \E m \in Payload : RawSend(p, m) \/ AppSend(p, m)
          \/ StartHandshake(p)
          \/ \E pkt \in net : RecvAck(p, pkt) \/ RecvControl(p, pkt)
          \/ \E due \in SUBSET DefinedIds(rel_send[p], SendSpan) : Retransmit(p, due)
          \/ Invalidate(p)
    \/ \E pkt \in net : Lose(pkt)

Spec == Init /\ [][Next]_vars

(***************************************************************************)
(* Fairness.  The event loop calls housekeeping() by next_retransmit(), so *)
(* the oldest message of the window is retransmitted again and again; the  *)
(* handshake is started once the resets are acknowledged.  The network is  *)
(* fair-lossy: when packets that carry the peer's oldest message, or an    *)
(* ACK of the own oldest one, keep coming, some get through, and no        *)
(* packet fills the network forever.                                       *)
(***************************************************************************)
RecvOldest(p) ==
    \E pkt \in net : pkt.op = "CONTROL" /\ pkt.id = rel_send[Other(p)].head /\ RecvControl(p, pkt)

RecvAckOfOldest(p) ==
    \E pkt \in net : rel_send[p].head \in pkt.acks /\ (RecvControl(p, pkt) \/ RecvAck(p, pkt))

Fairness ==
    /\ WF_vars(\E pkt \in net : Lose(pkt))
    /\ \A p \in Peer :
          /\ WF_vars(StartHandshake(p))
          /\ SF_vars(Retransmit(p, {rel_send[p].head}))
          /\ SF_vars(RecvOldest(p))
          /\ SF_vars(RecvAckOfOldest(p))

FairSpec == Spec /\ Fairness

-----------------------------------------------------------------------------
(* Properties *)

TypeOK ==
    /\ rel_send \in [Peer -> Windows]
    /\ next \in [Peer -> Ids]
    /\ rel_recv \in [Peer -> Windows]
    /\ re_acks \in [Peer -> Seq(Ids)]
    /\ raw_write_queue \in [Peer -> Seq(Payload)]
    /\ app_write_queue \in [Peer -> Seq(Payload)]
    /\ ssl_started \in [Peer -> BOOLEAN]
    /\ invalidated \in [Peer -> BOOLEAN]
    /\ net \subseteq Packet
    /\ sent \in [Peer -> Seq(Payload)]
    /\ rcvd \in [Peer -> Seq(Payload)]

(***************************************************************************)
(* What MessageWindow and ReliableRecv exist for: whatever the network     *)
(* loses, repeats or reorders, the packets up_sequenced passes up are      *)
(* those the peer gave to its window, each once and in order.              *)
(***************************************************************************)
DeliveredPrefix ==
    \A p \in Peer :
        /\ Len(rcvd[p]) = rel_recv[p].head
        /\ Len(rcvd[p]) <= Len(sent[Other(p)])
        /\ \A i \in 1 .. Len(rcvd[p]) : rcvd[p][i] = sent[Other(p)][i]

\* Message id has arrived at p: it waits in the window or was passed up.
Arrived(p, id) == Defined(rel_recv[p], id)

(***************************************************************************)
(* A message leaves the send window, and with it the only copy that could  *)
(* be retransmitted, only if the peer has it; repeated, reordered and      *)
(* re-sent ACKs (re_acks) never free another one.                          *)
(***************************************************************************)
AckedOnlyIfArrived ==
    \A p \in Peer : \A i \in Ids :
        rel_send[p].slot[i] = Erased => Arrived(Other(p), i)

(***************************************************************************)
(* Once the peer's handshake has started, the send window never runs ahead *)
(* of its receive window: no packet in flight, however old, is one that    *)
(* ReliableRecv::receive would drop as being after the window.             *)
(***************************************************************************)
NeverBeyondWindow ==
    \A pkt \in net :
        pkt.op = "CONTROL" /\ ssl_started[Other(pkt.src)] =>
            pkt.id < rel_recv[Other(pkt.src)].head + RecvSpan

(***************************************************************************)
(* flush leaves nothing behind that could have been sent: a packet waits   *)
(* in a write queue only while the send window is full or, for cleartext,  *)
(* while the handshake has not started.                                    *)
(***************************************************************************)
QueuedOnlyIfFull ==
    \A p \in Peer :
        \/ raw_write_queue[p] = <<>> /\ (ssl_started[p] => app_write_queue[p] = <<>>)
        \/ next[p] = rel_send[p].head + SendSpan

(***************************************************************************)
(* An end that was invalidated takes no further step: the windows, queues  *)
(* and history stay as they were and no packet of its own appears.         *)
(***************************************************************************)
InvalidatedIsFinal ==
    [][\A p \in Peer : invalidated[p] =>
          /\ invalidated'[p]
          /\ UNCHANGED <<rel_send[p], next[p], rel_recv[p], re_acks[p], sent[p], rcvd[p]>>
          /\ \A pkt \in net' \ net : pkt.src # p]_vars

(***************************************************************************)
(* Every message given to an end is passed up at the other, unless one of  *)
(* them is invalidated: loss is repaired by retransmission, a full window  *)
(* opens again, and no ACK lost for good blocks it.                        *)
(***************************************************************************)
EventuallyDelivered ==
    \A p \in Peer : \A n \in 1 .. MaxId :
        Submitted(p) >= n ~> \/ Len(rcvd[Other(p)]) >= n
                             \/ \E q \in Peer : invalidated[q]

\* The abstract channel this layer implements.
Channel == INSTANCE FifoChannel
ChannelSpec == Channel!Spec

=============================================================================
