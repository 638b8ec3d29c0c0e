----------------------------- MODULE Handshake -----------------------------
(***************************************************************************)
(* The negotiation of one key: the states of the two KeyContexts with one  *)
(* key id (openvpn/ssl/proto.hpp) from C_INITIAL and S_INITIAL to ACTIVE.  *)
(*                                                                         *)
(* It stands on what Reliable is shown to provide: the packets an end      *)
(* sends reach the other end's TLS object in order and once.  Packets that *)
(* come early are kept, so that one handler may pass up several of them;   *)
(* and the ACKs of an end travel with its packets, at most ControlAcks on  *)
(* one, or alone, and may be late.  TLS is external: three flights,        *)
(* after which cleartext is written; a message is passed up when the last  *)
(* of its packets is there.  Message 0 is the auth message, with the       *)
(* end's half of the key material; the others are the owner's.             *)
(*                                                                         *)
(* One action is one handler run to its end, which is flush(true).         *)
(***************************************************************************)
EXTENDS Naturals, Sequences, SequencesExt, FiniteSets

CONSTANTS
    ControlAcks,  \* maximum_acks_control_v1
    AuthPackets,  \* the number of packets of each end's auth message
    MaxSaid       \* bound on the messages of each owner

End == {"client", "server"}
Other(p) == IF p = "client" THEN "server" ELSE "client"

ASSUME HandshakeAssumption ==
    /\ ControlAcks \in Nat \ {0}
    /\ AuthPackets \in [End -> Nat \ {0}]
    /\ MaxSaid \in [End -> Nat]

VARIABLES
    boot,       \* "hard": the first key; "cookie": the same, the server's reset sent statelessly;
                \* "soft": a later key
    initiators, \* the ends that call start() for this key, if its peer's reset does not come first
    key,        \* the two KeyContexts
    sent,       \* the packets each end has sent, in id order
    arrived,    \* how many of the other end's are in the receive window or were passed up
    acked,      \* which of its own each end knows to have arrived
    said,       \* how many messages the owner has sent
    passed      \* history: what each call of control_recv was given

vars == <<boot, initiators, key, sent, arrived, acked, said, passed>>

\* kind: RESET, HELLO, SERVER_FLIGHT, FINISHED, and MORE and LAST for the packets of message m.
Pkt(kind) == [kind |-> kind, m |-> 0]

\* The packets of a message.
Cut(p, m) ==
    [i \in 1 .. (IF m = 0 THEN AuthPackets[p] ELSE 1) |->
        [kind |-> IF m = 0 /\ i < AuthPackets[p] THEN "MORE" ELSE "LAST", m |-> m]]

(***************************************************************************)
(* A KeyContext.  ssl is "off" until start_handshake and "done" when TLS   *)
(* takes cleartext.  inq is what the receive window has ready, out what    *)
(* this handler has to send, pass what it passes to the owner.             *)
(***************************************************************************)
NoContext ==
    [state |-> "STATE_UNDEF", ssl |-> "off", app_write_queue |-> <<>>, app_pre_write_queue |-> <<>>,
     app_recv_buf |-> <<>>, inq |-> <<>>, out |-> <<>>, pass |-> <<>>]

-----------------------------------------------------------------------------
(* KeyContext, as functions of the context of end p *)

InState(k, s) == [k EXCEPT !.state = s]

\* raw_recv: the reset of the other end.
RawRecv(k) ==
    CASE k.state = "C_WAIT_RESET" -> InState(k, "C_WAIT_RESET_ACK")
      [] k.state = "S_WAIT_RESET" ->
            InState([k EXCEPT !.out = Append(@, Pkt("RESET"))], "S_WAIT_RESET_ACK")
      [] OTHER -> k

\* Mutant: a message that comes before ACTIVE is dropped.
AppRecvDropped(k, m) ==
    LET buf == Append(k.app_recv_buf, m)
        got == [k EXCEPT !.app_recv_buf = <<>>]
    IN  CASE k.state = "C_WAIT_AUTH" -> InState(got, "C_WAIT_AUTH_ACK")
          [] k.state = "S_WAIT_AUTH" ->
                InState([got EXCEPT !.app_write_queue = Append(@, 0)], "S_WAIT_AUTH_ACK")
          [] k.state = "ACTIVE" -> [got EXCEPT !.pass = Append(@, buf)]
          [] OTHER -> got

(***************************************************************************)
(* app_recv: the auth message, or one for the owner.  complete().get()     *)
(* joins all that is in app_recv_buf; in any other state it stays there.   *)
(***************************************************************************)
AppRecv(k, m) ==
    LET buf == Append(k.app_recv_buf, m)
        got == [k EXCEPT !.app_recv_buf = <<>>]
    IN  CASE k.state = "C_WAIT_AUTH" -> InState(got, "C_WAIT_AUTH_ACK")
          [] k.state = "S_WAIT_AUTH" ->
                InState([got EXCEPT !.app_write_queue = Append(@, 0)], "S_WAIT_AUTH_ACK")
          [] k.state \in {"S_WAIT_AUTH_ACK", "ACTIVE"} -> [got EXCEPT !.pass = Append(@, buf)]
          [] OTHER -> [k EXCEPT !.app_recv_buf = buf]

\* The TLS object is given a packet of ciphertext.
Tls(k, pkt) ==
    CASE pkt.kind = "HELLO" -> [k EXCEPT !.out = Append(@, Pkt("SERVER_FLIGHT"))]
      [] pkt.kind = "SERVER_FLIGHT" -> [k EXCEPT !.ssl = "done", !.out = Append(@, Pkt("FINISHED"))]
      [] pkt.kind = "FINISHED" -> [k EXCEPT !.ssl = "done"]
      [] pkt.kind = "MORE" -> k
      [] pkt.kind = "LAST" -> AppRecv(k, pkt.m)

\* up_sequenced: ciphertext waits in the window until TLS has been started.
UpSequenced(k) ==
    LET Take(c, pkt) ==
            IF c.inq # <<>> \/ (pkt.kind # "RESET" /\ c.ssl = "off")
              THEN [c EXCEPT !.inq = Append(@, pkt)]
            ELSE IF pkt.kind = "RESET" THEN RawRecv(c)
            ELSE Tls(c, pkt)
    IN  FoldLeft(Take, [k EXCEPT !.inq = <<>>], k.inq)

\* start_handshake
StartHandshake(k, p) ==
    UpSequenced([k EXCEPT !.ssl = "on", !.out = IF p = "client" THEN Append(@, Pkt("HELLO")) ELSE @])

\* active()
Active(k) ==
    InState([k EXCEPT !.app_write_queue = @ \o k.app_pre_write_queue, !.app_pre_write_queue = <<>>], "ACTIVE")

\* Mutant: the client's auth message is not written.
PostAckActionNoAuth(k, p, unacked) ==
    CASE unacked # {} -> k
      [] unacked = {} /\ k.state = "C_WAIT_RESET_ACK" -> InState(StartHandshake(k, p), "C_WAIT_AUTH")
      [] unacked = {} /\ k.state = "S_WAIT_RESET_ACK" -> InState(StartHandshake(k, p), "S_WAIT_AUTH")
      [] unacked = {} /\ k.state \in {"C_WAIT_AUTH_ACK", "S_WAIT_AUTH_ACK"} -> Active(k)
      [] OTHER -> k

(***************************************************************************)
(* post_ack_action.  What this handler has still to send is not in the     *)
(* send window yet, so n_unacked() does not count it.                      *)
(***************************************************************************)
PostAckAction(k, p, unacked) ==
    CASE unacked # {} -> k
      [] unacked = {} /\ k.state = "C_WAIT_RESET_ACK" ->
            InState([StartHandshake(k, p) EXCEPT !.app_write_queue = Append(@, 0)], "C_WAIT_AUTH")
      [] unacked = {} /\ k.state = "S_WAIT_RESET_ACK" -> InState(StartHandshake(k, p), "S_WAIT_AUTH")
      [] unacked = {} /\ k.state \in {"C_WAIT_AUTH_ACK", "S_WAIT_AUTH_ACK"} -> Active(k)
      [] OTHER -> k

\* down_stack_raw and down_stack_app: TLS refuses cleartext until it is done.
DownStack(k, p) ==
    IF k.ssl = "done"
      THEN [k EXCEPT !.out = @ \o FlattenSeq([i \in DOMAIN k.app_write_queue |-> Cut(p, k.app_write_queue[i])]),
                     !.app_write_queue = <<>>]
      ELSE k

-----------------------------------------------------------------------------
(* Actions *)

\* What a packet of p was acknowledging when p had n packets of the other end.
AckSets(n) == {S \in SUBSET (1 .. n) : Cardinality(S) = IF n < ControlAcks THEN n ELSE ControlAcks}

\* The end of a handler of p, which has k, n packets and the ACKs a: flush(true).
Flush(p, k, n, a) ==
    LET f == DownStack(PostAckAction(k, p, (1 .. Len(sent[p])) \ a), p)
    IN  /\ key' = [key EXCEPT ![p] = [f EXCEPT !.out = <<>>, !.pass = <<>>]]
        /\ sent' = [sent EXCEPT ![p] = @ \o [i \in DOMAIN f.out |-> [pkt |-> f.out[i], base |-> n]]]
        /\ passed' = [passed EXCEPT ![p] = @ \o f.pass]
        /\ arrived' = [arrived EXCEPT ![p] = n]
        /\ acked' = [acked EXCEPT ![p] = a]

Init ==
    /\ boot \in {"hard", "cookie", "soft"}
    /\ initiators \in IF boot = "soft" THEN SUBSET End \ {{}} ELSE {{"client"}}
    /\ key = [p \in End |-> NoContext]
    /\ sent = [p \in End |-> <<>>]
    /\ arrived = [p \in End |-> 0]
    /\ acked = [p \in End |-> {}]
    /\ said = [p \in End |-> 0]
    /\ passed = [p \in End |-> <<>>]

\* The constructor for the end that was asked.
Responding(p) == InState(NoContext, IF p = "server" THEN "S_WAIT_RESET" ELSE "C_WAIT_RESET")

\* start(): send_reset.
Start(p) ==
    /\ p \in initiators /\ key[p].state = "STATE_UNDEF"
    /\ Flush(p, [Responding(p) EXCEPT !.out = <<Pkt("RESET")>>], arrived[p], acked[p])
    /\ UNCHANGED <<boot, initiators, said>>

\* The psid cookie layer answers the client's reset and keeps nothing.
CookieReply ==
    /\ boot = "cookie" /\ sent["client"] # <<>> /\ sent["server"] = <<>>
    /\ sent' = [sent EXCEPT !["server"] = <<[pkt |-> Pkt("RESET"), base |-> 1]>>]
    /\ arrived' = [arrived EXCEPT !["server"] = 1]
    /\ UNCHANGED <<boot, initiators, key, acked, said, passed>>

\* start(cookie_psid): the client has shown that it has the cookie; ids go on at 1.
CookieStart ==
    /\ boot = "cookie" /\ key["server"].state = "STATE_UNDEF" /\ arrived["client"] > 0
    /\ Flush("server", InState(NoContext, "S_WAIT_RESET_ACK"), arrived["server"], {1})
    /\ UNCHANGED <<boot, initiators, said>>

(***************************************************************************)
(* net_recv of the next packet in order, n packets being in order then.    *)
(* Its ACKs are those of a transmission since it was first sent.           *)
(***************************************************************************)
NetRecv(p) ==
    /\ key[p].state # "STATE_UNDEF" \/ boot # "cookie" \/ p = "client"
    /\ arrived[p] < Len(sent[Other(p)])
    /\ \E n \in arrived[p] + 1 .. Len(sent[Other(p)]) :
       \E then \in sent[Other(p)][arrived[p] + 1].base .. arrived[Other(p)] :
       \E S \in AckSets(then) :
          LET k == IF key[p].state = "STATE_UNDEF" THEN Responding(p) ELSE key[p]
              new == [i \in 1 .. n - arrived[p] |-> sent[Other(p)][arrived[p] + i].pkt]
          IN  Flush(p, UpSequenced([k EXCEPT !.inq = @ \o new]), n, acked[p] \cup S)
    /\ UNCHANGED <<boot, initiators, said>>

\* net_recv of an ACK, or of a packet that is not next: only its ACKs count.
AckRecv(p) ==
    /\ key[p].state # "STATE_UNDEF"
    /\ \E i \in (1 .. arrived[Other(p)]) \ acked[p] : Flush(p, key[p], arrived[p], acked[p] \cup {i})
    /\ UNCHANGED <<boot, initiators, said>>

\* app_send; a later key is given messages only when it has become primary.
AppSend(p) ==
    /\ said[p] < MaxSaid[p]
    /\ said' = [said EXCEPT ![p] = @ + 1]
    /\ UNCHANGED <<boot, initiators>>
    /\ \/ /\ key[p].state = "ACTIVE"
          /\ Flush(p, [key[p] EXCEPT !.app_write_queue = Append(@, said'[p])], arrived[p], acked[p])
       \/ /\ key[p].state \notin {"ACTIVE", "STATE_UNDEF"} /\ boot # "soft"
          /\ key' = [key EXCEPT ![p].app_pre_write_queue = Append(@, said'[p])]
          /\ UNCHANGED <<sent, arrived, acked, passed>>

Next ==
    \/ \E p \in End : Start(p) \/ NetRecv(p) \/ AckRecv(p) \/ AppSend(p)
    \/ CookieReply \/ CookieStart

Spec == Init /\ [][Next]_vars

(***************************************************************************)
(* Reliable!EventuallyDelivered: what is sent arrives; what has arrived is *)
(* acknowledged again and again until that arrives too.                    *)
(***************************************************************************)
FairSpec ==
    /\ Spec
    /\ \A p \in End : WF_vars(Start(p)) /\ WF_vars(NetRecv(p)) /\ WF_vars(AckRecv(p))
    /\ WF_vars(CookieReply) /\ WF_vars(CookieStart)

-----------------------------------------------------------------------------
(* Properties *)

\* The ends whose auth message has been given to TLS or waits for it.
Contributed ==
    {p \in End : \/ \E i \in DOMAIN key[p].app_write_queue : key[p].app_write_queue[i] = 0
                 \/ \E i \in DOMAIN sent[p] : sent[p][i].pkt = [kind |-> "LAST", m |-> 0]}

Agreement == INSTANCE KeyAgreement WITH
    contributed <- Contributed,
    agreed <- {p \in End : key[p].state = "ACTIVE"},
    said <- [p \in End |-> [i \in 1 .. said[p] |-> i]],
    heard <- [p \in End |-> FlattenSeq(passed[p])]

(***************************************************************************)
(* The negotiation keeps its promise (KeyAgreement), whoever asked for it, *)
(* whatever arrives together and whichever ACKs are late: an end that is   *)
(* ACTIVE has both halves of the key material although post_ack_action     *)
(* runs before the server's auth message is sent, and control_recv is      *)
(* given each message of the other owner once and in order, alone or       *)
(* joined to the next one, and never an auth message in its place.         *)
(***************************************************************************)
AgreementSpec == Agreement!Spec

(***************************************************************************)
(* A negotiation for which the client sent a reset, alone or in collision  *)
(* with the server's, leads both ends to ACTIVE, although what it waits    *)
(* for (a reset, an ACK, an auth message) may come early, late or all at   *)
(* once.                                                                   *)
(***************************************************************************)
ClientRequestCompletes ==
    (sent["client"] # <<>> /\ sent["client"][1].pkt.kind = "RESET")
    ~> (\A p \in End : key[p].state = "ACTIVE")

(***************************************************************************)
(* So does a renegotiation one of the two asks the other for.              *)
(* renegotiate_request: "we're getting a request from peer to              *)
(* renegotiate."                                                           *)
(***************************************************************************)
RequestCompletes ==
    (\E p \in End : key[p].state # "STATE_UNDEF") ~> (\A p \in End : key[p].state = "ACTIVE")

=============================================================================
