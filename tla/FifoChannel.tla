---------------------------- MODULE FifoChannel ----------------------------
(***************************************************************************)
(* What the reliability layer promises to KeyContext: two FIFO channels,   *)
(* one per direction.  A step of an end adds messages to what it has sent  *)
(* and takes messages, in order, from what the other has sent; nothing is  *)
(* lost, repeated, reordered or taken back.                                *)
(***************************************************************************)
EXTENDS Naturals, Sequences

CONSTANTS Peer, Payload

VARIABLES
    sent,   \* sent[p]: the messages p has sent, in order
    rcvd    \* rcvd[p]: the messages p has been passed, in order

\* s is a prefix of t.
PrefixOf(s, t) == Len(s) <= Len(t) /\ \A i \in 1 .. Len(s) : s[i] = t[i]

Init ==
    /\ sent = [p \in Peer |-> <<>>]
    /\ rcvd = [p \in Peer |-> <<>>]

\* p sends and receives any number of messages.
Step(p) ==
    /\ sent' \in [Peer -> Seq(Payload)] /\ rcvd' \in [Peer -> Seq(Payload)]
    /\ PrefixOf(sent[p], sent'[p])
    /\ PrefixOf(rcvd[p], rcvd'[p])
    /\ \A q \in Peer : q # p =>
          /\ PrefixOf(rcvd'[p], sent[q])
          /\ sent'[q] = sent[q]
          /\ rcvd'[q] = rcvd[q]

Next == \E p \in Peer : Step(p)

Spec == Init /\ [][Next]_<<sent, rcvd>>

=============================================================================
