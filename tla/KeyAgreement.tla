---------------------------- MODULE KeyAgreement ----------------------------
(***************************************************************************)
(* What a negotiation promises its two owners: each end contributes key    *)
(* material, the server after the client; an end that goes ACTIVE has both *)
(* contributions; and what an owner is passed is what the other end's      *)
(* owner said, once and in order, and only after that end went ACTIVE.     *)
(***************************************************************************)
EXTENDS Naturals, Sequences

VARIABLES
    contributed,  \* the ends that have written their auth message
    agreed,       \* the ends that are ACTIVE
    said,         \* said[p]: the messages the owner of p has sent
    heard         \* heard[p]: the messages the owner of p has been passed

Ends == {"client", "server"}
Peer(p) == IF p = "client" THEN "server" ELSE "client"

Extends(t, s) == Len(s) <= Len(t) /\ \A i \in 1 .. Len(s) : t[i] = s[i]

Init ==
    /\ contributed = {} /\ agreed = {}
    /\ said = [p \in Ends |-> <<>>]
    /\ heard = [p \in Ends |-> <<>>]

\* A handler of p.
Step(p) ==
    /\ contributed' \in {contributed, contributed \cup {p}}
    /\ "server" \in contributed' => "client" \in contributed'
    /\ agreed' \in {agreed, agreed \cup {p}}
    /\ p \in agreed' => contributed' = Ends
    /\ Extends(said'[p], said[p])
    /\ Extends(heard'[p], heard[p])
    /\ Extends(said[Peer(p)], heard'[p])
    /\ heard'[p] # heard[p] => Peer(p) \in agreed /\ contributed = Ends
    /\ said'[Peer(p)] = said[Peer(p)]
    /\ heard'[Peer(p)] = heard[Peer(p)]

Next == \E p \in Ends : Step(p)

Spec == Init /\ [][Next]_<<contributed, agreed, said, heard>>

=============================================================================
