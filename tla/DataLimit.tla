----------------------------- MODULE DataLimit -----------------------------
(***************************************************************************)
(* The per-key data limit of openvpn/ssl/datalimit.hpp, for ciphers such   *)
(* as Blowfish that must not be used for too much data: a byte counter and *)
(* a state for each direction, and the rule by which a change of state is  *)
(* reported to the key that owns the object.                               *)
(***************************************************************************)
EXTENDS Integers

CONSTANTS
    RedLimit,    \* encrypt_red_limit and decrypt_red_limit, [Mode -> Nat]
    MaxPacket,   \* largest size added at once
    Modulus,     \* 2^32, what size_type wraps at
    MaxTotal     \* bound on the bytes added

Mode == {"Encrypt", "Decrypt"}

None  == 0
Green == 1
Red   == 2
State == {None, Green, Red}

ASSUME LimitAssumption ==
    /\ RedLimit \in [Mode -> Nat]
    /\ MaxPacket \in Nat /\ MaxTotal \in Nat /\ Modulus \in Nat
    /\ 2 * MaxPacket < Modulus
    /\ \A m \in Mode : RedLimit[m] + MaxPacket < Modulus

VARIABLES
    bytes,    \* Component::bytes
    state,    \* Component::state
    flags,    \* the reports made: a set of <<mode, state>>
    total,    \* history: what was added, without wrapping
    reds      \* history: how often Red was returned to the owner

limitVars == <<bytes, state, flags, total, reds>>

LimitInit ==
    /\ bytes = [m \in Mode |-> 0]
    /\ state = [m \in Mode |-> None]
    /\ flags = {}
    /\ total = [m \in Mode |-> 0]
    /\ reds = 0

\* Mutant: the limit is noticed one byte late.
TransitionLate(m, s, b) ==
    IF s = None /\ b # 0 THEN Green
    ELSE IF s = Green /\ RedLimit[m] # 0 /\ b > RedLimit[m] THEN Red
    ELSE None

\* Component::transition: at most one state at a time.
Transition(m, s, b) ==
    IF s = None /\ b # 0 THEN Green
    ELSE IF s = Green /\ RedLimit[m] # 0 /\ b >= RedLimit[m] THEN Red
    ELSE None

ER == <<"Encrypt", Red>>
DG == <<"Decrypt", Green>>

\* Mutant: Encrypt-Red is returned like any other state.
EligibleAtOnce(m, s, f) == IF s = None \/ <<m, s>> \in f THEN None ELSE s

\* Mutant: Encrypt-Red held back is not returned when Decrypt-Green arrives.
EligibleHeld(m, s, f) ==
    LET mask == <<m, s>>
    IN  IF s = None \/ mask \in f THEN None
        ELSE IF mask = ER /\ DG \notin f THEN None
        ELSE s

\* elgible: what is returned for a component that reports s, with flags f before.
Eligible(m, s, f) ==
    LET mask == <<m, s>>
    IN  IF s = None \/ mask \in f THEN None
        ELSE IF mask \in {ER, DG} /\ {ER, DG} \subseteq f \cup {mask} THEN Red
        ELSE IF mask = ER THEN None
        ELSE s

\* Component::update_state and elgible: the state only ever rises.
Update(m, new) ==
    LET ret == IF new > state[m] THEN new ELSE None
    IN  /\ state' = [state EXCEPT ![m] = IF ret = None THEN @ ELSE ret]
        /\ flags' = IF ret = None THEN flags ELSE flags \cup {<<m, ret>>}
        /\ reds' = IF Eligible(m, ret, flags) = Red THEN reds + 1 ELSE reds

\* add: a packet of n bytes in direction m.
Add(m, n) ==
    /\ total[m] + n <= MaxTotal
    /\ bytes' = [bytes EXCEPT ![m] = (@ + n) % Modulus]
    /\ total' = [total EXCEPT ![m] = @ + n]
    /\ Update(m, Transition(m, state[m], bytes'[m]))

\* update_state: the transport counts the bytes and notifies the state.
UpdateState(m, new) ==
    /\ Update(m, new)
    /\ UNCHANGED <<bytes, total>>

LimitNext ==
    \/ \E m \in Mode, n \in 0 .. MaxPacket : Add(m, n)
    \/ \E m \in Mode, new \in State : UpdateState(m, new)

LimitSpec == LimitInit /\ [][LimitNext]_limitVars

-----------------------------------------------------------------------------
(* Properties *)

LimitTypeOK ==
    /\ bytes \in [Mode -> 0 .. Modulus - 1]
    /\ state \in [Mode -> State]
    /\ flags \subseteq Mode \X {Green, Red}
    /\ total \in [Mode -> 0 .. MaxTotal]
    /\ reds \in Nat

(***************************************************************************)
(* "Don't return Encrypt-Red until Decrypt-Green has been received": as    *)
(* long as nothing was decrypted no Red is returned, however much was      *)
(* encrypted.                                                              *)
(***************************************************************************)
RedNeedsPeer == reds > 0 => state["Decrypt"] >= Green

(***************************************************************************)
(* A limit that was hit is not forgotten: once the peer is known to use    *)
(* the key and either direction is Red, Red has been returned, in          *)
(* whichever order the reports came and whether they were counted here or  *)
(* notified.                                                               *)
(***************************************************************************)
NoRedLost ==
    \/ state["Decrypt"] = Red
    \/ state["Encrypt"] = Red /\ state["Decrypt"] = Green
    => reds > 0

(***************************************************************************)
(* The counter, which wraps, notices the limit: a direction that is not    *)
(* Red has had less than its limit, or one packet alone.                   *)
(***************************************************************************)
LimitNoticed ==
    \A m \in Mode :
        RedLimit[m] # 0 /\ state[m] # Red =>
            total[m] < RedLimit[m] \/ total[m] <= MaxPacket

=============================================================================
