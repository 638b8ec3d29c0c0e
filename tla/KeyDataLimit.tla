---------------------------- MODULE KeyDataLimit ----------------------------
(***************************************************************************)
(* The data limit as KeyContext uses it on its own data path (proto.hpp,   *)
(* data_limit_add from do_encrypt and decrypt), without a transport that   *)
(* counts in its place.                                                    *)
(***************************************************************************)
EXTENDS DataLimit

VARIABLES
    tcp,          \* is_tcp()
    invalidated,  \* invalidated() of the key
    carried       \* history: bytes handed to do_encrypt and decrypt

kvars == <<limitVars, tcp, invalidated, carried>>

\* init_data_channel of a key with a 64-bit block cipher.
KInit == LimitInit /\ tcp \in BOOLEAN /\ invalidated = FALSE /\ carried = [m \in Mode |-> 0]

\* is_safe_conversion<DataLimit::size_type>(size)
SafeConversion(n) == n < Modulus

\* data_limit_add: returns false, with nothing counted, for a size that fits.
DataLimitAdd(m, n) ==
    IF SafeConversion(n) THEN UNCHANGED limitVars ELSE Add(m, n % Modulus)

\* A packet of n bytes in direction m, on a key that is not invalidated.
Carry(m, n) ==
    /\ ~ invalidated
    /\ carried[m] + n <= MaxTotal
    /\ carried' = [carried EXCEPT ![m] = @ + n]
    /\ DataLimitAdd(m, n)
    /\ UNCHANGED tcp

\* do_encrypt: a false from data_limit_add returns early.
DoEncrypt(n) == Carry("Encrypt", n) /\ UNCHANGED invalidated

\* decrypt: a false from data_limit_add is thrown and caught, the packet is
\* dropped and over TCP the key invalidated.
Decrypt(n) == Carry("Decrypt", n) /\ invalidated' = (tcp /\ SafeConversion(n))

KNext == \E n \in 1 .. MaxPacket : DoEncrypt(n) \/ Decrypt(n)

KSpec == KInit /\ [][KNext]_kvars

(***************************************************************************)
(* "trigger renegotiation if we hit encrypt data limit" (do_encrypt) and   *)
(* "trigger renegotiation if we hit decrypt data limit" (decrypt): a key   *)
(* in use in both directions that has carried more than the limit in one   *)
(* of them has been told so.                                               *)
(***************************************************************************)
LimitTriggers ==
    /\ \A m \in Mode : carried[m] > 0
    /\ \E m \in Mode : carried[m] >= RedLimit[m] + MaxPacket
    => reds > 0

=============================================================================
