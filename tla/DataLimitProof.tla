--------------------------- MODULE DataLimitProof ---------------------------
(***************************************************************************)
(* Proofs about DataLimit for every limit, packet size and counter width   *)
(* that has room for a packet beyond the limit.                            *)
(***************************************************************************)
EXTENDS DataLimit, TLAPS

-----------------------------------------------------------------------------
(* The inductive invariant *)

(***************************************************************************)
(* A direction with a limit that is not Red yet: its counter has not       *)
(* wrapped, and is below the limit unless one packet alone was above it.   *)
(***************************************************************************)
CounterInv(m) ==
    state[m] # Red =>
        /\ state[m] = None => bytes[m] = 0 /\ total[m] = 0
        /\ RedLimit[m] # 0 =>
              /\ bytes[m] = total[m]
              /\ total[m] < RedLimit[m] \/ total[m] <= MaxPacket

\* The reports that were made are those the states imply.
FlagInv(m) ==
    /\ <<m, Red>> \in flags <=> state[m] = Red
    /\ <<m, Green>> \in flags => state[m] >= Green
    /\ state[m] = Green => <<m, Green>> \in flags

\* Red was returned when the last of the reports it waits for came.
ReportInv ==
    <<"Decrypt", Red>> \in flags \/ {ER, DG} \subseteq flags => reds > 0

IInv ==
    /\ LimitTypeOK
    /\ \A m \in Mode : CounterInv(m) /\ FlagInv(m)
    /\ ReportInv
    /\ RedNeedsPeer

-----------------------------------------------------------------------------
(* The steps *)

\* A state is one of three numbers in ascending order.
LEMMA States == None = 0 /\ Green = 1 /\ Red = 2 /\ State = {0, 1, 2} /\ Mode = {"Encrypt", "Decrypt"}
<1>. QED  BY DEF None, Green, Red, State, Mode

\* Update leaves a state as it was or raises it, and reports the change.
LEMMA UpdateCases ==
    ASSUME IInv, NEW m \in Mode, NEW new \in State, Update(m, new)
    PROVE  \/ new <= state[m] /\ UNCHANGED <<state, flags, reds>>
           \/ /\ new > state[m] /\ new \in {Green, Red}
              /\ state' = [state EXCEPT ![m] = new]
              /\ flags' = flags \cup {<<m, new>>}
              /\ reds' = IF Eligible(m, new, flags) = Red THEN reds + 1 ELSE reds
<1>. state \in [Mode -> State] /\ reds \in Nat
  BY DEF IInv, LimitTypeOK
<1>. state[m] \in State
  OBVIOUS
<1>1. CASE new > state[m]
  <2>1. new # None /\ new \in {Green, Red}
    BY <1>1, States
  <2>. QED  BY <1>1, <2>1 DEF Update
<1>2. CASE ~ (new > state[m])
  <2>1. new <= state[m]
    BY <1>2, States
  <2>2. Eligible(m, None, flags) = None
    BY DEF Eligible
  <2>3. reds' = reds
    BY <1>2, <2>2, States DEF Update
  <2>4. state' = state
    BY <1>2 DEF Update
  <2>5. flags' = flags
    BY <1>2 DEF Update
  <2>. QED  BY <2>1, <2>3, <2>4, <2>5
<1>. QED  BY <1>1, <1>2

\* What Update does to the reports.
LEMMA UpdateReports ==
    ASSUME IInv, NEW m \in Mode, NEW new \in State, Update(m, new)
    PROVE  /\ state' \in [Mode -> State] /\ flags' \subseteq Mode \X {Green, Red} /\ reds' \in Nat
           /\ \A k \in Mode : FlagInv(k)'
           /\ ReportInv' /\ RedNeedsPeer'
<1>. /\ state \in [Mode -> State] /\ flags \subseteq Mode \X {Green, Red} /\ reds \in Nat
     /\ \A k \in Mode : FlagInv(k)
     /\ ReportInv /\ RedNeedsPeer
  BY DEF IInv, LimitTypeOK
<1>1. CASE UNCHANGED <<state, flags, reds>>
  BY <1>1 DEF FlagInv, ReportInv, RedNeedsPeer
<1>2. CASE /\ new > state[m] /\ new \in {Green, Red}
           /\ state' = [state EXCEPT ![m] = new]
           /\ flags' = flags \cup {<<m, new>>}
           /\ reds' = IF Eligible(m, new, flags) = Red THEN reds + 1 ELSE reds
  <2>1. state' \in [Mode -> State] /\ state'[m] = new /\ \A k \in Mode : k # m => state'[k] = state[k]
    BY <1>2
  <2>2. flags' \subseteq Mode \X {Green, Red}
    BY <1>2
  <2>3. reds' \in Nat /\ reds' >= reds
    BY <1>2
  <2>4. <<m, new>> \notin flags
    BY <1>2, States DEF FlagInv
  <2>5. ASSUME NEW k \in Mode
        PROVE  FlagInv(k)'
    <3>1. CASE k = m
      BY <1>2, <2>1, <3>1, States DEF FlagInv
    <3>2. CASE k # m
      <4>1. \A s : <<k, s>> \in flags' <=> <<k, s>> \in flags
        BY <1>2, <3>2
      <4>. QED  BY <2>1, <3>2, <4>1 DEF FlagInv
    <3>. QED  BY <3>1, <3>2
  <2>6. Eligible(m, new, flags) =
           IF <<m, new>> \in {ER, DG} /\ {ER, DG} \subseteq flags \cup {<<m, new>>} THEN Red
           ELSE IF <<m, new>> = ER THEN None ELSE new
    BY <1>2, <2>4, States DEF Eligible
  <2>7. ReportInv'
    <3>1. CASE <<m, new>> = <<"Decrypt", Red>>
      <4>1. <<m, new>> \notin {ER, DG}
        BY <3>1, States DEF ER, DG
      <4>2. new = Red
        BY <3>1
      <4>3. reds' = reds + 1
        BY <1>2, <2>6, <4>1, <4>2
      <4>. QED  BY <4>3 DEF ReportInv
    <3>2. CASE <<m, new>> \in {ER, DG} /\ {ER, DG} \subseteq flags \cup {<<m, new>>}
      <4>1. reds' = reds + 1
        BY <1>2, <2>6, <3>2
      <4>. QED  BY <4>1 DEF ReportInv
    <3>3. CASE /\ <<m, new>> # <<"Decrypt", Red>>
               /\ ~ (<<m, new>> \in {ER, DG} /\ {ER, DG} \subseteq flags \cup {<<m, new>>})
      <4>1. <<"Decrypt", Red>> \in flags' => <<"Decrypt", Red>> \in flags
        BY <1>2, <3>3
      <4>2. {ER, DG} \subseteq flags' => {ER, DG} \subseteq flags
        BY <1>2, <3>3
      <4>. QED  BY <2>3, <4>1, <4>2 DEF ReportInv
    <3>. QED  BY <3>1, <3>2, <3>3
  <2>8. RedNeedsPeer'
    <3>1. state["Decrypt"] >= Green => state'["Decrypt"] >= Green
      BY <1>2, <2>1, States
    <3>2. CASE reds' = reds
      BY <3>1, <3>2 DEF RedNeedsPeer
    <3>3. CASE reds' # reds
      <4>1. Eligible(m, new, flags) = Red
        BY <1>2, <3>3
      <4>2. CASE m = "Decrypt"
        <5>1. state'["Decrypt"] = new
          BY <2>1, <4>2
        <5>. QED  BY <1>2, <5>1, States DEF RedNeedsPeer
      <4>3. CASE m = "Encrypt"
        <5>1. DG \in flags
          BY <1>2, <2>6, <4>1, <4>3, States DEF ER, DG
        <5>2. state["Decrypt"] >= Green
          BY <5>1, States DEF FlagInv, DG
        <5>. QED  BY <3>1, <5>2 DEF RedNeedsPeer
      <4>. QED  BY <4>2, <4>3, States
    <3>. QED  BY <3>2, <3>3
  <2>. QED  BY <2>1, <2>2, <2>3, <2>5, <2>7, <2>8
<1>. QED  BY <1>1, <1>2, UpdateCases

\* A counter with room for n more does not wrap.
LEMMA NoWrap ==
    ASSUME NEW b \in Nat, NEW n \in Nat, b + n < Modulus
    PROVE  (b + n) % Modulus = b + n
<1>. Modulus \in Nat
  BY LimitAssumption
<1>. QED  OBVIOUS

\* The counters after a packet.
LEMMA AddStep ==
    ASSUME IInv, NEW m \in Mode, NEW n \in 0 .. MaxPacket, Add(m, n)
    PROVE  IInv'
<1>. DEFINE b == (bytes[m] + n) % Modulus
            new == Transition(m, state[m], b)
<1>. /\ RedLimit \in [Mode -> Nat] /\ MaxPacket \in Nat /\ MaxTotal \in Nat /\ Modulus \in Nat
     /\ 2 * MaxPacket < Modulus /\ RedLimit[m] + MaxPacket < Modulus
  BY LimitAssumption
<1>. /\ bytes \in [Mode -> 0 .. Modulus - 1] /\ state \in [Mode -> State]
     /\ total \in [Mode -> 0 .. MaxTotal]
  BY DEF IInv, LimitTypeOK
<1>1. /\ bytes' = [bytes EXCEPT ![m] = b] /\ bytes'[m] = b
      /\ total' = [total EXCEPT ![m] = total[m] + n] /\ total[m] + n <= MaxTotal
      /\ Update(m, new)
  BY DEF Add
<1>2. b \in 0 .. Modulus - 1
  <2>1. bytes[m] + n \in Nat /\ Modulus > 0
    OBVIOUS
  <2>. QED  BY <2>1
<1>3. new \in State
  BY States DEF Transition
<1>. HIDE DEF b
<1>4. /\ state' \in [Mode -> State] /\ flags' \subseteq Mode \X {Green, Red} /\ reds' \in Nat
      /\ \A k \in Mode : FlagInv(k)'
      /\ ReportInv' /\ RedNeedsPeer'
  BY <1>1, <1>3, UpdateReports
<1>5. LimitTypeOK'
  <2>1. bytes' \in [Mode -> 0 .. Modulus - 1]
    BY <1>1, <1>2
  <2>2. total[m] + n \in 0 .. MaxTotal
    BY <1>1
  <2>3. total' \in [Mode -> 0 .. MaxTotal]
    BY <1>1, <2>2
  <2>. QED  BY <1>4, <2>1, <2>3 DEF LimitTypeOK
<1>6. ASSUME NEW k \in Mode
      PROVE  CounterInv(k)'
  <2>1. CASE k # m
    <3>1. bytes'[k] = bytes[k] /\ total'[k] = total[k] /\ state'[k] = state[k]
      BY <1>1, <1>3, <2>1, UpdateCases
    <3>. QED  BY <3>1 DEF CounterInv, IInv
  <2>2. CASE k = m
    <3>1. SUFFICES ASSUME state'[m] # Red
                   PROVE  /\ state'[m] = None => bytes'[m] = 0 /\ total'[m] = 0
                          /\ RedLimit[m] # 0 =>
                                /\ bytes'[m] = total'[m]
                                /\ total'[m] < RedLimit[m] \/ total'[m] <= MaxPacket
      BY <2>2 DEF CounterInv
    <3>2. state'[m] = IF new > state[m] THEN new ELSE state[m]
      BY <1>1, <1>3, UpdateCases, States
    <3>3. state[m] # Red /\ state[m] \in {None, Green}
      BY <1>3, <3>1, <3>2, States
    <3>4. CounterInv(m)
      BY DEF IInv
    <3>5. total'[m] = total[m] + n
      BY <1>1
    <3>6. CASE state[m] = None
      <4>1. bytes[m] = 0 /\ total[m] = 0
        BY <3>3, <3>4, <3>6 DEF CounterInv
      <4>2. b = n
        <5>1. n \in Nat /\ 0 + n < Modulus /\ 0 + n = n
          OBVIOUS
        <5>2. (0 + n) % Modulus = 0 + n
          BY <5>1, NoWrap
        <5>. QED  BY <4>1, <5>1, <5>2 DEF b
      <4>3. n # 0 => state'[m] = Green
        BY <3>2, <3>6, <4>2, States DEF Transition
      <4>. QED  BY <1>1, <3>5, <4>1, <4>2, <4>3, States
    <3>7. CASE state[m] = Green
      <4>1. state'[m] = Green
        BY <1>3, <3>1, <3>2, <3>7, States
      <4>2. ASSUME RedLimit[m] # 0
            PROVE  bytes'[m] = total'[m] /\ total'[m] < RedLimit[m]
        <5>1. bytes[m] = total[m] /\ (total[m] < RedLimit[m] \/ total[m] <= MaxPacket)
          BY <3>3, <3>4, <4>2 DEF CounterInv
        <5>2. b = bytes[m] + n
          <6>1. bytes[m] \in Nat /\ n \in Nat /\ bytes[m] + n < Modulus
            BY <5>1
          <6>. QED  BY <6>1, NoWrap DEF b
        <5>3. ~ (b >= RedLimit[m])
          BY <3>1, <3>2, <3>7, <4>2, States DEF Transition
        <5>. QED  BY <1>1, <3>5, <5>1, <5>2, <5>3
      <4>. QED  BY <4>1, <4>2, States
    <3>. QED  BY <3>3, <3>6, <3>7
  <2>. QED  BY <2>1, <2>2
<1>. QED  BY <1>4, <1>5, <1>6 DEF IInv

\* A state that the transport notifies leaves the counters alone.
LEMMA UpdateStateStep ==
    ASSUME IInv, NEW m \in Mode, NEW new \in State, UpdateState(m, new)
    PROVE  IInv'
<1>. LimitTypeOK
  BY DEF IInv
<1>1. Update(m, new) /\ bytes' = bytes /\ total' = total
  BY DEF UpdateState
<1>2. /\ state' \in [Mode -> State] /\ flags' \subseteq Mode \X {Green, Red} /\ reds' \in Nat
      /\ \A k \in Mode : FlagInv(k)'
      /\ ReportInv' /\ RedNeedsPeer'
  BY <1>1, UpdateReports
<1>3. LimitTypeOK'
  BY <1>1, <1>2 DEF LimitTypeOK
<1>4. ASSUME NEW k \in Mode
      PROVE  CounterInv(k)'
  <2>1. state[k] \in State /\ state'[k] \in State /\ state'[k] >= state[k]
    BY <1>1, UpdateCases, States DEF LimitTypeOK
  <2>2. CounterInv(k)
    BY DEF IInv
  <2>. QED  BY <1>1, <2>1, <2>2, States DEF CounterInv
<1>. QED  BY <1>2, <1>3, <1>4 DEF IInv

-----------------------------------------------------------------------------
(* The theorems *)

\* The inductive invariant holds in every state of every behaviour.
THEOREM Inductive == LimitSpec => []IInv
<1>1. LimitInit => IInv
  BY LimitAssumption, States
     DEF LimitInit, IInv, LimitTypeOK, CounterInv, FlagInv, ReportInv, RedNeedsPeer, ER, DG
<1>2. IInv /\ [LimitNext]_limitVars => IInv'
  <2>1. SUFFICES ASSUME IInv, [LimitNext]_limitVars PROVE IInv'
    OBVIOUS
  <2>2. CASE LimitNext
    BY <2>1, <2>2, AddStep, UpdateStateStep DEF LimitNext
  <2>3. CASE UNCHANGED limitVars
    BY <2>1, <2>3
       DEF limitVars, IInv, LimitTypeOK, CounterInv, FlagInv, ReportInv, RedNeedsPeer
  <2>. QED  BY <2>1, <2>2, <2>3
<1>. QED  BY <1>1, <1>2, PTL DEF LimitSpec

\* Encrypt-Red is returned to the key only after Decrypt-Green (elgible).
THEOREM RedAfterPeer == LimitSpec => []RedNeedsPeer
<1>1. IInv => RedNeedsPeer
  BY DEF IInv
<1>. QED  BY <1>1, Inductive, PTL

\* A limit that was hit is returned once the peer uses the key (elgible).
THEOREM RedReturned == LimitSpec => []NoRedLost
<1>1. IInv => NoRedLost
  <2>1. SUFFICES ASSUME IInv PROVE NoRedLost
    OBVIOUS
  <2>2. \A m \in Mode : FlagInv(m)
    BY <2>1 DEF IInv
  <2>3. state["Decrypt"] = Red => <<"Decrypt", Red>> \in flags
    BY <2>2, States DEF FlagInv
  <2>4. state["Encrypt"] = Red => ER \in flags
    BY <2>2, States DEF FlagInv, ER
  <2>5. state["Decrypt"] = Green => DG \in flags
    BY <2>2, States DEF FlagInv, DG
  <2>. QED  BY <2>1, <2>3, <2>4, <2>5 DEF IInv, ReportInv, NoRedLost
<1>. QED  BY <1>1, Inductive, PTL

\* A counter that wraps does not pass its limit unnoticed (Component::add).
THEOREM CounterNotices == LimitSpec => []LimitNoticed
<1>1. IInv => LimitNoticed
  BY DEF IInv, CounterInv, LimitNoticed
<1>. QED  BY <1>1, Inductive, PTL

=============================================================================
