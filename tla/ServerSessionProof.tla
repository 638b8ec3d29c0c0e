------------------------- MODULE ServerSessionProof -------------------------
(***************************************************************************)
(* Proofs about ServerSession: what is to end a session is always armed,   *)
(* and a client sees what PushServer allows, for every delay, range of     *)
(* CoarseTime, lateness of the timer and order of calls.                   *)
(***************************************************************************)
EXTENDS ServerSession, TLAPS

ServerType ==
    [halt : BOOLEAN, disconnect_type : DisconnectTypes, disconnect_at : Int, timer : Int, schedule : Int,
     queued : BOOLEAN, primary : BOOLEAN, tun : BOOLEAN, preserve : BOOLEAN, man_factory : BOOLEAN,
     tun_factory : BOOLEAN, out : Seq(Messages)]

(***************************************************************************)
(* What holds of a session at every moment of a handler.  CoarseTime and   *)
(* the timer agree unless a handler that was queued earlier has reset the  *)
(* former.                                                                 *)
(***************************************************************************)
Sound(s) ==
    /\ s \in ServerType
    /\ s.disconnect_at <= Infinite
    /\ s.timer = Off \/ s.timer < Infinite
    /\ ~s.halt => s.schedule = Off \/ s.schedule = s.timer
    /\ s.halt => ~s.primary

\* DisconnectArmed, of any session.
Armed(s) ==
    /\ ~s.halt /\ s.disconnect_at < Infinite
    /\ s.disconnect_type = "DT_RELAY_TRANSITION" => s.primary
    => s.timer # Off /\ s.timer <= Later(s.disconnect_at + Pre, 0)

ChannelOK ==
    /\ toClient \in Seq(Messages)
    /\ toServer \in Nat /\ asked \in BOOLEAN /\ infos \in 0 .. Len(Infos)

\* The inductive invariant.
SInv == Sound(server) /\ Armed(server) /\ server.out = <<>> /\ ChannelOK

\* r differs from s in its timer, its schedule and queued at most.
SameButTimer(r, s) ==
    /\ r.halt = s.halt /\ r.disconnect_type = s.disconnect_type /\ r.disconnect_at = s.disconnect_at
    /\ r.primary = s.primary /\ r.tun = s.tun /\ r.preserve = s.preserve
    /\ r.man_factory = s.man_factory /\ r.tun_factory = s.tun_factory /\ r.out = s.out

\* The constants that are numbers.
LEMMA Numbers ==
    /\ Pre \in Nat /\ Post \in Nat /\ MaxLate \in Nat /\ Infinite \in Nat /\ Infinite > 0
    /\ HaltDelay \in Int /\ HaltDelay < Infinite
    /\ RelayDelay \in Int /\ RelayDelay < Infinite
    /\ \A d \in Delays : d \in Int /\ d < Infinite
    /\ \A k \in KeyTimes : k \in Int /\ k <= Infinite
    /\ Off \in Int /\ Off = Infinite + 1
<1>1. /\ Pre \in Nat /\ Post \in Nat /\ MaxLate \in Nat /\ Infinite \in Nat
      /\ {HaltDelay, RelayDelay} \cup Delays \subseteq 0 .. Infinite - Post - 1
      /\ KeyTimes \subseteq {t \in Int : t < Infinite - Post} \cup {Infinite}
  BY ServerAssumption
<1>2. \A d \in {HaltDelay, RelayDelay} \cup Delays : d \in Int /\ 0 <= d /\ d < Infinite
  BY <1>1
<1>3. \A k \in KeyTimes : k \in Int /\ k <= Infinite
  BY <1>1
<1>4. Infinite > 0
  BY <1>1, <1>2
<1>. QED  BY <1>1, <1>2, <1>3, <1>4 DEF Off

(***************************************************************************)
(* set_housekeeping_timer arms whatever disconnect_at says.                *)
(***************************************************************************)
LEMMA TimerSet ==
    ASSUME NEW s, Sound(s), NEW k \in KeyTimes
    PROVE  LET r == SetHousekeepingTimer(s, k)
           IN  Sound(r) /\ Armed(r) /\ SameButTimer(r, s)
<1>. DEFINE next == Earlier(k, s.disconnect_at)
            t == IF next = Infinite THEN Off ELSE Later(next, 0)
            r == SetHousekeepingTimer(s, k)
<1>1. /\ k \in Int /\ k <= Infinite /\ s.disconnect_at \in Int /\ s.disconnect_at <= Infinite
      /\ s.timer \in Int /\ s.schedule \in Int /\ s \in ServerType
  BY Numbers DEF Sound, ServerType
<1>2. /\ next \in Int /\ next <= Infinite /\ next <= s.disconnect_at
      /\ t \in Int /\ (t = Off \/ t < Infinite)
      /\ next < Infinite => t # Off /\ t <= Later(next, 0)
  BY <1>1, Numbers DEF Earlier, Later
<1>3. CASE Similar(s, next)
  <2>1. r = s
    BY <1>3 DEF SetHousekeepingTimer
  <2>2. s.schedule # Off /\ (next >= s.schedule \/ s.schedule - next <= Pre)
    BY <1>3 DEF Similar
  <2>3. ASSUME ~s.halt
        PROVE  s.timer # Off /\ s.timer <= Later(s.disconnect_at + Pre, 0)
    BY <2>2, <2>3, <1>1, <1>2, Numbers DEF Sound, Later
  <2>. QED  BY <2>1, <2>3, Zenon DEF Armed, SameButTimer
<1>4. CASE ~Similar(s, next)
  <2>1. r = [s EXCEPT !.schedule = t, !.timer = t, !.queued = @ \/ s.timer <= 0]
    BY <1>4, Zenon DEF SetHousekeepingTimer
  <2>. HIDE DEF r, t, next
  <2>2. r \in ServerType
    BY <2>1, <1>1, <1>2 DEF ServerType
  <2>3. SameButTimer(r, s) /\ r.timer = t /\ r.schedule = t
    BY <2>1, <1>1 DEF ServerType, SameButTimer
  <2>4. Sound(r)
    BY <2>2, <2>3, <1>2 DEF Sound, SameButTimer
  <2>5. ASSUME s.disconnect_at < Infinite
        PROVE  t # Off /\ t <= Later(s.disconnect_at + Pre, 0)
    BY <2>5, <1>1, <1>2, Numbers DEF Later
  <2>. QED  BY <2>3, <2>4, <2>5 DEF Armed, SameButTimer, r
<1>. QED  BY <1>3, <1>4

-----------------------------------------------------------------------------
(* The methods *)

\* What push_halt_restart_msg makes of s.
Halted(r, s, type) ==
    \/ r = s /\ (s.halt \/ s.disconnect_type = "DT_HALT_RESTART")
    \/ /\ ~s.halt /\ s.disconnect_type # "DT_HALT_RESTART"
       /\ Sound(r) /\ Armed(r)
       /\ r.primary = s.primary
       /\ r.out = IF s.primary THEN <<HaltRestartMsg(type)>> ELSE <<>>
       /\ type = "RESTART_PASSIVE" =>
            r.disconnect_type = s.disconnect_type /\ r.preserve = s.preserve
       /\ type # "RESTART_PASSIVE" =>
            r.disconnect_type = "DT_HALT_RESTART" /\ r.preserve = (s.preserve /\ type = "RESTART_PSID")

\* Every type of halt or restart message is a message of the channel.
LEMMA HaltMsgType == \A type \in HaltTypes : HaltRestartMsg(type) \in Messages
  BY DEF HaltTypes, HaltRestartMsg, Messages

\* control_send adds to what the handler sends, and changes nothing else.
LEMMA SentOut ==
    ASSUME NEW s, Sound(s), s.out = <<>>, NEW msgs \in Seq(Messages)
    PROVE  LET r == Sent(s, msgs)
           IN  /\ Sound(r) /\ r.halt = s.halt /\ r.primary = s.primary /\ r.preserve = s.preserve
               /\ r.disconnect_type = s.disconnect_type
               /\ r.out = IF s.primary THEN msgs ELSE <<>>
<1>. DEFINE r == Sent(s, msgs)
<1>1. CASE s.primary
  <2>1. r = [s EXCEPT !.out = s.out \o msgs] /\ s.out \o msgs = msgs
    BY <1>1 DEF Sent
  <2>. HIDE DEF r
  <2>. QED  BY <2>1, <1>1 DEF Sound, ServerType, r
<1>2. CASE ~s.primary
  BY <1>2 DEF Sent
<1>. QED  BY <1>1, <1>2

\* push_halt_restart_msg sends one message and arms the disconnect, or does nothing.
LEMMA HaltPushed ==
    ASSUME NEW s, Sound(s), s.out = <<>>, NEW type \in HaltTypes, NEW k \in KeyTimes
    PROVE  Halted(PushHaltRestartMsg(s, type, k), s, type)
<1>. DEFINE ending == IF type = "RESTART_PASSIVE" THEN s
                      ELSE [DisconnectIn(s, HaltDelay) EXCEPT
                               !.disconnect_type = "DT_HALT_RESTART",
                               !.preserve = @ /\ type = "RESTART_PSID"]
            msgs == <<HaltRestartMsg(type)>>
            snt == Sent(ending, msgs)
            r == SetHousekeepingTimer(snt, k)
<1>1. CASE s.halt \/ s.disconnect_type = "DT_HALT_RESTART"
  BY <1>1 DEF PushHaltRestartMsg, Halted
<1>2. CASE ~(s.halt \/ s.disconnect_type = "DT_HALT_RESTART")
  <2>1. PushHaltRestartMsg(s, type, k) = r
    BY <1>2, Zenon DEF PushHaltRestartMsg
  <2>2. /\ Sound(ending) /\ ending.out = <<>> /\ ending.halt = s.halt /\ ending.primary = s.primary
        /\ type = "RESTART_PASSIVE" =>
             ending.disconnect_type = s.disconnect_type /\ ending.preserve = s.preserve
        /\ type # "RESTART_PASSIVE" =>
             /\ ending.disconnect_type = "DT_HALT_RESTART"
             /\ ending.preserve = (s.preserve /\ type = "RESTART_PSID")
    <3>1. CASE type = "RESTART_PASSIVE"
      BY <3>1
    <3>2. CASE type # "RESTART_PASSIVE"
      <4>1. ending = [s EXCEPT !.disconnect_at = HaltDelay, !.disconnect_type = "DT_HALT_RESTART",
                               !.preserve = s.preserve /\ type = "RESTART_PSID"]
        BY <3>2 DEF DisconnectIn, Sound, ServerType
      <4>. DEFINE keep == s.preserve /\ type = "RESTART_PSID"
      <4>2. keep \in BOOLEAN /\ HaltDelay \in Int /\ HaltDelay <= Infinite /\ "DT_HALT_RESTART" \in DisconnectTypes
        BY Numbers DEF DisconnectTypes
      <4>3. ending = [s EXCEPT !.disconnect_at = HaltDelay, !.disconnect_type = "DT_HALT_RESTART", !.preserve = keep]
        BY <4>1
      <4>4. ending.preserve = keep => ending.preserve = (s.preserve /\ type = "RESTART_PSID")
        BY Zenon
      <4>. HIDE DEF ending, keep
      <4>5. /\ ending \in ServerType /\ ending.preserve = keep /\ ending.disconnect_type = "DT_HALT_RESTART"
            /\ ending.out = <<>> /\ ending.halt = s.halt /\ ending.primary = s.primary
            /\ ending.timer = s.timer /\ ending.schedule = s.schedule /\ ending.disconnect_at = HaltDelay
        BY <4>2, <4>3 DEF Sound, ServerType
      <4>6. Sound(ending)
        BY <4>5, <4>2 DEF Sound
      <4>. QED  BY <4>4, <4>5, <4>6, <3>2, Zenon
    <3>. QED  BY <3>1, <3>2
  <2>. HIDE DEF ending
  <2>3. msgs \in Seq(Messages)
    BY HaltMsgType
  <2>4. /\ Sound(snt) /\ snt.halt = s.halt /\ snt.primary = s.primary /\ snt.preserve = ending.preserve
        /\ snt.disconnect_type = ending.disconnect_type
        /\ snt.out = IF s.primary THEN msgs ELSE <<>>
    <3>. HIDE DEF msgs
    <3>1. Sound(ending) /\ ending.out = <<>> /\ ending.halt = s.halt /\ ending.primary = s.primary
      BY <2>2
    <3>2. LET x == Sent(ending, msgs)
          IN  /\ Sound(x) /\ x.halt = ending.halt /\ x.primary = ending.primary /\ x.preserve = ending.preserve
              /\ x.disconnect_type = ending.disconnect_type
              /\ x.out = IF ending.primary THEN msgs ELSE <<>>
      BY <2>3, <3>1, SentOut
    <3>. QED  BY <3>1, <3>2
  <2>. HIDE DEF snt
  <2>5. Sound(r) /\ Armed(r) /\ SameButTimer(r, snt)
    BY <2>4, TimerSet
  <2>. HIDE DEF r
  <2>. QED  BY <2>1, <2>2, <2>4, <2>5, <1>2 DEF Halted, SameButTimer
<1>. QED  BY <1>1, <1>2

-----------------------------------------------------------------------------
(* The steps *)

ContractStep == Contract!PushNext \/ Contract!Silent \/ Contract!Channel \/ UNCHANGED Contract!pushVars

ServerOK == Sound(server) /\ Armed(server) /\ server.out = <<>>

\* The end of a handler.
LEMMA Finished ==
    ASSUME NEW r, Sound(r), Armed(r), Done(r), ChannelOK
    PROVE  /\ ServerOK'
           /\ toClient' = toClient \o r.out /\ toClient' \in Seq(Messages)
           /\ r.out = <<>> => toClient' = toClient
           /\ server'.disconnect_type = r.disconnect_type /\ server'.preserve = r.preserve
           /\ server'.primary = r.primary
<1>1. server' = [r EXCEPT !.out = <<>>] /\ toClient' = toClient \o r.out
  BY DEF Done
<1>2. /\ r \in ServerType /\ r.out \in Seq(Messages) /\ toClient \in Seq(Messages)
      /\ <<>> \in Seq(Messages)
  BY DEF Sound, ServerType, ChannelOK
<1>3. /\ server' \in ServerType /\ server'.out = <<>>
      /\ server'.disconnect_type = r.disconnect_type /\ server'.preserve = r.preserve
      /\ server'.primary = r.primary /\ server'.halt = r.halt /\ server'.disconnect_at = r.disconnect_at
      /\ server'.timer = r.timer /\ server'.schedule = r.schedule
  BY <1>1, <1>2 DEF ServerType
<1>4. Sound(server') /\ Armed(server')
  BY <1>3 DEF Sound, Armed
<1>5. toClient \o r.out \in Seq(Messages) /\ (r.out = <<>> => toClient \o r.out = toClient)
  BY <1>2
<1>. QED  BY <1>1, <1>3, <1>4, <1>5 DEF ServerOK, Sound, Armed

\* A handler that has changed nothing a client can tell.
LEMMA NothingTold ==
    ASSUME SInv, NEW r, Sound(r), Armed(r), Done(r), r.out = <<>>,
           r.disconnect_type = "DT_HALT_RESTART" <=> server.disconnect_type = "DT_HALT_RESTART",
           r.preserve = server.preserve, r.primary = server.primary
    PROVE  ServerOK' /\ Promise' = Promise /\ toClient' = toClient
<1>1. /\ ServerOK' /\ toClient' = toClient
      /\ server'.disconnect_type = r.disconnect_type /\ server'.preserve = r.preserve
      /\ server'.primary = r.primary
  BY Finished DEF SInv
<1>2. Promise' = Promise
  BY <1>1 DEF Promise
<1>. QED  BY <1>1, <1>2

\* The contract's names of the messages.
LEMMA SameMessages ==
    /\ Contract!RestartMsg(TRUE) = RestartMsg(TRUE) /\ Contract!RestartMsg(FALSE) = RestartMsg(FALSE)
    /\ Contract!AuthFailedMsg(TRUE) = AuthFailedMsg(TRUE) /\ Contract!AuthFailedMsg(FALSE) = AuthFailedMsg(FALSE)
    /\ Contract!HaltMsg = HaltMsg /\ Contract!RelayMsg = RelayMsg /\ Contract!AuthPendingMsg = AuthPendingMsg
    /\ \A n : Contract!InfoMsg(n) = InfoMsg(n)
  BY DEF Contract!RestartMsg, RestartMsg, Contract!AuthFailedMsg, AuthFailedMsg, Contract!HaltMsg, HaltMsg,
         Contract!RelayMsg, RelayMsg, Contract!AuthPendingMsg, AuthPendingMsg, Contract!InfoMsg, InfoMsg

\* A message that ends the session is sent by a session that has not ended.
LEMMA EndsTold ==
    ASSUME SInv, NEW r, NEW type \in HaltTypes \ {"RESTART_PASSIVE"}, Halted(r, server, type),
           ~server.halt, server.disconnect_type # "DT_HALT_RESTART", server.primary, Done(r),
           infos' = infos, asked' \in {asked, FALSE},
           toServer' = toServer \/ (toServer > 0 /\ toServer' = toServer - 1)
    PROVE  ServerOK' /\ toClient' \in Seq(Messages) /\ Contract!Final
<1>. DEFINE m == HaltRestartMsg(type)
            keep == type = "RESTART_PSID"
<1>1. /\ Sound(r) /\ Armed(r) /\ r.primary = server.primary /\ r.out = <<m>>
      /\ r.disconnect_type = "DT_HALT_RESTART" /\ r.preserve = (server.preserve /\ keep)
  BY DEF Halted
<1>2. /\ ServerOK' /\ toClient' = toClient \o <<m>> /\ toClient' \in Seq(Messages)
      /\ server'.disconnect_type = "DT_HALT_RESTART" /\ server'.preserve = (server.preserve /\ keep)
      /\ server'.primary = server.primary
  BY <1>1, Finished DEF SInv
<1>3. Promise = [over |-> FALSE, keep |-> server.preserve, gone |-> FALSE]
  BY DEF Promise, SInv, Sound, ServerType
<1>4. Promise' = [over |-> TRUE, keep |-> (server.preserve /\ keep), gone |-> FALSE]
  BY <1>2 DEF Promise, SInv, Sound, ServerType
<1>5. Promise' = [over |-> TRUE, keep |-> Promise.keep /\ keep, gone |-> Promise.gone]
  <2>1. Promise.keep = server.preserve /\ Promise.gone = FALSE
    BY <1>3
  <2>. QED  BY <1>4, <2>1, Zenon
<1>6. Contract!Ends(m, keep)
  <2>1. ~Promise.over /\ ~Promise.gone
    BY <1>3
  <2>. QED  BY <2>1, <1>2, <1>5 DEF Contract!Ends, Contract!Says
<1>7. \/ keep /\ m = RestartMsg(TRUE)
      \/ ~keep /\ m \in {HaltMsg, RestartMsg(FALSE), AuthFailedMsg(FALSE), AuthFailedMsg(TRUE)}
  BY DEF HaltTypes, HaltRestartMsg
<1>8. keep = TRUE \/ keep = FALSE
  OBVIOUS
<1>. HIDE DEF m, keep
<1>9. Contract!Final
  BY <1>6, <1>7, <1>8, SameMessages DEF Contract!Final
<1>. QED  BY <1>2, <1>9

\* push_halt_restart_msg as a handler of its own.
LEMMA HaltTold ==
    ASSUME SInv, NEW r, NEW type \in HaltTypes, Halted(r, server, type), Done(r),
           UNCHANGED <<asked, infos, toServer>>
    PROVE  SInv' /\ ContractStep
<1>1. ASSUME r = server  PROVE  SInv' /\ ContractStep
  <2>1. ServerOK' /\ Promise' = Promise /\ toClient' = toClient
    BY <1>1, NothingTold DEF SInv
  <2>. QED  BY <2>1 DEF SInv, ServerOK, ChannelOK, ContractStep, Contract!pushVars, Contract!channelVars
<1>2. ASSUME r # server  PROVE  /\ ~server.halt /\ server.disconnect_type # "DT_HALT_RESTART"
                                /\ Sound(r) /\ Armed(r) /\ r.primary = server.primary
                                /\ r.out = IF server.primary THEN <<HaltRestartMsg(type)>> ELSE <<>>
  BY <1>2 DEF Halted
<1>3. CASE r # server /\ server.primary /\ type # "RESTART_PASSIVE"
  <2>1. ServerOK' /\ toClient' \in Seq(Messages) /\ Contract!Final
    BY <1>2, <1>3, EndsTold
  <2>. QED  BY <2>1 DEF SInv, ServerOK, ChannelOK, ContractStep, Contract!PushNext
<1>4. CASE r # server /\ server.primary /\ type = "RESTART_PASSIVE"
  <2>1. /\ r.disconnect_type = server.disconnect_type /\ r.preserve = server.preserve
        /\ r.out = <<RestartMsg(TRUE)>>
    BY <1>2, <1>4 DEF Halted, HaltRestartMsg
  <2>2. /\ ServerOK' /\ toClient' = toClient \o <<RestartMsg(TRUE)>> /\ toClient' \in Seq(Messages)
        /\ server'.disconnect_type = server.disconnect_type /\ server'.preserve = server.preserve
        /\ server'.primary = server.primary
    BY <2>1, <1>2, <1>4, Finished DEF SInv
  <2>3. Promise' = Promise /\ ~Promise.over /\ ~Promise.gone
    BY <2>2, <1>2, <1>4 DEF Promise
  <2>4. Contract!Announce
    BY <2>2, <2>3, SameMessages DEF Contract!Announce, Contract!Says
  <2>. QED  BY <2>2, <2>4 DEF SInv, ServerOK, ChannelOK, ContractStep, Contract!PushNext
<1>5. CASE r # server /\ ~server.primary
  <2>1. ServerOK' /\ toClient' = toClient /\ server'.primary = server.primary
    BY <1>2, <1>5, Finished DEF SInv
  <2>2. Promise.gone /\ Promise'.gone
    BY <2>1, <1>5 DEF Promise
  <2>3. Contract!Silent
    BY <2>1, <2>2 DEF Contract!Silent, SInv, ChannelOK
  <2>. QED  BY <2>1, <2>3 DEF SInv, ServerOK, ChannelOK, ContractStep
<1>. QED  BY <1>1, <1>3, <1>4, <1>5

-----------------------------------------------------------------------------
(* The other methods *)

\* r tells a client what s does.
SameTold(r, s) ==
    /\ r.disconnect_type = "DT_HALT_RESTART" <=> s.disconnect_type = "DT_HALT_RESTART"
    /\ r.preserve = s.preserve /\ r.primary = s.primary

\* r has another disconnect_type and disconnect_at than s.
Rescheduled(r, s, d, type) == r = [DisconnectIn(s, d) EXCEPT !.disconnect_type = type]

\* A new disconnect_type and disconnect_at leave the rest alone.
LEMMA DisconnectSet ==
    ASSUME NEW s, Sound(s), NEW d \in Int, d < Infinite,
           NEW type \in DisconnectTypes, NEW r, Rescheduled(r, s, d, type)
    PROVE  /\ Sound(r) /\ r.out = s.out /\ r.preserve = s.preserve /\ r.primary = s.primary
           /\ r.disconnect_type = type
<1>1. r = [s EXCEPT !.disconnect_at = d, !.disconnect_type = type]
  BY DEF DisconnectIn, Rescheduled
<1>2. /\ r \in ServerType /\ r.out = s.out /\ r.preserve = s.preserve /\ r.primary = s.primary
      /\ r.disconnect_type = type /\ r.disconnect_at = d /\ r.halt = s.halt
      /\ r.timer = s.timer /\ r.schedule = s.schedule
  BY <1>1 DEF Sound, ServerType
<1>3. Sound(r)
  BY <1>2, Numbers DEF Sound
<1>. QED  BY <1>2, <1>3

\* schedule_disconnect and schedule_auth_pending_timeout: a client cannot tell.
LEMMA Scheduled ==
    ASSUME NEW s, Sound(s), Armed(s), NEW d \in Delays, NEW k \in KeyTimes
    PROVE  /\ LET r == ScheduleDisconnect(s, d, k)
              IN  Sound(r) /\ Armed(r) /\ r.out = s.out /\ SameTold(r, s)
           /\ LET r == ScheduleAuthPendingTimeout(s, d, k)
              IN  Sound(r) /\ Armed(r) /\ r.out = s.out /\ SameTold(r, s)
<1>0. d \in Int /\ d < Infinite
  BY Numbers
<1>1. ASSUME ~(s.halt \/ s.disconnect_type = "DT_HALT_RESTART")
      PROVE  LET r == SetHousekeepingTimer(DisconnectIn(s, d), k)
             IN  Sound(r) /\ Armed(r) /\ r.out = s.out /\ SameTold(r, s)
  <2>. DEFINE q == DisconnectIn(s, d)
              r == SetHousekeepingTimer(q, k)
  <2>1. q = [s EXCEPT !.disconnect_at = d]
    BY DEF DisconnectIn
  <2>. HIDE DEF q
  <2>2. /\ q \in ServerType /\ q.out = s.out /\ q.preserve = s.preserve /\ q.primary = s.primary
        /\ q.disconnect_type = s.disconnect_type /\ q.disconnect_at = d /\ q.halt = s.halt
        /\ q.timer = s.timer /\ q.schedule = s.schedule
    BY <2>1, <1>0 DEF Sound, ServerType
  <2>3. Sound(q)
    BY <2>2, <1>0, Numbers DEF Sound
  <2>4. Sound(r) /\ Armed(r) /\ SameButTimer(r, q)
    BY <2>3, TimerSet
  <2>. HIDE DEF r
  <2>. QED  BY <2>2, <2>4 DEF SameButTimer, SameTold, r, q
<1>2. ASSUME ~(s.halt \/ s.disconnect_type \in {"DT_RELAY_TRANSITION", "DT_HALT_RESTART"})
      PROVE  LET r == SetHousekeepingTimer([DisconnectIn(s, d) EXCEPT !.disconnect_type = "DT_AUTH_PENDING"], k)
             IN  Sound(r) /\ Armed(r) /\ r.out = s.out /\ SameTold(r, s)
  <2>. DEFINE q == [DisconnectIn(s, d) EXCEPT !.disconnect_type = "DT_AUTH_PENDING"]
              r == SetHousekeepingTimer(q, k)
  <2>1. /\ Sound(q) /\ q.out = s.out /\ q.preserve = s.preserve /\ q.primary = s.primary
        /\ q.disconnect_type = "DT_AUTH_PENDING"
    <3>1. "DT_AUTH_PENDING" \in DisconnectTypes
      BY DEF DisconnectTypes
    <3>2. Rescheduled(q, s, d, "DT_AUTH_PENDING")
      BY DEF Rescheduled
    <3>. HIDE DEF q
    <3>. QED  BY <1>0, <3>1, <3>2, DisconnectSet
  <2>. HIDE DEF q
  <2>2. Sound(r) /\ Armed(r) /\ SameButTimer(r, q)
    BY <2>1, TimerSet
  <2>. HIDE DEF r
  <2>. QED  BY <2>1, <2>2, <1>2 DEF SameButTimer, SameTold, r, q
<1>3. SameTold(s, s)
  BY DEF SameTold
<1>4. LET r == ScheduleDisconnect(s, d, k)
      IN  Sound(r) /\ Armed(r) /\ r.out = s.out /\ SameTold(r, s)
  <2>1. CASE s.halt \/ s.disconnect_type = "DT_HALT_RESTART"
    <3>1. ScheduleDisconnect(s, d, k) = s
      BY <2>1, Zenon DEF ScheduleDisconnect
    <3>. QED  BY <3>1, <1>3, Zenon
  <2>2. CASE ~(s.halt \/ s.disconnect_type = "DT_HALT_RESTART")
    <3>1. ScheduleDisconnect(s, d, k) = SetHousekeepingTimer(DisconnectIn(s, d), k)
      BY <2>2, Zenon DEF ScheduleDisconnect
    <3>. QED  BY <3>1, <2>2, <1>1, Zenon
  <2>. QED  BY <2>1, <2>2
<1>5. LET r == ScheduleAuthPendingTimeout(s, d, k)
      IN  Sound(r) /\ Armed(r) /\ r.out = s.out /\ SameTold(r, s)
  <2>1. CASE s.halt \/ s.disconnect_type \in {"DT_RELAY_TRANSITION", "DT_HALT_RESTART"} \/ d = 0
    <3>1. ScheduleAuthPendingTimeout(s, d, k) = s
      BY <2>1, Zenon DEF ScheduleAuthPendingTimeout
    <3>. QED  BY <3>1, <1>3, Zenon
  <2>2. CASE ~(s.halt \/ s.disconnect_type \in {"DT_RELAY_TRANSITION", "DT_HALT_RESTART"} \/ d = 0)
    <3>1. ScheduleAuthPendingTimeout(s, d, k)
            = SetHousekeepingTimer([DisconnectIn(s, d) EXCEPT !.disconnect_type = "DT_AUTH_PENDING"], k)
      BY <2>2, Zenon DEF ScheduleAuthPendingTimeout
    <3>. QED  BY <3>1, <2>2, <1>2, Zenon
  <2>. QED  BY <2>1, <2>2
<1>. QED  BY <1>4, <1>5

\* Something is sent and the timer set.
LEMMA SentAndSet ==
    ASSUME NEW s, Sound(s), s.out = <<>>, NEW msgs \in Seq(Messages), NEW k \in KeyTimes
    PROVE  LET r == SetHousekeepingTimer(Sent(s, msgs), k)
           IN  /\ Sound(r) /\ Armed(r) /\ r.disconnect_type = s.disconnect_type
               /\ r.preserve = s.preserve /\ r.primary = s.primary
               /\ r.out = IF s.primary THEN msgs ELSE <<>>
<1>. DEFINE q == Sent(s, msgs)
            r == SetHousekeepingTimer(q, k)
<1>1. /\ Sound(q) /\ q.primary = s.primary /\ q.preserve = s.preserve
      /\ q.disconnect_type = s.disconnect_type /\ q.out = IF s.primary THEN msgs ELSE <<>>
  BY SentOut
<1>. HIDE DEF q
<1>2. Sound(r) /\ Armed(r) /\ SameButTimer(r, q)
  BY <1>1, TimerSet
<1>. HIDE DEF r
<1>. QED  BY <1>1, <1>2 DEF SameButTimer, r, q

\* relay sends RELAY at most, and not when a halt is under way.
LEMMA Relayed ==
    ASSUME NEW s, Sound(s), Armed(s), s.out = <<>>, NEW k \in KeyTimes
    PROVE  LET r == Relay(s, k)
           IN  /\ Sound(r) /\ Armed(r) /\ SameTold(r, s)
               /\ \/ r.out = <<>>
                  \/ r.out = <<RelayMsg>> /\ s.primary /\ s.disconnect_type # "DT_HALT_RESTART"
<1>1. CASE s.halt \/ s.disconnect_type = "DT_HALT_RESTART"
  <2>1. Relay(s, k) = s
    BY <1>1, Zenon DEF Relay
  <2>2. SameTold(s, s)
    BY DEF SameTold
  <2>. QED  BY <2>1, <2>2, Zenon
<1>2. CASE ~(s.halt \/ s.disconnect_type = "DT_HALT_RESTART")
  <2>. DEFINE q == IF s.tun /\ s.disconnect_type # "DT_RELAY_TRANSITION"
                     THEN [DisconnectIn(s, RelayDelay) EXCEPT !.disconnect_type = "DT_RELAY_TRANSITION"] ELSE s
              r == SetHousekeepingTimer(Sent(q, <<RelayMsg>>), k)
  <2>1. Relay(s, k) = r
    BY <1>2, Zenon DEF Relay
  <2>2. Sound(q) /\ q.out = <<>> /\ q.preserve = s.preserve /\ q.primary = s.primary
        /\ q.disconnect_type # "DT_HALT_RESTART"
    <3>1. CASE s.tun /\ s.disconnect_type # "DT_RELAY_TRANSITION"
      <4>. DEFINE x == [DisconnectIn(s, RelayDelay) EXCEPT !.disconnect_type = "DT_RELAY_TRANSITION"]
      <4>1. q = x
        BY <3>1, Zenon
      <4>2. /\ Sound(x) /\ x.out = s.out /\ x.preserve = s.preserve /\ x.primary = s.primary
            /\ x.disconnect_type = "DT_RELAY_TRANSITION"
        <5>1. RelayDelay \in Int /\ RelayDelay < Infinite
          BY Numbers
        <5>2. "DT_RELAY_TRANSITION" \in DisconnectTypes
          BY DEF DisconnectTypes
        <5>3. Rescheduled(x, s, RelayDelay, "DT_RELAY_TRANSITION")
          BY DEF Rescheduled
        <5>. HIDE DEF x, q
        <5>. QED  BY <5>1, <5>2, <5>3, DisconnectSet
      <4>. HIDE DEF x, q
      <4>. QED  BY <4>1, <4>2
    <3>2. CASE ~(s.tun /\ s.disconnect_type # "DT_RELAY_TRANSITION")
      <4>1. q = s
        BY <3>2, Zenon
      <4>. HIDE DEF q
      <4>. QED  BY <4>1, <1>2
    <3>. QED  BY <3>1, <3>2
  <2>. HIDE DEF q
  <2>3. <<RelayMsg>> \in Seq(Messages)
    BY DEF Messages
  <2>4. /\ Sound(r) /\ Armed(r) /\ r.disconnect_type = q.disconnect_type
        /\ r.preserve = q.preserve /\ r.primary = q.primary
        /\ r.out = IF q.primary THEN <<RelayMsg>> ELSE <<>>
    BY <2>2, <2>3, SentAndSet
  <2>. HIDE DEF r
  <2>5. Sound(r) /\ Armed(r) /\ SameTold(r, s)
    BY <2>2, <2>4, <1>2 DEF SameTold
  <2>. QED  BY <2>1, <2>2, <2>4, <2>5, <1>2
<1>. QED  BY <1>1, <1>2

\* post_cc_msg sends its message as long as there is a primary key.
LEMMA Posted ==
    ASSUME NEW s, Sound(s), Armed(s), s.out = <<>>, NEW msg \in Messages, NEW k \in KeyTimes
    PROVE  LET r == PostCcMsg(s, msg, k)
           IN  /\ Sound(r) /\ Armed(r) /\ SameTold(r, s)
               /\ r.out = IF s.primary THEN <<msg>> ELSE <<>>
<1>1. CASE s.halt \/ ~s.primary
  <2>1. PostCcMsg(s, msg, k) = s /\ ~s.primary
    BY <1>1 DEF PostCcMsg, Sound
  <2>2. SameTold(s, s)
    BY DEF SameTold
  <2>. QED  BY <2>1, <2>2, Zenon
<1>2. CASE ~(s.halt \/ ~s.primary)
  <2>. DEFINE r == SetHousekeepingTimer(Sent(s, <<msg>>), k)
  <2>1. PostCcMsg(s, msg, k) = r
    BY <1>2, Zenon DEF PostCcMsg
  <2>0. <<msg>> \in Seq(Messages)
    OBVIOUS
  <2>2. /\ Sound(r) /\ Armed(r) /\ r.disconnect_type = s.disconnect_type
        /\ r.preserve = s.preserve /\ r.primary = s.primary
        /\ r.out = IF s.primary THEN <<msg>> ELSE <<>>
    BY <2>0, SentAndSet
  <2>. HIDE DEF r
  <2>. QED  BY <2>1, <2>2 DEF SameTold
<1>. QED  BY <1>1, <1>2

\* stop
LEMMA Stopped ==
    ASSUME NEW s, Sound(s), ~s.halt
    PROVE  LET r == StopServer(s)
           IN  /\ Sound(r) /\ Armed(r) /\ r.out = s.out /\ r.disconnect_type = s.disconnect_type
               /\ r.preserve = s.preserve /\ ~r.primary
<1>. DEFINE late == s.queued \/ s.timer <= 0
            r == StopServer(s)
<1>1. r = [s EXCEPT !.halt = TRUE, !.timer = Off, !.queued = late, !.primary = FALSE, !.tun = FALSE]
  BY DEF StopServer
<1>2. late \in BOOLEAN /\ Off \in Int
  BY Numbers
<1>. HIDE DEF r, late
<1>3. /\ r \in ServerType /\ r.out = s.out /\ r.disconnect_type = s.disconnect_type
      /\ r.preserve = s.preserve /\ ~r.primary /\ r.halt /\ r.timer = Off /\ r.disconnect_at = s.disconnect_at
  BY <1>1, <1>2 DEF Sound, ServerType
<1>4. Sound(r) /\ Armed(r)
  BY <1>3 DEF Sound, Armed
<1>. QED  BY <1>3, <1>4 DEF r

\* push_reply is called with messages of the channel.
LEMMA PushListMessages == \A msgs \in PushLists : msgs \in Seq(Messages)
<1>1. PushReplies \subseteq Messages
  BY DEF Messages
<1>2. PushLists \subseteq Seq(PushReplies)
  BY ChannelAssumption
<1>. HIDE DEF Messages, PushReplies
<1>3. \A q \in Seq(PushReplies) : q \in Seq(Messages)
  BY <1>1
<1>. QED  BY <1>2, <1>3

\* push_reply does nothing, or sends the options, or refuses the client.
LEMMA PushReplied ==
    ASSUME NEW s, Sound(s), Armed(s), s.out = <<>>, NEW msgs \in PushLists, NEW k \in KeyTimes
    PROVE  LET r == PushReply(s, msgs, k)
           IN  \/ r = s
               \/ /\ ~s.halt /\ s.primary /\ s.disconnect_type # "DT_HALT_RESTART"
                  /\ \/ Sound(r) /\ Armed(r) /\ SameTold(r, s) /\ r.out = msgs
                     \/ Halted(r, s, "AUTH_FAILED")
<1>. DEFINE p == IF s.disconnect_type = "DT_AUTH_PENDING"
                   THEN [s EXCEPT !.disconnect_type = "DT_NONE", !.disconnect_at = Infinite] ELSE s
            u == [p EXCEPT !.tun = TRUE]
            o == SetHousekeepingTimer(Sent(u, msgs), k)
            f == PushHaltRestartMsg(p, "AUTH_FAILED", k)
            r == PushReply(s, msgs, k)
<1>1. CASE s.halt \/ s.disconnect_type \in {"DT_RELAY_TRANSITION", "DT_HALT_RESTART"} \/ ~s.primary
  BY <1>1, Zenon DEF PushReply
<1>2. CASE ~(s.halt \/ s.disconnect_type \in {"DT_RELAY_TRANSITION", "DT_HALT_RESTART"} \/ ~s.primary)
  <2>1. r = IF p.tun_factory \/ p.tun THEN o ELSE f
    BY <1>2, Zenon DEF PushReply
  <2>2. /\ Sound(p) /\ p.out = <<>> /\ p.preserve = s.preserve /\ p.primary = s.primary /\ p.halt = s.halt
        /\ p.disconnect_type # "DT_HALT_RESTART"
    <3>1. CASE s.disconnect_type = "DT_AUTH_PENDING"
      <4>0. Infinite \in Int /\ "DT_NONE" \in DisconnectTypes
        BY Numbers DEF DisconnectTypes
      <4>1. p = [s EXCEPT !.disconnect_type = "DT_NONE", !.disconnect_at = Infinite]
        BY <3>1
      <4>. HIDE DEF p
      <4>2. /\ p \in ServerType /\ p.out = <<>> /\ p.preserve = s.preserve /\ p.primary = s.primary
            /\ p.halt = s.halt /\ p.disconnect_type = "DT_NONE" /\ p.disconnect_at = Infinite
            /\ p.timer = s.timer /\ p.schedule = s.schedule
        BY <4>0, <4>1 DEF Sound, ServerType
      <4>. QED  BY <4>2, Numbers DEF Sound
    <3>2. CASE s.disconnect_type # "DT_AUTH_PENDING"
      <4>1. p = s
        BY <3>2
      <4>. HIDE DEF p
      <4>. QED  BY <4>1, <1>2
    <3>. QED  BY <3>1, <3>2
  <2>. HIDE DEF p
  <2>3. /\ Sound(u) /\ u.out = <<>> /\ u.preserve = s.preserve /\ u.primary = s.primary
        /\ u.disconnect_type # "DT_HALT_RESTART"
    <3>1. /\ u \in ServerType /\ u.out = p.out /\ u.preserve = p.preserve /\ u.primary = p.primary
          /\ u.disconnect_type = p.disconnect_type /\ u.halt = p.halt /\ u.disconnect_at = p.disconnect_at
          /\ u.timer = p.timer /\ u.schedule = p.schedule
      BY <2>2 DEF Sound, ServerType
    <3>. QED  BY <3>1, <2>2 DEF Sound
  <2>. HIDE DEF u
  <2>4. Sound(o) /\ Armed(o) /\ SameTold(o, s) /\ o.out = msgs
    <3>1. /\ Sound(o) /\ Armed(o) /\ o.disconnect_type = u.disconnect_type
          /\ o.preserve = u.preserve /\ o.primary = u.primary
          /\ o.out = IF u.primary THEN msgs ELSE <<>>
      BY <2>3, PushListMessages, SentAndSet
    <3>. HIDE DEF o
    <3>. QED  BY <3>1, <2>3, <1>2 DEF SameTold
  <2>5. Halted(f, s, "AUTH_FAILED")
    <3>1. Halted(f, p, "AUTH_FAILED")
      BY <2>2, HaltPushed DEF HaltTypes
    <3>. HIDE DEF f
    <3>. QED  BY <3>1, <2>2, <1>2 DEF Halted
  <2>. HIDE DEF o, f, r
  <2>6. r = o \/ r = f
    BY <2>1
  <2>. QED  BY <2>4, <2>5, <2>6, <1>2 DEF r
<1>. QED  BY <1>1, <1>2

(***************************************************************************)
(* housekeeping_callback does nothing that a client can tell, or stops     *)
(* sending, or refuses the client when its authentication took too long.   *)
(* The timer that has fired need not agree with the schedule yet.          *)
(***************************************************************************)
LEMMA Housekept ==
    ASSUME NEW s, s \in ServerType, s.disconnect_at <= Infinite, s.timer = Off \/ s.timer < Infinite,
           s.halt => ~s.primary, s.out = <<>>, NEW invalid \in BOOLEAN, NEW k \in KeyTimes
    PROVE  LET r == Housekeeping(s, invalid, k)
           IN  \/ s.halt /\ r = s
               \/ /\ Sound(r) /\ Armed(r) /\ r.out = <<>> /\ r.preserve = s.preserve
                  /\ r.disconnect_type = s.disconnect_type /\ (r.primary = s.primary \/ ~r.primary)
               \/ ~s.halt /\ s.disconnect_type # "DT_HALT_RESTART" /\ Halted(r, s, "AUTH_FAILED")
<1>. DEFINE q == [s EXCEPT !.schedule = Off]
            r == Housekeeping(s, invalid, k)
<1>1. CASE s.halt
  BY <1>1, Zenon DEF Housekeeping
<1>2. CASE ~s.halt
  <2>1. /\ q \in ServerType /\ q.schedule = Off /\ q.out = <<>> /\ q.preserve = s.preserve
        /\ q.disconnect_type = s.disconnect_type /\ q.primary = s.primary /\ q.halt = s.halt
        /\ q.disconnect_at = s.disconnect_at /\ q.timer = s.timer
    BY Numbers DEF ServerType
  <2>2. Sound(q)
    BY <2>1 DEF Sound
  <2>3. CASE invalid /\ s.primary
    <3>1. r = StopServer(q)
      BY <1>2, <2>3, Zenon DEF Housekeeping
    <3>. HIDE DEF q
    <3>2. /\ Sound(StopServer(q)) /\ Armed(StopServer(q)) /\ StopServer(q).out = q.out
          /\ StopServer(q).disconnect_type = q.disconnect_type /\ StopServer(q).preserve = q.preserve
          /\ ~StopServer(q).primary
      BY <2>1, <2>2, <1>2, Stopped
    <3>. QED  BY <3>1, <3>2, <2>1
  <2>4. CASE ~(invalid /\ s.primary) /\ s.disconnect_at > 0
    <3>1. r = SetHousekeepingTimer(q, k)
      BY <1>2, <2>4, Zenon DEF Housekeeping
    <3>. HIDE DEF q, r
    <3>2. Sound(r) /\ Armed(r) /\ SameButTimer(r, q)
      BY <2>2, <3>1, TimerSet
    <3>. QED  BY <3>2, <2>1 DEF SameButTimer, r
  <2>5. CASE ~(invalid /\ s.primary) /\ ~(s.disconnect_at > 0)
    <3>1. CASE s.disconnect_type = "DT_RELAY_TRANSITION"
      <4>1. r = [q EXCEPT !.primary = FALSE]
        BY <1>2, <2>5, <3>1, Zenon DEF Housekeeping
      <4>. HIDE DEF q, r
      <4>2. /\ r \in ServerType /\ r.schedule = Off /\ r.out = <<>> /\ r.preserve = s.preserve
            /\ r.disconnect_type = s.disconnect_type /\ ~r.primary /\ r.halt = s.halt
            /\ r.disconnect_at = s.disconnect_at /\ r.timer = s.timer
        BY <4>1, <2>1 DEF ServerType
      <4>3. Sound(r) /\ Armed(r)
        BY <4>2, <3>1 DEF Sound, Armed
      <4>. QED  BY <4>2, <4>3 DEF r
    <3>2. CASE s.disconnect_type = "DT_AUTH_PENDING"
      <4>1. r = PushHaltRestartMsg(q, "AUTH_FAILED", k)
        BY <1>2, <2>5, <3>2, Zenon DEF Housekeeping
      <4>. HIDE DEF q, r
      <4>2. Halted(r, q, "AUTH_FAILED")
        BY <4>1, <2>1, <2>2, HaltPushed DEF HaltTypes
      <4>3. Halted(r, s, "AUTH_FAILED")
        BY <4>2, <2>1, <3>2, <1>2 DEF Halted
      <4>. QED  BY <4>3, <3>2, <1>2 DEF r
    <3>3. CASE s.disconnect_type \notin {"DT_RELAY_TRANSITION", "DT_AUTH_PENDING"}
      <4>1. r = StopServer(q)
        BY <1>2, <2>5, <3>3, Zenon DEF Housekeeping
      <4>. HIDE DEF q
      <4>2. /\ Sound(StopServer(q)) /\ Armed(StopServer(q)) /\ StopServer(q).out = q.out
            /\ StopServer(q).disconnect_type = q.disconnect_type /\ StopServer(q).preserve = q.preserve
            /\ ~StopServer(q).primary
        BY <2>1, <2>2, <1>2, Stopped
      <4>. QED  BY <4>1, <4>2, <2>1
    <3>. QED  BY <3>1, <3>2, <3>3
  <2>. QED  BY <2>3, <2>4, <2>5
<1>. QED  BY <1>1, <1>2

-----------------------------------------------------------------------------
(* The actions *)

\* A handler that ends with r, which the client cannot tell from the session before it.
LEMMA QuietStep ==
    ASSUME SInv, NEW r, Sound(r), Armed(r), Done(r), r.out = <<>>, SameTold(r, server),
           UNCHANGED <<asked, infos, toServer>>
    PROVE  SInv' /\ ContractStep
<1>1. ServerOK' /\ Promise' = Promise /\ toClient' = toClient
  BY NothingTold DEF SameTold
<1>. QED  BY <1>1 DEF SInv, ServerOK, ChannelOK, ContractStep, Contract!pushVars, Contract!channelVars

\* A handler that sends something which does not end the session.
LEMMA SaidStep ==
    ASSUME SInv, NEW r, Sound(r), Armed(r), Done(r), SameTold(r, server), server.primary
    PROVE  /\ ServerOK' /\ toClient' = toClient \o r.out /\ toClient' \in Seq(Messages)
           /\ Promise' = Promise /\ ~Promise.gone
           /\ server.disconnect_type # "DT_HALT_RESTART" => ~Promise.over
<1>1. /\ ServerOK' /\ toClient' = toClient \o r.out /\ toClient' \in Seq(Messages)
      /\ server'.disconnect_type = r.disconnect_type /\ server'.preserve = r.preserve
      /\ server'.primary = r.primary
  BY Finished DEF SInv
<1>2. Promise' = Promise
  BY <1>1 DEF Promise, SameTold
<1>. QED  BY <1>1, <1>2 DEF Promise

\* Each call of the management layer keeps the invariant and the contract.
LEMMA ManCallStep == ASSUME SInv, ManCall  PROVE  SInv' /\ ContractStep
<1>. USE DEF SInv
<1>0. UNCHANGED <<asked, toServer>>
  BY DEF ManCall
<1>k. PICK k \in KeyTimes :
        \/ /\ \/ \E type \in HaltTypes : Done(PushHaltRestartMsg(server, type, k))
              \/ Done(Relay(server, k))
              \/ \E d \in Delays : Done(ScheduleDisconnect(server, d, k))
              \/ \E d \in Delays : Done(ScheduleAuthPendingTimeout(server, d, k))
              \/ Done(PostCcMsg(server, AuthPendingMsg, k))
           /\ infos' = infos
        \/ /\ infos < Len(Infos) /\ infos' = infos + 1
           /\ Done(PostCcMsg(server, InfoMsg(infos'), k))
  BY Zenon DEF ManCall
<1>1. ASSUME NEW type \in HaltTypes, Done(PushHaltRestartMsg(server, type, k)), infos' = infos
      PROVE  SInv' /\ ContractStep
  <2>. DEFINE r == PushHaltRestartMsg(server, type, k)
  <2>1. Halted(r, server, type)
    BY HaltPushed
  <2>. HIDE DEF r, SInv
  <2>. QED  BY <2>1, <1>0, <1>1, HaltTold DEF r
<1>2. ASSUME Done(Relay(server, k)), infos' = infos  PROVE  SInv' /\ ContractStep
  <2>. DEFINE r == Relay(server, k)
  <2>1. /\ Sound(r) /\ Armed(r) /\ SameTold(r, server)
        /\ \/ r.out = <<>>
           \/ r.out = <<RelayMsg>> /\ server.primary /\ server.disconnect_type # "DT_HALT_RESTART"
    BY Relayed
  <2>2. Done(r)
    BY <1>2
  <2>. HIDE DEF r
  <2>3. CASE r.out = <<>>
    BY <2>1, <2>2, <2>3, <1>0, <1>2, QuietStep
  <2>4. CASE r.out # <<>>
    <3>1. /\ ServerOK' /\ toClient' = toClient \o r.out /\ toClient' \in Seq(Messages)
          /\ Promise' = Promise /\ ~Promise.gone /\ ~Promise.over
      BY <2>1, <2>2, <2>4, SaidStep
    <3>2. Contract!Announce
      BY <3>1, <2>1, <2>4, <1>0, <1>2, SameMessages DEF Contract!Announce, Contract!Says
    <3>. QED  BY <3>1, <3>2, <1>0, <1>2 DEF ServerOK, ChannelOK, ContractStep, Contract!PushNext
  <2>. QED  BY <2>3, <2>4
<1>3. ASSUME NEW d \in Delays, infos' = infos,
             Done(ScheduleDisconnect(server, d, k)) \/ Done(ScheduleAuthPendingTimeout(server, d, k))
      PROVE  SInv' /\ ContractStep
  <2>1. PICK r : Sound(r) /\ Armed(r) /\ r.out = server.out /\ SameTold(r, server) /\ Done(r)
    BY <1>3, Scheduled
  <2>. QED  BY <2>1, <1>0, <1>3, QuietStep
<1>4. ASSUME NEW msg \in Messages, Done(PostCcMsg(server, msg, k)), infos' \in infos .. Len(Infos),
             Contract!Says(<<msg>>) /\ Promise' = Promise => Contract!Note
      PROVE  SInv' /\ ContractStep
  <2>. DEFINE r == PostCcMsg(server, msg, k)
  <2>1. /\ Sound(r) /\ Armed(r) /\ SameTold(r, server)
        /\ r.out = IF server.primary THEN <<msg>> ELSE <<>>
    BY Posted
  <2>2. Done(r)
    BY <1>4
  <2>. HIDE DEF r
  <2>3. CASE server.primary
    <3>1. /\ ServerOK' /\ toClient' = toClient \o <<msg>> /\ toClient' \in Seq(Messages)
          /\ Promise' = Promise /\ ~Promise.gone
      BY <2>1, <2>2, <2>3, SaidStep
    <3>2. Contract!Note
      BY <3>1, <2>3, <1>4 DEF Contract!Says
    <3>. QED  BY <3>1, <3>2, <1>0, <1>4 DEF ServerOK, ChannelOK, ContractStep, Contract!PushNext
  <2>4. CASE ~server.primary
    <3>1. ServerOK' /\ Promise' = Promise /\ toClient' = toClient
      BY <2>1, <2>2, <2>4, NothingTold DEF SameTold
    <3>2. Contract!Silent
      BY <3>1, <2>4, <1>0, <1>4 DEF Contract!Silent, Promise
    <3>. QED  BY <3>1, <3>2, <1>0, <1>4 DEF ServerOK, ChannelOK, ContractStep
  <2>. QED  BY <2>3, <2>4
<1>5. ASSUME Done(PostCcMsg(server, AuthPendingMsg, k)), infos' = infos  PROVE  SInv' /\ ContractStep
  <2>1. AuthPendingMsg \in Messages
    BY DEF Messages
  <2>2. infos' \in infos .. Len(Infos)
    BY <1>5 DEF ChannelOK
  <2>3. Contract!Says(<<AuthPendingMsg>>) /\ Promise' = Promise => Contract!Note
    BY <1>0, <1>5, SameMessages DEF Contract!Note
  <2>. QED  BY <2>1, <2>2, <2>3, <1>4, <1>5
<1>6. ASSUME infos < Len(Infos), infos' = infos + 1, Done(PostCcMsg(server, InfoMsg(infos'), k))
      PROVE  SInv' /\ ContractStep
  <2>1. infos' \in infos .. Len(Infos) /\ infos' \in DOMAIN Infos
    BY <1>6, ChannelAssumption DEF ChannelOK
  <2>2. InfoMsg(infos') \in Messages
    BY <2>1 DEF Messages
  <2>3. Contract!Says(<<InfoMsg(infos')>>) /\ Promise' = Promise => Contract!Note
    BY <1>0, <1>6, SameMessages DEF Contract!Note
  <2>. QED  BY <2>1, <2>2, <2>3, <1>4, <1>6
<1>. QED  BY <1>k, <1>1, <1>2, <1>3, <1>5, <1>6, Zenon

\* So does its answer to a PUSH_REQUEST.
LEMMA ManPushReplyStep == ASSUME SInv, ManPushReply  PROVE  SInv' /\ ContractStep
<1>. USE DEF SInv
<1>1. asked /\ asked' = FALSE /\ UNCHANGED <<infos, toServer>>
  BY DEF ManPushReply
<1>2. PICK k \in KeyTimes, msgs \in PushLists : Done(PushReply(server, msgs, k))
  BY DEF ManPushReply
<1>. DEFINE r == PushReply(server, msgs, k)
<1>3. \/ r = server
      \/ /\ ~server.halt /\ server.primary /\ server.disconnect_type # "DT_HALT_RESTART"
         /\ \/ Sound(r) /\ Armed(r) /\ SameTold(r, server) /\ r.out = msgs
            \/ Halted(r, server, "AUTH_FAILED")
  BY PushReplied
<1>4. Done(r)
  BY <1>2
<1>. HIDE DEF r
<1>5. CASE r = server
  <2>1. ServerOK' /\ Promise' = Promise /\ toClient' = toClient
    BY <1>4, <1>5, NothingTold
  <2>2. Contract!Ignore
    BY <2>1, <1>1 DEF Contract!Ignore
  <2>. QED  BY <2>1, <2>2, <1>1 DEF ServerOK, ChannelOK, ContractStep, Contract!PushNext
<1>6. CASE /\ ~server.halt /\ server.primary /\ server.disconnect_type # "DT_HALT_RESTART"
           /\ Sound(r) /\ Armed(r) /\ SameTold(r, server) /\ r.out = msgs
  <2>1. /\ ServerOK' /\ toClient' = toClient \o msgs /\ toClient' \in Seq(Messages)
        /\ Promise' = Promise /\ ~Promise.gone /\ ~Promise.over
    BY <1>4, <1>6, SaidStep
  <2>2. Contract!Answer
    BY <2>1, <1>1 DEF Contract!Answer, Contract!Says
  <2>. QED  BY <2>1, <2>2, <1>1 DEF ServerOK, ChannelOK, ContractStep, Contract!PushNext
<1>7. CASE /\ ~server.halt /\ server.primary /\ server.disconnect_type # "DT_HALT_RESTART"
           /\ Halted(r, server, "AUTH_FAILED")
  <2>1. "AUTH_FAILED" \in HaltTypes \ {"RESTART_PASSIVE"}
    BY DEF HaltTypes
  <2>2. ServerOK' /\ toClient' \in Seq(Messages) /\ Contract!Final
    BY <2>1, <1>1, <1>4, <1>7, EndsTold
  <2>. QED  BY <2>2, <1>1 DEF ServerOK, ChannelOK, ContractStep, Contract!PushNext
<1>. QED  BY <1>3, <1>5, <1>6, <1>7

\* The timer is set once more after push_halt_restart_msg.
LEMMA HaltedAndSet ==
    ASSUME SInv, NEW k \in KeyTimes
    PROVE  LET r == SetHousekeepingTimer(PushHaltRestartMsg(server, "AUTH_FAILED", k), k)
           IN  \/ /\ server.halt \/ server.disconnect_type = "DT_HALT_RESTART"
                  /\ Sound(r) /\ Armed(r) /\ r.out = <<>> /\ SameTold(r, server)
               \/ /\ ~server.halt /\ server.disconnect_type # "DT_HALT_RESTART"
                  /\ Halted(r, server, "AUTH_FAILED")
<1>. DEFINE h == PushHaltRestartMsg(server, "AUTH_FAILED", k)
            r == SetHousekeepingTimer(h, k)
<1>1. Halted(h, server, "AUTH_FAILED")
  BY HaltPushed DEF SInv, HaltTypes
<1>. HIDE DEF h
<1>2. Sound(h)
  BY <1>1 DEF Halted, SInv
<1>3. Sound(r) /\ Armed(r) /\ SameButTimer(r, h)
  BY <1>2, TimerSet
<1>. HIDE DEF r
<1>4. CASE server.halt \/ server.disconnect_type = "DT_HALT_RESTART"
  <2>1. h = server
    BY <1>1, <1>4 DEF Halted
  <2>. QED  BY <2>1, <1>3, <1>4 DEF SameButTimer, SameTold, SInv, r, h
<1>5. CASE ~(server.halt \/ server.disconnect_type = "DT_HALT_RESTART")
  <2>1. Halted(r, server, "AUTH_FAILED")
    BY <1>1, <1>3, <1>5 DEF Halted, SameButTimer
  <2>. QED  BY <2>1, <1>5 DEF r, h
<1>. QED  BY <1>4, <1>5

\* control_recv of a PUSH_REQUEST asks the management layer, or refuses the client.
LEMMA ServerRecvStep == ASSUME SInv, ServerRecv  PROVE  SInv' /\ ContractStep
<1>. USE DEF SInv
<1>1. toServer > 0 /\ toServer' = toServer - 1 /\ infos' = infos /\ toServer' \in Nat
  BY DEF ServerRecv, ChannelOK
<1>2. CASE ~server.primary /\ UNCHANGED <<server, toClient, asked>>
  <2>1. Promise' = Promise
    BY <1>2 DEF Promise
  <2>2. Contract!Ignore
    BY <2>1, <1>1, <1>2 DEF Contract!Ignore
  <2>. QED  BY <2>2, <1>1, <1>2 DEF Sound, Armed, ChannelOK, ContractStep, Contract!PushNext
<1>3. ASSUME NEW k \in KeyTimes, asked' = TRUE, Done(SetHousekeepingTimer(server, k))
      PROVE  SInv' /\ ContractStep
  <2>. DEFINE r == SetHousekeepingTimer(server, k)
  <2>1. Sound(r) /\ Armed(r) /\ SameButTimer(r, server)
    BY TimerSet
  <2>2. Done(r)
    BY <1>3
  <2>. HIDE DEF r
  <2>3. ServerOK' /\ Promise' = Promise /\ toClient' = toClient
    BY <2>1, <2>2, NothingTold DEF SameButTimer
  <2>4. Contract!Ask
    BY <2>3, <1>1, <1>3 DEF Contract!Ask
  <2>. QED  BY <2>3, <2>4, <1>1, <1>3 DEF ServerOK, ChannelOK, ContractStep, Contract!PushNext
<1>4. ASSUME NEW k \in KeyTimes, server.primary, asked' = asked,
             Done(SetHousekeepingTimer(PushHaltRestartMsg(server, "AUTH_FAILED", k), k))
      PROVE  SInv' /\ ContractStep
  <2>. DEFINE r == SetHousekeepingTimer(PushHaltRestartMsg(server, "AUTH_FAILED", k), k)
  <2>1. \/ Sound(r) /\ Armed(r) /\ r.out = <<>> /\ SameTold(r, server)
        \/ /\ ~server.halt /\ server.disconnect_type # "DT_HALT_RESTART"
           /\ Halted(r, server, "AUTH_FAILED")
    BY HaltedAndSet
  <2>2. Done(r)
    BY <1>4
  <2>. HIDE DEF r
  <2>3. CASE Sound(r) /\ Armed(r) /\ r.out = <<>> /\ SameTold(r, server)
    <3>1. ServerOK' /\ Promise' = Promise /\ toClient' = toClient
      BY <2>2, <2>3, NothingTold DEF SameTold
    <3>2. Contract!Ignore
      BY <3>1, <1>1, <1>4 DEF Contract!Ignore
    <3>. QED  BY <3>1, <3>2, <1>1, <1>4 DEF ServerOK, ChannelOK, ContractStep, Contract!PushNext
  <2>4. CASE /\ ~server.halt /\ server.disconnect_type # "DT_HALT_RESTART"
             /\ Halted(r, server, "AUTH_FAILED")
    <3>1. "AUTH_FAILED" \in HaltTypes \ {"RESTART_PASSIVE"}
      BY DEF HaltTypes
    <3>2. ServerOK' /\ toClient' \in Seq(Messages) /\ Contract!Final
      BY <3>1, <2>2, <2>4, <1>1, <1>4, EndsTold
    <3>. QED  BY <3>2, <1>1, <1>4 DEF ServerOK, ChannelOK, ContractStep, Contract!PushNext
  <2>. QED  BY <2>1, <2>3, <2>4
<1>5. \/ ~server.primary /\ UNCHANGED <<server, toClient, asked>>
      \/ /\ server.primary
         /\ \E k \in KeyTimes :
              \/ asked' = TRUE /\ Done(SetHousekeepingTimer(server, k))
              \/ asked' = asked /\ Done(SetHousekeepingTimer(PushHaltRestartMsg(server, "AUTH_FAILED", k), k))
  BY Zenon DEF ServerRecv
<1>. QED  BY <1>2, <1>3, <1>4, <1>5, Zenon

\* A packet that is no request, or a data limit: at most a garbled message is refused.
LEMMA TransportRecvStep ==
    ASSUME SInv, TransportRecv \/ DataLimitNotify  PROVE  SInv' /\ ContractStep
<1>. USE DEF SInv
<1>1. UNCHANGED <<asked, infos, toServer>>
  BY DEF TransportRecv, DataLimitNotify
<1>2. ASSUME NEW k \in KeyTimes, Done(SetHousekeepingTimer(server, k))  PROVE  SInv' /\ ContractStep
  <2>. DEFINE r == SetHousekeepingTimer(server, k)
  <2>1. Sound(r) /\ Armed(r) /\ SameButTimer(r, server)
    BY TimerSet
  <2>2. Done(r)
    BY <1>2
  <2>. HIDE DEF r
  <2>. QED  BY <2>1, <2>2, <1>1, QuietStep DEF SameButTimer, SameTold
<1>3. ASSUME NEW k \in KeyTimes,
             Done(SetHousekeepingTimer(PushHaltRestartMsg(server, "AUTH_FAILED", k), k))
      PROVE  SInv' /\ ContractStep
  <2>. DEFINE r == SetHousekeepingTimer(PushHaltRestartMsg(server, "AUTH_FAILED", k), k)
  <2>1. \/ Sound(r) /\ Armed(r) /\ r.out = <<>> /\ SameTold(r, server)
        \/ Halted(r, server, "AUTH_FAILED")
    BY HaltedAndSet
  <2>2. Done(r) /\ "AUTH_FAILED" \in HaltTypes
    BY <1>3 DEF HaltTypes
  <2>. HIDE DEF r, SInv
  <2>. QED  BY <2>1, <2>2, <1>1, QuietStep, HaltTold
<1>4. \E k \in KeyTimes :
        \/ Done(SetHousekeepingTimer(server, k))
        \/ Done(SetHousekeepingTimer(PushHaltRestartMsg(server, "AUTH_FAILED", k), k))
  BY Zenon DEF TransportRecv, DataLimitNotify
<1>. QED  BY <1>2, <1>3, <1>4, Zenon

\* The session sends nothing any more.
LEMMA LeaveStep ==
    ASSUME SInv, NEW r, Sound(r), Armed(r), Done(r), r.out = <<>>, ~r.primary,
           r.disconnect_type = server.disconnect_type, r.preserve = server.preserve,
           UNCHANGED <<asked, infos, toServer>>
    PROVE  SInv' /\ ContractStep
<1>1. /\ ServerOK' /\ toClient' = toClient
      /\ server'.disconnect_type = server.disconnect_type /\ server'.preserve = server.preserve
      /\ ~server'.primary
  BY Finished DEF SInv
<1>2. Promise' = [over |-> Promise.over, keep |-> Promise.keep, gone |-> TRUE]
  BY <1>1 DEF Promise
<1>3. Contract!Leave
  BY <1>1, <1>2 DEF Contract!Leave, Contract!channelVars
<1>. QED  BY <1>1, <1>3 DEF SInv, ServerOK, ChannelOK, ContractStep, Contract!PushNext

\* The timer, in time or stale, keeps the invariant and the contract.
LEMMA HousekeepingStep == ASSUME SInv, HousekeepingCallback  PROVE  SInv' /\ ContractStep
<1>. USE DEF SInv
<1>1. UNCHANGED <<asked, infos, toServer>>
  BY DEF HousekeepingCallback
<1>2. PICK k \in KeyTimes, invalid \in BOOLEAN, stale \in BOOLEAN :
        Done(Housekeeping(IF stale THEN [server EXCEPT !.queued = FALSE] ELSE [server EXCEPT !.timer = Off],
                          invalid, k))
  BY Zenon DEF HousekeepingCallback
<1>. DEFINE s == IF stale THEN [server EXCEPT !.queued = FALSE] ELSE [server EXCEPT !.timer = Off]
            r == Housekeeping(s, invalid, k)
<1>3. Done(r)
  BY <1>2
<1>4. /\ s \in ServerType /\ s.disconnect_at = server.disconnect_at /\ (s.timer = Off \/ s.timer = server.timer)
      /\ s.halt = server.halt /\ s.primary = server.primary /\ s.out = <<>>
      /\ s.disconnect_type = server.disconnect_type /\ s.preserve = server.preserve
  <2>1. CASE stale
    <3>1. s = [server EXCEPT !.queued = FALSE]
      BY <2>1
    <3>. HIDE DEF s
    <3>. QED  BY <3>1 DEF Sound, ServerType
  <2>2. CASE ~stale
    <3>1. s = [server EXCEPT !.timer = Off]
      BY <2>2
    <3>. HIDE DEF s
    <3>. QED  BY <3>1, Numbers DEF Sound, ServerType
  <2>. QED  BY <2>1, <2>2
<1>. HIDE DEF s
<1>5. /\ s.disconnect_at <= Infinite /\ (s.timer = Off \/ s.timer < Infinite) /\ (s.halt => ~s.primary)
  BY <1>4 DEF Sound
<1>6. \/ s.halt /\ r = s
      \/ /\ Sound(r) /\ Armed(r) /\ r.out = <<>> /\ r.preserve = s.preserve
         /\ r.disconnect_type = s.disconnect_type /\ (r.primary = s.primary \/ ~r.primary)
      \/ ~s.halt /\ s.disconnect_type # "DT_HALT_RESTART" /\ Halted(r, s, "AUTH_FAILED")
  BY <1>4, <1>5, Housekept
<1>. HIDE DEF r
<1>7. CASE s.halt /\ r = s
  <2>1. Sound(r) /\ Armed(r) /\ SameTold(r, server) /\ r.out = <<>>
    BY <1>4, <1>5, <1>7 DEF Sound, Armed, SameTold
  <2>. QED  BY <2>1, <1>1, <1>3, QuietStep
<1>8. CASE /\ Sound(r) /\ Armed(r) /\ r.out = <<>> /\ r.preserve = s.preserve
           /\ r.disconnect_type = s.disconnect_type /\ (r.primary = s.primary \/ ~r.primary)
  <2>1. CASE r.primary = s.primary
    BY <2>1, <1>1, <1>3, <1>4, <1>8, QuietStep DEF SameTold
  <2>2. CASE ~r.primary
    BY <2>2, <1>1, <1>3, <1>4, <1>8, LeaveStep
  <2>. QED  BY <2>1, <2>2, <1>8
<1>9. CASE ~s.halt /\ s.disconnect_type # "DT_HALT_RESTART" /\ Halted(r, s, "AUTH_FAILED")
  <2>1. Halted(r, server, "AUTH_FAILED") /\ "AUTH_FAILED" \in HaltTypes
    BY <1>4, <1>9 DEF Halted, HaltTypes
  <2>. HIDE DEF SInv
  <2>. QED  BY <2>1, <1>1, <1>3, HaltTold
<1>. QED  BY <1>6, <1>7, <1>8, <1>9

\* stop by the transport is a Leave of the contract.
LEMMA TransportStopsStep == ASSUME SInv, TransportStops  PROVE  SInv' /\ ContractStep
<1>. DEFINE r == StopServer(server)
<1>1. ~server.halt /\ Done(r) /\ UNCHANGED <<asked, infos, toServer>>
  BY DEF TransportStops
<1>2. /\ Sound(r) /\ Armed(r) /\ r.out = <<>> /\ r.disconnect_type = server.disconnect_type
      /\ r.preserve = server.preserve /\ ~r.primary
  BY <1>1, Stopped DEF SInv
<1>. HIDE DEF r
<1>. QED  BY <1>1, <1>2, LeaveStep

\* Time takes the timer and disconnect_at along together.
LEMMA TickStep == ASSUME SInv, Tick  PROVE  SInv' /\ ContractStep
<1>. DEFINE at == Aged(server.disconnect_at)
            tm == Aged(server.timer)
            sc == Aged(server.schedule)
<1>1. /\ server' = [server EXCEPT !.disconnect_at = at, !.timer = tm, !.schedule = sc]
      /\ ~server.halt /\ server.timer > -MaxLate /\ UNCHANGED channelVars
  BY DEF Tick, channelVars
<1>2. server.disconnect_at \in Int /\ server.timer \in Int /\ server.schedule \in Int /\ server \in ServerType
  BY DEF SInv, Sound, ServerType
<1>3. /\ at \in Int /\ tm \in Int /\ sc \in Int /\ at <= Infinite /\ (tm = Off \/ tm < Infinite)
      /\ sc = Off \/ sc = tm
  <2>1. /\ server.disconnect_at <= Infinite /\ (server.timer = Off \/ server.timer < Infinite)
        /\ server.schedule = Off \/ server.schedule = server.timer
    BY <1>1 DEF SInv, Sound
  <2>2. at \in Int /\ at <= Infinite
    BY <2>1, <1>2, Numbers DEF Aged
  <2>3. tm \in Int /\ (tm = Off \/ tm < Infinite)
    BY <2>1, <1>2, Numbers DEF Aged
  <2>4. sc \in Int /\ (sc = Off \/ sc = tm)
    BY <2>1, <1>2, Numbers DEF Aged
  <2>. QED  BY <2>2, <2>3, <2>4
<1>4. ASSUME at < Infinite, server.disconnect_type = "DT_RELAY_TRANSITION" => server.primary
      PROVE  tm # Off /\ tm <= Later(at + Pre, 0)
  <2>1. server.disconnect_at < Infinite
    BY <1>2, <1>4, Numbers DEF Aged
  <2>2. server.timer # Off /\ server.timer <= Later(server.disconnect_at + Pre, 0) /\ server.timer < Infinite
    BY <2>1, <1>1, <1>4 DEF SInv, Sound, Armed
  <2>3. tm = server.timer - 1 /\ at \in {server.disconnect_at, server.disconnect_at - 1}
    BY <2>1, <2>2, <1>1, <1>2, Numbers DEF Aged
  <2>. QED  BY <2>2, <2>3, <1>2, Numbers DEF Later
<1>. HIDE DEF at, tm, sc
<1>5. /\ server' \in ServerType /\ server'.disconnect_at = at /\ server'.timer = tm /\ server'.schedule = sc
      /\ server'.halt = server.halt /\ server'.primary = server.primary /\ server'.out = server.out
      /\ server'.disconnect_type = server.disconnect_type /\ server'.preserve = server.preserve
  BY <1>1, <1>2, <1>3 DEF ServerType
<1>6. Sound(server') /\ Armed(server') /\ server'.out = <<>>
  BY <1>3, <1>4, <1>5 DEF SInv, Sound, Armed
<1>7. Promise' = Promise
  BY <1>5 DEF Promise
<1>. QED  BY <1>1, <1>6, <1>7 DEF SInv, Sound, Armed, ChannelOK, channelVars, ContractStep,
                                  Contract!pushVars, Contract!channelVars

\* The client moves the channel and nothing else.
LEMMA AnyClientStep == ASSUME SInv, AnyClient  PROVE  SInv' /\ ContractStep
<1>1. UNCHANGED <<server, asked, infos>> /\ Promise' = Promise
  BY DEF AnyClient, Promise
<1>2. CASE toServer' = toServer + 1 /\ toClient' = toClient
  <2>1. Contract!Channel
    BY <1>1, <1>2 DEF Contract!Channel
  <2>. QED  BY <2>1, <1>1, <1>2 DEF SInv, Sound, Armed, ChannelOK, ContractStep
<1>3. CASE toClient # <<>> /\ toClient' = <<>> /\ toServer' = toServer
  <2>1. toClient \in Seq(Messages) /\ Len(toClient) \in 1 .. Len(toClient)
    BY <1>3 DEF SInv, ChannelOK
  <2>2. SubSeq(toClient, Len(toClient) + 1, Len(toClient)) = <<>>
    BY <2>1
  <2>3. Contract!Channel
    BY <2>1, <2>2, <1>1, <1>3 DEF Contract!Channel
  <2>. QED  BY <2>3, <1>1, <1>3 DEF SInv, Sound, Armed, ChannelOK, ContractStep
<1>. QED  BY <1>2, <1>3 DEF AnyClient

-----------------------------------------------------------------------------
(* The theorems *)

\* The first state of a session, and of the contract.
LEMMA InitOK == ServerInit => SInv /\ Contract!PushInit
<1>. SUFFICES ASSUME ServerInit  PROVE  SInv /\ Contract!PushInit
  OBVIOUS
<1>1. PICK f \in Factories : server = NewServer(f.man, f.tun)
  BY DEF ServerInit
<1>2. f.man \in BOOLEAN /\ f.tun \in BOOLEAN
  BY ServerAssumption
<1>3. server \in ServerType
  BY <1>1, <1>2, Numbers DEF NewServer, ServerType, DisconnectTypes
<1>4. /\ server.disconnect_at = Infinite /\ server.timer = Off /\ server.schedule = Off /\ ~server.halt
      /\ server.out = <<>> /\ server.disconnect_type = "DT_NONE" /\ server.preserve = TRUE /\ server.primary = TRUE
  BY <1>1 DEF NewServer
<1>5. Sound(server) /\ Armed(server)
  BY <1>3, <1>4, Numbers DEF Sound, Armed
<1>6. ChannelOK
  <2>1. 0 \in 0 .. Len(Infos) /\ <<>> \in Seq(Messages)
    BY ChannelAssumption
  <2>. QED  BY <2>1 DEF ServerInit, ChannelOK
<1>7. Promise = [over |-> FALSE, keep |-> TRUE, gone |-> FALSE]
  BY <1>4 DEF Promise
<1>. QED  BY <1>4, <1>5, <1>6, <1>7 DEF SInv, Contract!PushInit, ServerInit

\* Every step keeps the invariant, and is a step of the contract or a stutter.
LEMMA NextOK == SInv /\ [ServerNext]_serverVars => SInv' /\ ContractStep
<1>. SUFFICES ASSUME SInv, [ServerNext]_serverVars  PROVE  SInv' /\ ContractStep
  OBVIOUS
<1>1. CASE ServerNext
  BY <1>1, AnyClientStep, ManCallStep, ManPushReplyStep, ServerRecvStep, TransportRecvStep,
     HousekeepingStep, TransportStopsStep, TickStep, Zenon DEF ServerNext
<1>2. CASE UNCHANGED serverVars
  <2>1. UNCHANGED <<server, toClient, toServer, asked, infos>> /\ Promise' = Promise
    BY <1>2 DEF serverVars, channelVars, Promise
  <2>. QED  BY <2>1 DEF SInv, Sound, Armed, ChannelOK, ContractStep, Contract!pushVars, Contract!channelVars
<1>. QED  BY <1>1, <1>2

\* The inductive invariant holds: the schedule agrees with the timer, and what is to end the session is armed.
THEOREM Inductive == ServerSpec => []SInv
<1>1. ServerInit => SInv
  BY InitOK
<1>2. SInv /\ [ServerNext]_serverVars => SInv'
  BY NextOK
<1>. QED  BY <1>1, <1>2, PTL DEF ServerSpec

(***************************************************************************)
(* As long as disconnect_at is set, set_housekeeping_timer has the timer   *)
(* run, later than it by no more than CoarseTime allows.                   *)
(***************************************************************************)
THEOREM DisconnectIsArmed == ServerSpec => []DisconnectArmed
<1>1. SInv => DisconnectArmed
  BY Zenon DEF SInv, Armed, DisconnectArmed
<1>. QED  BY <1>1, Inductive, PTL

(***************************************************************************)
(* Every session keeps the contract of PushServer, on which Session        *)
(* relies for the client.                                                  *)
(***************************************************************************)
THEOREM ContractKept == ServerSpec => ContractSpec
<1>1. ServerInit => Contract!PushInit
  BY InitOK
<1>2. SInv /\ [ServerNext]_serverVars
        => [Contract!PushNext \/ Contract!Silent \/ Contract!Channel]_Contract!pushVars
  BY NextOK DEF ContractStep
<1>. QED  BY <1>1, <1>2, Inductive, PTL DEF ServerSpec, ContractSpec, Contract!PushSpec

=============================================================================
