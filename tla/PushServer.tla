---------------------------- MODULE PushServer ----------------------------
(***************************************************************************)
(* What a client may expect of a server: an abstraction of ServerSession   *)
(* that leaves out times, timers and the order of the management layer's   *)
(* calls.  After a message by which it ends the session neither another    *)
(* one nor options follow, as they may after a restart it only announces;  *)
(* keep says that the server will still know the session id of the client  *)
(* when it comes back.                                                     *)
(***************************************************************************)
EXTENDS ControlMessages

VARIABLE push   \* over: it has ended the session; keep; gone: it sends nothing more

pushVars == <<push, channelVars>>

PushInit ==
    /\ push = [over |-> FALSE, keep |-> TRUE, gone |-> FALSE]
    /\ toClient = <<>> /\ toServer = 0 /\ asked = FALSE /\ infos = 0

Says(msgs) == ~push.gone /\ toClient' = toClient \o msgs

\* A message that ends the session, and whether it lets the client keep its session id.
Ends(m, keep) ==
    /\ ~push.over /\ Says(<<m>>)
    /\ push' = [over |-> TRUE, keep |-> push.keep /\ keep, gone |-> push.gone]
    /\ asked' \in {asked, FALSE} /\ infos' = infos
    /\ toServer' = toServer \/ (toServer > 0 /\ toServer' = toServer - 1)

Final ==
    \/ Ends(RestartMsg(TRUE), TRUE)
    \/ \E m \in {HaltMsg, RestartMsg(FALSE), AuthFailedMsg(FALSE), AuthFailedMsg(TRUE)} : Ends(m, FALSE)

\* The options, in answer to a request.
Answer ==
    /\ asked /\ ~push.over
    /\ \E msgs \in PushLists : Says(msgs)
    /\ asked' = FALSE
    /\ UNCHANGED <<push, toServer, infos>>

\* A restart that is only announced, or a relay.
Announce ==
    /\ ~push.over
    /\ \E m \in {RestartMsg(TRUE), RelayMsg} : Says(<<m>>)
    /\ UNCHANGED <<push, toServer, asked, infos>>

Note ==
    /\ \/ Says(<<AuthPendingMsg>>) /\ infos' = infos
       \/ infos < Len(Infos) /\ infos' = infos + 1 /\ Says(<<InfoMsg(infos')>>)
    /\ UNCHANGED <<push, toServer, asked>>

\* A request comes.
Ask ==
    /\ toServer > 0 /\ toServer' = toServer - 1 /\ asked' = TRUE
    /\ UNCHANGED <<push, toClient, infos>>

\* One is not heard, or left without an answer.
Ignore ==
    /\ \/ toServer > 0 /\ toServer' = toServer - 1 /\ asked' = asked
       \/ toServer' = toServer /\ asked /\ asked' = FALSE
    /\ UNCHANGED <<push, toClient, infos>>

Leave == push' = [over |-> push.over, keep |-> push.keep, gone |-> TRUE] /\ UNCHANGED channelVars

\* It is gone: nothing it does is seen.
Silent ==
    /\ push.gone /\ push'.gone
    /\ infos' \in infos .. Len(Infos) /\ UNCHANGED <<toClient, toServer, asked>>

PushNext == Final \/ Answer \/ Announce \/ Note \/ Ask \/ Ignore \/ Leave

\* The client's side of the channel.
Channel ==
    /\ \/ toServer' = toServer + 1 /\ toClient' = toClient
       \/ toServer' = toServer /\ \E n \in 1 .. Len(toClient) : toClient' = SubSeq(toClient, n + 1, Len(toClient))
    /\ UNCHANGED <<push, asked, infos>>

PushSpec == PushInit /\ [][PushNext \/ Silent \/ Channel]_pushVars

=============================================================================
