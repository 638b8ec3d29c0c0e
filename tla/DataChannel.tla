---------------------------- MODULE DataChannel ----------------------------
(***************************************************************************)
(* The two accounts that a key of the data channel keeps of its packets:   *)
(* their ids (PacketId) and their bytes (DataLimit).  They share nothing,  *)
(* so the steps of one are followed while the other is at rest.            *)
(***************************************************************************)
EXTENDS PacketId, DataLimit

dataVars == <<vars, limitVars>>

DataInit == Init /\ LimitInit

DataNext ==
    \/ LimitInit /\ Next /\ UNCHANGED limitVars
    \/ Init /\ LimitNext /\ UNCHANGED vars

DataSpec == DataInit /\ [][DataNext]_dataVars

=============================================================================
