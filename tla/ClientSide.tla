----------------------------- MODULE ClientSide -----------------------------
(***************************************************************************)
(* The parts of the program that a client runs next to its main loop: the  *)
(* packet it exchanges, its connection and the events it schedules.  They  *)
(* share no state, so a behaviour uses one of them, and the others stay as *)
(* they are at the start.  Session and TickLoop compose them with others.  *)
(***************************************************************************)
EXTENDS HandShakePacket, ClientNet, Scheduler

VARIABLE using  \* the part of this behaviour

sideVars == <<using, packetVars, clientVars, schedVars>>

SideInit ==
    /\ using \in {"HandShake", "OutgoingClient", "Scheduler"}
    /\ PacketInit /\ ClientInit /\ SchedInit

SideNext ==
    /\ UNCHANGED using
    /\ using # "HandShake" => UNCHANGED packetVars
    /\ using # "OutgoingClient" => UNCHANGED clientVars
    /\ using # "Scheduler" => UNCHANGED schedVars
    /\ \/ using = "HandShake" /\ PacketNext
       \/ using = "OutgoingClient" /\ ClientNext
       \/ using = "Scheduler" /\ SchedNext

SideSpec == SideInit /\ [][SideNext]_sideVars
=============================================================================
