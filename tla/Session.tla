------------------------------ MODULE Session ------------------------------
(***************************************************************************)
(* One client of this program and its server, each a process with its own  *)
(* loop, and other programs that use the same server.  Between them ENet   *)
(* delivers reliable packets in order until a connection breaks; the two   *)
(* ends learn of that one after the other.                                 *)
(***************************************************************************)
EXTENDS ServerNet

CONSTANTS Address, MaxArrivals, MaxConnects \* of ClientNet

VARIABLES mIsConnected, mCurrentStage, mInternalHost, mInternalPeer, clientPc,
          link, incoming, outgoing, answer, established, heard, connects, arrivals,
          mRunning,\* the client's process is in the loop of run()
          mySlot,  \* the server's slot of the client's connection, or NULL
          toClient \* replies on their way to the client

Here == INSTANCE ClientNet

hereVars == <<mIsConnected, mCurrentStage, mInternalHost, mInternalPeer, clientPc,
              link, incoming, outgoing, answer, established, heard, connects, arrivals>>
sessionVars == <<serverVars, hereVars, mRunning, mySlot, toClient>>

SessionInit ==
    /\ ServerInit /\ Here!ClientInit
    /\ mRunning = FALSE /\ mySlot = NULL /\ toClient = 0

-----------------------------------------------------------------------------
(* The client's process                                                    *)

\* The ticks of the client, with the handler an exception leads to.
ClientTicks ==
    /\ mRunning
    /\ Here!UpdateLoop \/ (clientPc = "catch" /\ Here!Disconnect)
    /\ UNCHANGED <<serverVars, mRunning, mySlot, toClient>>

\* run() connects before its loop.
ClientConnects ==
    /\ Here!ConnectCall
    /\ UNCHANGED <<serverVars, mRunning, mySlot, toClient>>

\* run() then returns 1; the loop is not entered.
NoAnswer ==
    /\ Here!ConnectFails
    /\ UNCHANGED <<serverVars, mRunning, mySlot, toClient>>

\* The loop ends with disconnect().
LeaveLoop ==
    /\ mRunning /\ clientPc = "idle" /\ mRunning' = FALSE
    /\ Here!Disconnect
    /\ UNCHANGED <<serverVars, mySlot, toClient>>

\* The destructor of the engine.
ClientQuits ==
    /\ ~mRunning /\ answer # "none"
    /\ Here!Destroy
    /\ UNCHANGED <<serverVars, mRunning, mySlot, toClient>>

-----------------------------------------------------------------------------
(* The server's process                                                    *)

RepliesSent(p) == IF p = NULL THEN 0 ELSE replies'[p] - replies[p]

ServerTicks ==
    /\ ServerStep
    /\ toClient' = toClient + RepliesSent(mySlot)
    /\ UNCHANGED <<hereVars, mRunning, mySlot>>

ServerStops == stop /\ UNCHANGED <<hereVars, mRunning, mySlot, toClient>>

\* The other programs leave the last packet of the bound to the client.
OthersAct ==
    /\ \E p \in Peer \ {mySlot} :
          \/ PeerConnects(p) \/ PeerLost(p)
          \/ \E payload \in Payload :
                packets + 1 < MaxPackets /\ PeerSends(p, payload)
    /\ UNCHANGED <<hereVars, mRunning, mySlot, toClient>>

-----------------------------------------------------------------------------
(* ENet between the two                                                    *)

Established ==
    /\ Here!ConnectSucceeds
    /\ \E p \in Peer : PeerConnects(p) /\ mySlot' = p
    /\ mRunning' = TRUE /\ toClient' = 0

HandshakeArrives ==
    /\ mySlot # NULL
    /\ Here!OutgoingDelivered /\ PeerSends(mySlot, "handshake")
    /\ UNCHANGED <<mRunning, mySlot, toClient>>

ReplyArrives ==
    /\ toClient > 0 /\ toClient' = toClient - 1
    /\ Here!Arrives("handshake")
    /\ UNCHANGED <<serverVars, mRunning, mySlot>>

\* Each end can lose the other at any time.
ServerLosesClient ==
    /\ mySlot # NULL /\ PeerLost(mySlot) /\ mySlot' = NULL
    /\ UNCHANGED <<hereVars, mRunning, toClient>>

ClientLosesServer ==
    /\ Here!RemoteGone /\ toClient' = 0
    /\ UNCHANGED <<serverVars, mRunning, mySlot>>

Transport == HandshakeArrives \/ ReplyArrives
Timeouts ==
    \/ link # "up" /\ ServerLosesClient
    \/ mySlot = NULL /\ ClientLosesServer
Failures == NoAnswer \/ ServerLosesClient \/ ClientLosesServer

SessionNext ==
    \/ ClientTicks \/ ClientConnects \/ LeaveLoop \/ ClientQuits \/ ServerTicks \/ ServerStops \/ OthersAct
    \/ Established \/ Transport \/ Failures

SessionSpec == SessionInit /\ [][SessionNext]_sessionVars

\* Both loops go on, ENet repeats a reliable packet until it arrives or gives
\* the connection up, and notices when the other end is gone.
FairSessionSpec ==
    /\ SessionSpec
    /\ WF_sessionVars(ClientTicks) /\ WF_sessionVars(ServerTicks)
    /\ WF_sessionVars(HandshakeArrives) /\ WF_sessionVars(ReplyArrives)
    /\ WF_sessionVars(Timeouts)

-----------------------------------------------------------------------------
(* Properties                                                              *)

\* There is one handshake in a session: it is on its way to the server, waits
\* there, comes back as the reply or was heard.  No retry, exception over
\* another client's packet or reuse of a slot doubles or drops it while both
\* ends have the connection.
OneHandshake ==
    mySlot # NULL /\ link = "up" =>
        1 = outgoing + Waiting(mySlot) + toClient + Len(incoming)
              + (IF heard THEN 1 ELSE 0)

\* The stage says that the server has answered this client, and what other
\* programs send to the server never makes the client's loop throw.
StageMeansAnswered ==
    /\ mCurrentStage = 1 /\ mySlot # NULL => replies[mySlot] = 1
    /\ clientPc # "catch"

\* A connected client reaches stage 1 unless the connection breaks, its loop
\* ends or the server is stopped, although other programs can make the server
\* throw in every tick.
ReachesStageOne ==
    link = "up" ~> (mCurrentStage = 1 \/ link # "up" \/ ~mRunning \/ ~mIsRunning)

\* A server does not keep clients that are gone: when the client's process has
\* left, its object is deleted in the end, by a timeout as no disconnection is
\* ever sent.
GoneClientIsDeleted ==
    clientPc = "gone" ~>
        (~mIsRunning \/ \A p \in Peer : peerState[p] # "zombie" /\ p # mySlot)

\* The session implements the admission of one client: the question and its
\* answer go their way once, are lost only with the connection, and nothing
\* else lets the client in (OutgoingClientSingleton.cpp:58-81,
\* ServerSingleton.cpp:61-90).  No two cases of Place hold together.
Held == IF mySlot = NULL THEN 0 ELSE Waiting(mySlot)
Place ==
    CASE heard -> "heard"
      [] incoming # <<>> -> "atClient"
      [] toClient > 0 -> "toClient"
      [] Held > 0 -> "atServer"
      [] outgoing > 0 -> "toServer"
      [] OTHER -> IF established = 0 THEN "none" ELSE "lost"
Admitting == INSTANCE Admission WITH
    place <- Place, joined <- mySlot # NULL /\ link = "up", stage <- mCurrentStage
ImplementsAdmission == Admitting!AdmissionSpec
=============================================================================
