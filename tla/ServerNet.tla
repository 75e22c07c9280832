----------------------------- MODULE ServerNet -----------------------------
(***************************************************************************)
(* The server's side of the network: ServerBase::update serves the events  *)
(* of ENet, Game::ServerSingleton answers handshakes, and the handler of   *)
(* CoreSingleton::run catches what a bad packet makes them throw.  One     *)
(* IncomingClientBase object stands for each connected peer; ENet's peer   *)
(* slot points to the object, the object to the slot.                      *)
(*                                                                         *)
(* ENet is external.  What the code relies on: a peer's CONNECT event      *)
(* comes first and its DISCONNECT event last; a peer that goes before its  *)
(* CONNECT event was taken has no event at all; losing a peer drops what   *)
(* it sent and was not received yet; and a slot's data pointer is left as  *)
(* it is when the slot is freed and taken again.                           *)
(***************************************************************************)
EXTENDS Naturals, Sequences, FiniteSets

CONSTANTS Peer,           \* ENet's peer slots (32 in the program)
          Client,         \* addresses an IncomingClientBase can have
          NULL,           \* the null pointer
          MaxConnections, \* bound on the connections made to the server
          MaxPackets      \* bound on the packets sent to it

ASSUME ServerNetAssumption ==
    /\ NULL \notin Peer \cup Client
    /\ MaxConnections \in Nat /\ MaxPackets \in Nat

\* What arrives: a complete handshake, a packet of another type, or bytes the
\* unpacking of HandShakePacket runs out of.
Payload == {"handshake", "unknown", "short"}

VARIABLES mIsRunning,
          mConnectedClientSet,
          mLastPacketSender,
          alive,          \* the IncomingClientBase objects that exist
          mInternalClient,\* per object, the peer slot it was made for
          peerData,       \* per peer slot, ENetPeer::data
          serverPc,       \* "tick", "service", "catch" or "crashed"
          peerState,      \* per peer slot, ENet's state of it
          inbox,          \* per peer slot, the packets not received yet
          replies,        \* per peer slot, handshakes sent to this connection
          asked,          \* history: handshakes this connection sent
          connections, packets \* the bounded counters

clientVars == <<mConnectedClientSet, alive, mInternalClient, peerData>>
peerVars == <<peerState, inbox, asked, connections, packets>>
serverVars == <<mIsRunning, clientVars, mLastPacketSender, serverPc, peerVars, replies>>

ServerInit ==
    /\ mIsRunning = TRUE /\ serverPc = "tick"
    /\ mConnectedClientSet = {} /\ alive = {} /\ mLastPacketSender = NULL
    /\ mInternalClient = [c \in Client |-> NULL]
    /\ peerData = [p \in Peer |-> NULL]
    /\ peerState = [p \in Peer |-> "free"] /\ inbox = [p \in Peer |-> <<>>]
    /\ replies = [p \in Peer |-> 0] /\ asked = [p \in Peer |-> 0]
    /\ connections = 0 /\ packets = 0

-----------------------------------------------------------------------------
(* The other programs and the network                                      *)

Reachable(p) == peerState[p] \in {"connecting", "connected"}

PeerConnects(p) ==
    /\ peerState[p] = "free" /\ connections < MaxConnections
    /\ peerState' = [peerState EXCEPT ![p] = "connecting"]
    /\ connections' = connections + 1
    /\ asked' = [asked EXCEPT ![p] = 0] /\ replies' = [replies EXCEPT ![p] = 0]
    /\ UNCHANGED <<mIsRunning, clientVars, mLastPacketSender, serverPc, inbox, packets>>

PeerSends(p, payload) ==
    /\ Reachable(p) /\ packets < MaxPackets
    /\ inbox' = [inbox EXCEPT ![p] = Append(@, payload)]
    /\ packets' = packets + 1
    /\ asked' = [asked EXCEPT ![p] = IF payload = "handshake" THEN @ + 1 ELSE @]
    /\ UNCHANGED <<mIsRunning, clientVars, mLastPacketSender, serverPc, peerState,
                   replies, connections>>

\* The peer disconnects, or ENet no longer hears from it.
PeerLost(p) ==
    /\ Reachable(p)
    /\ peerState' = [peerState EXCEPT ![p] = IF @ = "connecting" THEN "free" ELSE "zombie"]
    /\ inbox' = [inbox EXCEPT ![p] = <<>>]
    /\ UNCHANGED <<mIsRunning, clientVars, mLastPacketSender, serverPc,
                   asked, replies, connections, packets>>

-----------------------------------------------------------------------------
(* The server                                                              *)

stop ==
    /\ mIsRunning /\ serverPc = "tick"
    /\ mIsRunning' = FALSE
    /\ UNCHANGED <<clientVars, mLastPacketSender, serverPc, peerVars, replies>>

BeginServerUpdate ==
    /\ serverPc = "tick" /\ mIsRunning
    /\ serverPc' = "service"
    /\ UNCHANGED <<mIsRunning, clientVars, mLastPacketSender, peerVars, replies>>

HandleConnect(p, client) ==
    /\ serverPc = "service" /\ peerState[p] = "connecting"
    /\ client \notin alive
    /\ alive' = alive \cup {client}
    /\ mInternalClient' = [mInternalClient EXCEPT ![client] = p]
    /\ peerData' = [peerData EXCEPT ![p] = client]
    /\ mConnectedClientSet' = mConnectedClientSet \cup {client}
    /\ peerState' = [peerState EXCEPT ![p] = "connected"]
    /\ UNCHANGED <<mIsRunning, mLastPacketSender, serverPc, inbox, asked, connections,
                   packets, replies>>

Erased(S, client) == S \ {client}

\* onClientDisconnected reads the object before it is erased and deleted.
HandleDisconnect(p) ==
    LET disconnected == peerData[p] IN
    /\ serverPc = "service" /\ peerState[p] = "zombie"
    /\ serverPc' = IF disconnected \in alive THEN "service" ELSE "crashed"
    /\ mConnectedClientSet' = Erased(mConnectedClientSet, disconnected)
    /\ alive' = alive \ {disconnected}
    /\ peerState' = [peerState EXCEPT ![p] = "free"]
    /\ UNCHANGED <<mIsRunning, mInternalClient, peerData, mLastPacketSender, inbox,
                   asked, connections, packets, replies>>

\* Mutants of Answers: the switch over the packet type is missing; it has the
\* wrong type.
BugAnswers(payload) == payload # "short"
BugAnswersOther(payload) == payload = "unknown"
Answers(payload) == payload = "handshake"
Throws(payload, sender) == payload = "short" \/ sender = NULL

\* The packet is out of ENet's queue whatever becomes of it; if it makes the
\* handler throw, mLastPacketSender keeps pointing to its sender.
HandleReceive(p) ==
    LET payload == Head(inbox[p])
        sender == peerData[p]
    IN
    /\ serverPc = "service" /\ peerState[p] = "connected" /\ inbox[p] # <<>>
    /\ inbox' = [inbox EXCEPT ![p] = Tail(@)]
    /\ mLastPacketSender' = IF Throws(payload, sender) THEN sender ELSE NULL
    /\ IF Throws(payload, sender)
       THEN serverPc' = "catch" /\ UNCHANGED replies
       ELSE IF Answers(payload)
       THEN IF sender \in alive
            THEN /\ replies' = [replies EXCEPT ![mInternalClient[sender]] = @ + 1]
                 /\ UNCHANGED serverPc
            ELSE serverPc' = "crashed" /\ UNCHANGED replies
       ELSE UNCHANGED <<serverPc, replies>>
    /\ UNCHANGED <<mIsRunning, clientVars, peerState, asked, connections, packets>>

HasEvent(p) ==
    \/ peerState[p] \in {"connecting", "zombie"}
    \/ peerState[p] = "connected" /\ inbox[p] # <<>>

EndServerUpdate ==
    /\ serverPc = "service" /\ \A p \in Peer : ~HasEvent(p)
    /\ serverPc' = "tick"
    /\ UNCHANGED <<mIsRunning, clientVars, mLastPacketSender, peerVars, replies>>

\* Mutant of getLastPacketSender: the member is virtual.
BugLastPacketSender == mLastPacketSender
\* mServer is a ServerBase* and this member is not virtual: the handler of run()
\* calls the one of ServerBase, which returns NULL.
getLastPacketSender == NULL

\* Mutant of AfterCatch: the handler is around the loop and not in it.
BugAfterCatch == "done"
\* The catch is inside of the loop: the next tick follows.
AfterCatch == "tick"

\* IncomingClientBase::disconnect: enet_peer_disconnect_now frees the slot, drops
\* what it holds and makes no event.
DisconnectNow(client) ==
    /\ peerState' = [peerState EXCEPT ![mInternalClient[client]] = "free"]
    /\ inbox' = [inbox EXCEPT ![mInternalClient[client]] = <<>>]

CatchInServer ==
    LET lastClient == getLastPacketSender IN
    /\ serverPc = "catch" /\ serverPc' = AfterCatch
    /\ IF lastClient = NULL THEN UNCHANGED <<peerState, inbox>> ELSE DisconnectNow(lastClient)
    /\ UNCHANGED <<mIsRunning, clientVars, mLastPacketSender, asked, connections,
                   packets, replies>>

ServerStep ==
    \/ BeginServerUpdate \/ EndServerUpdate \/ CatchInServer
    \/ \E p \in Peer :
          \/ HandleDisconnect(p) \/ HandleReceive(p)
          \/ \E client \in Client : HandleConnect(p, client)

PeerStep(p) ==
    PeerConnects(p) \/ PeerLost(p) \/ \E payload \in Payload : PeerSends(p, payload)

ServerNext == ServerStep \/ stop \/ \E p \in Peer : PeerStep(p)

ServerSpec == ServerInit /\ [][ServerNext]_serverVars

\* The loop of run() comes back to the server in every tick, and update() does
\* not wait: it asks ENet with a timeout of 0.
FairServerSpec == ServerSpec /\ WF_serverVars(ServerStep)

-----------------------------------------------------------------------------
(* Properties                                                              *)

\* Types of the server's state and of what ENet holds for it.
ServerTypeOK ==
    /\ mIsRunning \in BOOLEAN
    /\ mConnectedClientSet \subseteq Client /\ alive \subseteq Client
    /\ mLastPacketSender \in Client \cup {NULL}
    /\ mInternalClient \in [Client -> Peer \cup {NULL}]
    /\ peerData \in [Peer -> Client \cup {NULL}]
    /\ serverPc \in {"tick", "service", "catch", "crashed"}
    /\ peerState \in [Peer -> {"free", "connecting", "connected", "zombie"}]
    /\ inbox \in [Peer -> Seq(Payload)]
    /\ replies \in [Peer -> Nat] /\ asked \in [Peer -> Nat]
    /\ connections \in Nat /\ packets \in Nat

\* The peers whose CONNECT event was taken and whose DISCONNECT event was not.
Up == {p \in Peer : peerState[p] \in {"connected", "zombie"}}

\* The set of clients, the objects that exist and ENet's peers say the same:
\* each connected peer has one object of its own that leads back to it, and
\* there are no others, so globalSend and getClientCount count every client
\* once (ServerBase.cpp:58-70, 82-102).
OneClientPerPeer ==
    /\ mConnectedClientSet = {peerData[p] : p \in Up}
    /\ alive = mConnectedClientSet
    /\ \A p \in Up : peerData[p] # NULL /\ mInternalClient[peerData[p]] = p

\* Slots are reused and keep stale data pointers, but no event ever leads the
\* server to an object that was deleted (ServerBase.cpp:95-99, 112-115).
NoDeletedClientUsed == serverPc # "crashed"

\* Every handshake of a connected peer is answered once, to that peer, or is
\* still waiting: none is lost when an exception over another packet cuts an
\* update short (ServerBase.cpp:104-119, ServerSingleton.cpp:61-90).
HandshakesIn(packetsHeld) == {i \in 1..Len(packetsHeld) : packetsHeld[i] = "handshake"}
Waiting(p) == Cardinality(HandshakesIn(inbox[p]))
AnsweredOnce == \A p \in Peer : Reachable(p) => asked[p] = replies[p] + Waiting(p)

\* Whatever packets arrive and however many of them throw, the server comes to
\* every event, a disconnection as well as a packet, unless it is stopped.
EventsAreServed == \A p \in Peer : HasEvent(p) ~> (~HasEvent(p) \/ ~mIsRunning)

\* The inductive invariant behind OneClientPerPeer and NoDeletedClientUsed.
ServerInv == ServerTypeOK /\ OneClientPerPeer /\ NoDeletedClientUsed
=============================================================================
