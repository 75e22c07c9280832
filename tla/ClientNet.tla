----------------------------- MODULE ClientNet -----------------------------
(***************************************************************************)
(* The client's side of the network: Network::OutgoingClientBase with the  *)
(* callbacks of Game::OutgoingClientSingleton, and the handler of          *)
(* CoreSingleton::run that disconnects the client after an exception.      *)
(* CoreSingleton::run calls connect once, before its loop.  ENet is        *)
(* external; `link' is its state of the client's only peer.                *)
(***************************************************************************)
EXTENDS Naturals, Sequences

CONSTANTS Address,     \* addresses connect() is given: the regular expression
                       \* accepts the well-formed ones
          MaxArrivals, \* bound on the packets that arrive at the client
          MaxConnects  \* bound on the calls of connect()

ASSUME ClientNetAssumption ==
    /\ Address \subseteq {"wellformed", "malformed"}
    /\ MaxArrivals \in Nat /\ MaxConnects \in Nat

Packet == {"handshake", "unknown", "short"}

VARIABLES mIsConnected,
          mCurrentStage,
          mInternalHost, mInternalPeer, \* whether the pointers are set
          clientPc,   \* "idle", "connecting", "update", "catch", "gone", "crashed"
          link,       \* "none", "connecting", "up", "zombie" or "down"
          incoming,   \* packets that arrived and were not received yet
          outgoing,   \* handshakes sent and not delivered yet
          answer,     \* what the last connect() told its caller
          established,\* history: connections made so far
          heard,      \* history: a handshake was received on this connection
          connects, arrivals \* the bounded counters

pointers == <<mInternalHost, mInternalPeer>>
wire == <<link, incoming, outgoing>>
bookkeeping == <<answer, established, heard, connects, arrivals>>
clientVars == <<mIsConnected, mCurrentStage, pointers, clientPc, wire, bookkeeping>>

ClientInit ==
    /\ mIsConnected = FALSE /\ mCurrentStage = 0
    /\ mInternalHost = FALSE /\ mInternalPeer = FALSE
    /\ clientPc = "idle" /\ link = "none" /\ incoming = <<>> /\ outgoing = 0
    /\ answer = "none" /\ established = 0 /\ heard = FALSE
    /\ connects = 0 /\ arrivals = 0

-----------------------------------------------------------------------------
(* connect                                                                 *)

CallsConnect ==
    /\ clientPc = "idle" /\ connects < MaxConnects
    /\ connects' = connects + 1

HasEndpoint == mInternalPeer \/ mInternalHost

\* Both early returns of connect() say nothing to the caller.
ConnectReturnsAtOnce(address) ==
    /\ CallsConnect
    /\ HasEndpoint \/ address = "malformed"
    /\ answer' = "silent"
    /\ UNCHANGED <<mIsConnected, mCurrentStage, pointers, clientPc, wire,
                   established, heard, arrivals>>

BeginConnect(address) ==
    /\ CallsConnect
    /\ ~HasEndpoint /\ address # "malformed"
    /\ mInternalHost' = TRUE /\ mInternalPeer' = TRUE
    /\ link' = "connecting" /\ clientPc' = "connecting"
    /\ incoming' = <<>> /\ outgoing' = 0
    /\ UNCHANGED <<mIsConnected, mCurrentStage, answer, established, heard, arrivals>>

\* Mutants of FirstStage and Greeted: a connection starts at stage 1; onConnected
\* sends nothing.
BugFirstStage == 1
FirstStage == 0
BugGreeted(sent) == sent
Greeted(sent) == sent + 1

\* onConnected sends the handshake before mIsConnected is set.
ConnectSucceeds ==
    /\ clientPc = "connecting" /\ clientPc' = "idle"
    /\ link' = "up" /\ outgoing' = Greeted(outgoing)
    /\ mCurrentStage' = FirstStage /\ mIsConnected' = TRUE
    /\ answer' = "connected" /\ established' = established + 1 /\ heard' = FALSE
    /\ UNCHANGED <<pointers, incoming, connects, arrivals>>

\* No answer in time, or a refusal: the peer is reset, the pointers stay.
ConnectFails ==
    /\ clientPc = "connecting" /\ clientPc' = "idle"
    /\ link' = "down" /\ incoming' = <<>> /\ outgoing' = 0
    /\ answer' = "failed"
    /\ UNCHANGED <<mIsConnected, mCurrentStage, pointers, established, heard,
                   connects, arrivals>>

-----------------------------------------------------------------------------
(* update and the handler around it                                        *)

\* ENet does not stand a null host.
BeginClientUpdate ==
    /\ clientPc = "idle"
    /\ clientPc' = IF mInternalHost THEN "update" ELSE "crashed"
    /\ UNCHANGED <<mIsConnected, mCurrentStage, pointers, wire, bookkeeping>>

\* onDisconnected only prints.
HandleDisconnected ==
    /\ clientPc = "update" /\ link = "zombie"
    /\ link' = "down"
    /\ UNCHANGED <<mIsConnected, mCurrentStage, pointers, clientPc, incoming,
                   outgoing, bookkeeping>>

\* Mutant of StageAfter: the stage is set before the type is looked at.
BugStageAfter(packet) == 1
StageAfter(packet) == IF packet = "handshake" THEN 1 ELSE mCurrentStage

HandlePacket ==
    LET packet == Head(incoming) IN
    /\ clientPc = "update" /\ link = "up" /\ incoming # <<>>
    /\ incoming' = Tail(incoming)
    /\ mCurrentStage' = StageAfter(packet)
    /\ clientPc' = IF packet = "short" THEN "catch" ELSE "update"
    /\ heard' = (heard \/ packet = "handshake")
    /\ UNCHANGED <<mIsConnected, pointers, link, outgoing, answer, established,
                   connects, arrivals>>

EndClientUpdate ==
    /\ clientPc = "update" /\ link # "zombie" /\ (link = "up" => incoming = <<>>)
    /\ clientPc' = "idle"
    /\ UNCHANGED <<mIsConnected, mCurrentStage, pointers, wire, bookkeeping>>

\* disconnect() clears mIsConnected and then returns because it is cleared: it
\* never comes to enet_peer_disconnect.
Disconnect ==
    /\ clientPc \in {"idle", "catch"}
    /\ clientPc' = "idle"
    /\ mIsConnected' = FALSE
    /\ UNCHANGED <<mCurrentStage, pointers, wire, bookkeeping>>

\* The object is deleted as an OutgoingClientBase: its peer is reset, which
\* tells the server nothing, and its host destroyed.
Destroy ==
    /\ clientPc = "idle" /\ clientPc' = "gone"
    /\ mInternalPeer' = FALSE /\ mInternalHost' = FALSE
    /\ link' = "none" /\ incoming' = <<>> /\ outgoing' = 0
    /\ UNCHANGED <<mIsConnected, mCurrentStage, bookkeeping>>

-----------------------------------------------------------------------------
(* The server and the network, as the client sees them                     *)

Arrives(packet) ==
    /\ link = "up" /\ arrivals < MaxArrivals
    /\ incoming' = Append(incoming, packet) /\ arrivals' = arrivals + 1
    /\ UNCHANGED <<mIsConnected, mCurrentStage, pointers, clientPc, link, outgoing,
                   answer, established, heard, connects>>

\* The packets that were not received yet go with the connection.
RemoteGone ==
    /\ link = "up" /\ link' = "zombie"
    /\ incoming' = <<>> /\ outgoing' = 0
    /\ UNCHANGED <<mIsConnected, mCurrentStage, pointers, clientPc, bookkeeping>>

OutgoingDelivered ==
    /\ link = "up" /\ outgoing > 0 /\ outgoing' = outgoing - 1
    /\ UNCHANGED <<mIsConnected, mCurrentStage, pointers, clientPc, link, incoming,
                   bookkeeping>>

ConnectCall ==
    \E address \in Address : ConnectReturnsAtOnce(address) \/ BeginConnect(address)

UpdateLoop ==
    BeginClientUpdate \/ HandleDisconnected \/ HandlePacket \/ EndClientUpdate

ClientNext ==
    \/ ConnectCall \/ ConnectSucceeds \/ ConnectFails
    \/ UpdateLoop \/ Disconnect \/ Destroy
    \/ RemoteGone \/ OutgoingDelivered
    \/ \E packet \in Packet : Arrives(packet)

ClientSpec == ClientInit /\ [][ClientNext]_clientVars

-----------------------------------------------------------------------------
(* Properties                                                              *)

\* Types of the client's state and of what ENet holds for it.
ClientTypeOK ==
    /\ mIsConnected \in BOOLEAN /\ mCurrentStage \in {0, 1}
    /\ mInternalHost \in BOOLEAN /\ mInternalPeer \in BOOLEAN
    /\ clientPc \in {"idle", "connecting", "update", "catch", "gone", "crashed"}
    /\ link \in {"none", "connecting", "up", "zombie", "down"}
    /\ incoming \in Seq(Packet) /\ outgoing \in Nat
    /\ answer \in {"none", "silent", "failed", "connected"}
    /\ established \in Nat /\ heard \in BOOLEAN
    /\ connects \in Nat /\ arrivals \in Nat

\* The pointers outlive every attempt and every connection and forbid another
\* one, against the comment that ConnectTriesAgain quotes: a client sends its
\* handshake at most once, and no second host replaces one that is still in use
\* (OutgoingClientBase.cpp:71-72, 89-95).
ConnectsAtMostOnce ==
    /\ established + (IF clientPc = "connecting" THEN 1 ELSE 0) <= 1
    /\ outgoing <= established

\* The stage is the one of this connection: it is 1 only after a handshake of
\* the server was received on it, whatever else arrived and threw in between
\* (OutgoingClientBase.cpp:100, OutgoingClientSingleton.cpp:58-81).
StageIsOfThisConnection == mCurrentStage = 1 => heard /\ established = 1

\* While the client says that it is connected, and while ENet has a connection
\* for it, sending and updating have a host and a peer to work on.
HasWhatItUses ==
    clientPc # "gone" /\ (mIsConnected \/ link \in {"connecting", "up", "zombie"})
        => mInternalHost /\ mInternalPeer

\* The inductive invariant, these three in it: host and peer are made together
\* and live until the end, so they tell whether there ever was an attempt.
ClientInv ==
    /\ ClientTypeOK
    /\ ConnectsAtMostOnce /\ StageIsOfThisConnection /\ HasWhatItUses
    /\ mInternalPeer = mInternalHost
    /\ mInternalHost <=> link # "none"
    /\ clientPc = "connecting" <=> link = "connecting"
    /\ clientPc = "gone" => ~mInternalHost
    /\ outgoing > 0 => link = "up"
    /\ link \in {"up", "zombie"} \/ mIsConnected => established = 1
    /\ ~mInternalHost /\ clientPc # "gone" => established = 0

\* "Causes a network client to disconnect from its server"
\* (OutgoingClientBase.hpp:49).
DisconnectLeavesTheServer ==
    [][mIsConnected /\ ~mIsConnected' => link' # "up"]_clientVars

\* "If the client is not already connected somewhere, this tells them to
\* connect to some server" (OutgoingClientBase.hpp:40).
ConnectTriesAgain ==
    [][connects' # connects /\ ~mIsConnected => link' = "connecting"]_clientVars
=============================================================================
