--------------------------- MODULE ClientNetProofs ---------------------------
(***************************************************************************)
(* A client connects at most once in its life, its stage belongs to that   *)
(* connection, and what it uses is there, for any sequence of calls, of    *)
(* packets and of failures.                                                *)
(***************************************************************************)
EXTENDS ClientNet, TLAPS

LEMMA ClientInitInv == ClientInit => ClientInv
<1> SUFFICES ASSUME ClientInit PROVE ClientInv
  OBVIOUS
<1> USE DEF ClientInit
<1>1. ClientTypeOK
  <2>1. mIsConnected \in BOOLEAN /\ mInternalHost \in BOOLEAN
        /\ mInternalPeer \in BOOLEAN /\ heard \in BOOLEAN
    BY Zenon
  <2> QED
    BY <2>1 DEF ClientTypeOK
<1>2. ConnectsAtMostOnce /\ StageIsOfThisConnection /\ HasWhatItUses
  BY DEF ConnectsAtMostOnce, StageIsOfThisConnection, HasWhatItUses
<1>3. (mInternalPeer = mInternalHost) /\ (mInternalHost <=> link # "none")
  OBVIOUS
<1> QED
  BY <1>1, <1>2, <1>3 DEF ClientInv

\* connect(): a host or a peer from an earlier call makes it return at once.
LEMMA ConnectKeepsInv ==
    ASSUME ClientInv, ConnectCall \/ ConnectSucceeds \/ ConnectFails
    PROVE  ClientInv'
<1> USE ClientNetAssumption DEF ClientInv, ClientTypeOK, ConnectsAtMostOnce,
        StageIsOfThisConnection, HasWhatItUses, pointers, wire, bookkeeping
<1>1. ASSUME NEW address \in Address, ConnectReturnsAtOnce(address)
      PROVE  ClientInv'
  BY <1>1 DEF ConnectReturnsAtOnce, CallsConnect
<1>2. ASSUME NEW address \in Address, BeginConnect(address)
      PROVE  ClientInv'
  BY <1>2 DEF BeginConnect, CallsConnect, HasEndpoint
<1>3. CASE ConnectSucceeds
  <2>1. mIsConnected' \in BOOLEAN /\ heard' \in BOOLEAN
    BY <1>3, Zenon DEF ConnectSucceeds
  <2>2. UNCHANGED <<pointers, incoming, connects, arrivals>>
        /\ clientPc = "connecting" /\ clientPc' = "idle" /\ link' = "up"
        /\ outgoing' = outgoing + 1 /\ established' = established + 1
        /\ mCurrentStage' = 0 /\ answer' = "connected"
    BY <1>3 DEF ConnectSucceeds, FirstStage, Greeted
  <2> QED
    BY <2>1, <2>2
<1>4. CASE ConnectFails
  BY <1>4 DEF ConnectFails
<1> QED
  BY <1>1, <1>2, <1>3, <1>4 DEF ConnectCall

LEMMA UpdateKeepsInv ==
    ASSUME ClientInv, UpdateLoop
    PROVE  ClientInv'
<1> USE DEF ClientInv, ClientTypeOK, ConnectsAtMostOnce,
        StageIsOfThisConnection, HasWhatItUses, pointers, wire, bookkeeping
<1>1. CASE BeginClientUpdate
  BY <1>1 DEF BeginClientUpdate
<1>2. CASE HandleDisconnected
  BY <1>2 DEF HandleDisconnected
<1>3. CASE HandlePacket
  <2>1. Tail(incoming) \in Seq(Packet)
    BY <1>3 DEF HandlePacket
  <2> QED
    BY <1>3, <2>1 DEF HandlePacket, StageAfter
<1>4. CASE EndClientUpdate
  BY <1>4 DEF EndClientUpdate
<1> QED
  BY <1>1, <1>2, <1>3, <1>4 DEF UpdateLoop

LEMMA OthersKeepInv ==
    ASSUME ClientInv,
           \/ Disconnect \/ Destroy \/ RemoteGone \/ OutgoingDelivered
           \/ \E packet \in Packet : Arrives(packet)
    PROVE  ClientInv'
<1> USE DEF ClientInv, ClientTypeOK, ConnectsAtMostOnce,
        StageIsOfThisConnection, HasWhatItUses, pointers, wire, bookkeeping
<1>1. CASE Disconnect
  BY <1>1 DEF Disconnect
<1>2. CASE Destroy
  <2>1. mInternalHost' \in BOOLEAN /\ mInternalPeer' \in BOOLEAN
    BY <1>2, Zenon DEF Destroy
  <2>2. ~mInternalHost' /\ ~mInternalPeer'
    BY <1>2 DEF Destroy
  <2>3. UNCHANGED <<mIsConnected, mCurrentStage, bookkeeping>>
        /\ (incoming' = <<>>) /\ (outgoing' = 0) /\ link' = "none" /\ clientPc' = "gone"
    BY <1>2 DEF Destroy
  <2> QED
    BY <2>1, <2>2, <2>3
<1>3. CASE RemoteGone
  BY <1>3 DEF RemoteGone
<1>4. CASE OutgoingDelivered
  BY <1>4 DEF OutgoingDelivered
<1>5. ASSUME NEW packet \in Packet, Arrives(packet)
      PROVE  ClientInv'
  <2>1. Append(incoming, packet) \in Seq(Packet)
    OBVIOUS
  <2> QED
    BY <1>5, <2>1 DEF Arrives
<1> QED
  BY <1>1, <1>2, <1>3, <1>4, <1>5

\* In every reachable state of a client: at most one connection was ever made
\* and at most one handshake sent, stage 1 means that a handshake was received
\* on that connection, and host and peer exist while they are used.
THEOREM ClientInvariant == ClientSpec => []ClientInv
<1>1. ClientInv /\ [ClientNext]_clientVars => ClientInv'
  <2> SUFFICES ASSUME ClientInv, [ClientNext]_clientVars
               PROVE  ClientInv'
    OBVIOUS
  <2>1. CASE UNCHANGED clientVars
    BY <2>1 DEF clientVars, pointers, wire, bookkeeping, ClientInv, ClientTypeOK,
            ConnectsAtMostOnce, StageIsOfThisConnection, HasWhatItUses
  <2>2. CASE ClientNext
    BY <2>2, ConnectKeepsInv, UpdateKeepsInv, OthersKeepInv DEF ClientNext
  <2> QED
    BY <2>1, <2>2
<1> QED
  BY <1>1, ClientInitInv, PTL DEF ClientSpec

\* No call of connect() after the first that reached ENet makes a connection.
THEOREM OneConnection == ClientSpec => []ConnectsAtMostOnce
<1>1. ClientInv => ConnectsAtMostOnce
  BY DEF ClientInv
<1> QED
  BY <1>1, ClientInvariant, PTL

\* Stage 1 is never left over from an earlier connection or reached without
\* the server's handshake.
THEOREM StageIsEarned == ClientSpec => []StageIsOfThisConnection
<1>1. ClientInv => StageIsOfThisConnection
  BY DEF ClientInv
<1> QED
  BY <1>1, ClientInvariant, PTL
=============================================================================
