---------------------------- MODULE SessionProofs ----------------------------
(***************************************************************************)
(* The server by itself: its objects, its set of clients and ENet's peers  *)
(* agree for any number of peers and any traffic, no deleted object is     *)
(* ever used and every handshake is answered once.  Then the session of a  *)
(* client with it: there is one handshake, wherever it is.                 *)
(***************************************************************************)
EXTENDS Session, FiniteSetTheorems, FunctionTheorems, SequenceTheorems, TLAPS

-----------------------------------------------------------------------------
(* The server's objects                                                    *)

\* What the actions of the other programs do to a slot never adds it to Up or
\* takes it out.
LEMMA PeersKeepInv ==
    ASSUME ServerInv, NEW p \in Peer, PeerStep(p)
    PROVE  ServerInv'
<1> USE ServerNetAssumption DEF ServerInv, NoDeletedClientUsed, clientVars
<1>1. ServerTypeOK'
  <2>1. CASE PeerConnects(p)
    BY <2>1 DEF PeerConnects, ServerTypeOK
  <2>2. CASE PeerLost(p)
    BY <2>2 DEF PeerLost, Reachable, ServerTypeOK
  <2>3. ASSUME NEW payload \in Payload, PeerSends(p, payload)
        PROVE  ServerTypeOK'
    <3>1. inbox[p] \in Seq(Payload) /\ Append(inbox[p], payload) \in Seq(Payload)
      BY DEF ServerTypeOK
    <3> QED
      BY <2>3, <3>1 DEF PeerSends, ServerTypeOK
  <2> QED
    BY <2>1, <2>2, <2>3 DEF PeerStep
<1>2. Up' = Up
  <2>1. CASE PeerConnects(p)
    BY <2>1 DEF PeerConnects, ServerTypeOK, Up
  <2>2. CASE PeerLost(p)
    BY <2>2 DEF PeerLost, Reachable, ServerTypeOK, Up
  <2>3. ASSUME NEW payload \in Payload, PeerSends(p, payload)
        PROVE  Up' = Up
    BY <2>3 DEF PeerSends, Up
  <2> QED
    BY <2>1, <2>2, <2>3 DEF PeerStep
<1>3. UNCHANGED <<clientVars, serverPc>>
  BY DEF PeerStep, PeerConnects, PeerLost, PeerSends
<1> QED
  BY <1>1, <1>2, <1>3 DEF OneClientPerPeer

\* A connection takes a free slot and gives it a new object that no other slot has.
LEMMA ConnectKeepsInv ==
    ASSUME ServerInv, NEW p \in Peer, NEW client \in Client, HandleConnect(p, client)
    PROVE  ServerInv'
<1> USE ServerNetAssumption DEF ServerInv, HandleConnect
<1>1. ServerTypeOK'
  BY DEF ServerTypeOK
<1>2. Up' = Up \cup {p} /\ p \notin Up
  BY DEF ServerTypeOK, Up
<1>3. /\ peerData'[p] = client /\ mInternalClient'[client] = p
      /\ \A q \in Up : peerData'[q] = peerData[q]
  BY <1>2 DEF ServerTypeOK, Up
<1>4. mConnectedClientSet' = {peerData'[q] : q \in Up'}
  BY <1>2, <1>3 DEF OneClientPerPeer
<1>5. alive' = mConnectedClientSet'
  BY DEF OneClientPerPeer
<1>6. ASSUME NEW q \in Up'
      PROVE  peerData'[q] # NULL /\ mInternalClient'[peerData'[q]] = q
  <2>1. CASE q = p
    BY <1>3, <2>1
  <2>2. CASE q \in Up
    <3>1. peerData[q] \in alive /\ peerData[q] # client
      BY <2>2 DEF OneClientPerPeer
    <3>2. peerData[q] \in Client
      BY <3>1 DEF ServerTypeOK
    <3> QED
      BY <1>3, <2>2, <3>1, <3>2 DEF OneClientPerPeer, ServerTypeOK
  <2> QED
    BY <1>2, <1>6, <2>1, <2>2
<1>7. NoDeletedClientUsed'
  BY DEF NoDeletedClientUsed
<1> QED
  BY <1>1, <1>4, <1>5, <1>6, <1>7 DEF OneClientPerPeer

\* A disconnect deletes the slot's object and forgets it in the same handler.
LEMMA DisconnectKeepsInv ==
    ASSUME ServerInv, NEW p \in Peer, HandleDisconnect(p)
    PROVE  ServerInv'
<1> USE ServerNetAssumption DEF ServerInv, HandleDisconnect, Erased
<1>1. p \in Up /\ peerData[p] \in alive
  BY DEF OneClientPerPeer, Up
<1>2. ServerTypeOK'
  BY DEF ServerTypeOK
<1>3. Up' = Up \ {p}
  BY DEF ServerTypeOK, Up
<1>4. \A q \in Up : q # p => peerData[q] # peerData[p]
  BY <1>1 DEF OneClientPerPeer
<1>5. mConnectedClientSet' = {peerData'[q] : q \in Up'}
  BY <1>1, <1>3, <1>4 DEF OneClientPerPeer
<1>6. NoDeletedClientUsed'
  BY <1>1 DEF NoDeletedClientUsed
<1> QED
  BY <1>2, <1>3, <1>5, <1>6 DEF OneClientPerPeer

\* A packet is taken from a slot the server knows, for the object of that slot.
LEMMA ReceiveKeepsInv ==
    ASSUME ServerInv, NEW p \in Peer, HandleReceive(p)
    PROVE  ServerInv'
<1> USE ServerNetAssumption DEF ServerInv, HandleReceive, Throws, Answers
<1>1. p \in Up /\ peerData[p] \in alive /\ mInternalClient[peerData[p]] = p
  BY DEF OneClientPerPeer, Up
<1>2. inbox[p] \in Seq(Payload) /\ Tail(inbox[p]) \in Seq(Payload)
  BY DEF ServerTypeOK
<1>3. ServerTypeOK'
  BY <1>1, <1>2 DEF ServerTypeOK, clientVars
<1>4. NoDeletedClientUsed'
  BY <1>1 DEF NoDeletedClientUsed
<1>5. OneClientPerPeer'
  BY DEF OneClientPerPeer, Up, clientVars
<1> QED
  BY <1>3, <1>4, <1>5

\* The rest of the server's steps leaves its clients alone; the handler of an
\* exception does so because getLastPacketSender returns NULL.
LEMMA OtherStepsKeepInv ==
    ASSUME ServerInv,
           BeginServerUpdate \/ EndServerUpdate \/ CatchInServer \/ stop
    PROVE  ServerInv'
<1> USE ServerNetAssumption DEF ServerInv, clientVars, peerVars
<1>1. UNCHANGED <<clientVars, mLastPacketSender, peerVars, replies>>
  BY DEF BeginServerUpdate, EndServerUpdate, stop, CatchInServer, getLastPacketSender
<1>2. mIsRunning' \in BOOLEAN /\ serverPc' \in {"tick", "service"}
  BY DEF BeginServerUpdate, EndServerUpdate, stop, CatchInServer, AfterCatch, ServerTypeOK
<1>3. ServerTypeOK'
  BY <1>1, <1>2 DEF ServerTypeOK
<1>4. OneClientPerPeer' /\ NoDeletedClientUsed'
  BY <1>1, <1>2 DEF OneClientPerPeer, Up, NoDeletedClientUsed
<1> QED
  BY <1>3, <1>4

\* The remaining steps touch neither the set of objects nor their slots.
LEMMA StepKeepsInv == ServerInv /\ [ServerNext]_serverVars => ServerInv'
<1> SUFFICES ASSUME ServerInv, [ServerNext]_serverVars
             PROVE  ServerInv'
  OBVIOUS
<1>1. CASE UNCHANGED serverVars
  BY <1>1 DEF serverVars, clientVars, peerVars, ServerInv, ServerTypeOK, OneClientPerPeer,
              Up, NoDeletedClientUsed
<1>2. CASE ServerNext
  BY <1>2, PeersKeepInv, ConnectKeepsInv, DisconnectKeepsInv, ReceiveKeepsInv,
     OtherStepsKeepInv DEF ServerNext, ServerStep
<1> QED
  BY <1>1, <1>2

\* Every reachable state has one object per connected peer, each leading back
\* to its peer, the set of clients holds exactly these, and no event has made
\* the server use an object that was deleted (ServerBase.cpp:72-125).
THEOREM ServerInvariant == ServerSpec => []ServerInv
<1>1. ServerInit => ServerInv
  BY ServerNetAssumption DEF ServerInit, ServerInv, ServerTypeOK, OneClientPerPeer, Up,
                             NoDeletedClientUsed
<1> QED
  BY <1>1, StepKeepsInv, PTL DEF ServerSpec

-----------------------------------------------------------------------------
(* Every handshake is answered                                             *)

\* The places of handshakes in a queue can be counted.
LEMMA HandshakesFinite ==
    ASSUME NEW s \in Seq(Payload)
    PROVE  IsFiniteSet(HandshakesIn(s)) /\ Cardinality(HandshakesIn(s)) \in Nat
<1>1. Len(s) \in Nat /\ HandshakesIn(s) \in SUBSET (1..Len(s))
  BY LenProperties DEF HandshakesIn
<1>2. IsFiniteSet(1..Len(s))
  BY <1>1, FS_Interval
<1>3. IsFiniteSet(HandshakesIn(s))
  BY <1>1, <1>2, FS_Subset
<1> QED
  BY <1>3, FS_CardinalityType

\* Nothing waits in an empty queue.
LEMMA NoneInEmpty == Cardinality(HandshakesIn(<<>>)) = 0
<1>1. HandshakesIn(<<>>) = {}
  BY DEF HandshakesIn
<1> QED
  BY <1>1, FS_EmptySet

\* A packet that arrives is one more if it is a handshake.
LEMMA AppendedCounts ==
    ASSUME NEW s \in Seq(Payload), NEW x \in Payload
    PROVE  Cardinality(HandshakesIn(Append(s, x)))
             = Cardinality(HandshakesIn(s)) + (IF x = "handshake" THEN 1 ELSE 0)
<1> DEFINE t == Append(s, x)
<1>1. /\ Len(s) \in Nat /\ Len(t) = Len(s) + 1 /\ t[Len(s) + 1] = x
      /\ \A i \in 1..Len(s) : t[i] = s[i]
  BY LenProperties, AppendProperties
<1> HIDE DEF t
<1>2. CASE x = "handshake"
  <2>1. HandshakesIn(t) = HandshakesIn(s) \cup {Len(s) + 1} /\ Len(s) + 1 \notin HandshakesIn(s)
    BY <1>1, <1>2 DEF HandshakesIn
  <2> QED
    BY <1>2, <2>1, HandshakesFinite, FS_AddElement DEF t
<1>3. CASE x # "handshake"
  <2>1. HandshakesIn(t) = HandshakesIn(s)
    BY <1>1, <1>3 DEF HandshakesIn
  <2> QED
    BY <1>3, <2>1, HandshakesFinite DEF t
<1> QED
  BY <1>2, <1>3

\* A packet that is taken is one less if it is a handshake: the others move up.
LEMMA TakenCounts ==
    ASSUME NEW s \in Seq(Payload), s # <<>>
    PROVE  Cardinality(HandshakesIn(s))
             = Cardinality(HandshakesIn(Tail(s))) + (IF Head(s) = "handshake" THEN 1 ELSE 0)
<1> DEFINE t == Tail(s)
           rest == HandshakesIn(s) \ {1}
           up == [i \in HandshakesIn(t) |-> i + 1]
<1>1. /\ t \in Seq(Payload) /\ Len(s) \in Nat \ {0} /\ Len(t) = Len(s) - 1 /\ Head(s) = s[1]
      /\ \A i \in 1..Len(t) : t[i] = s[i + 1]
  BY HeadTailProperties, EmptySeq
<1> HIDE DEF t
<1>2. up \in Bijection(HandshakesIn(t), rest)
  <2>1. HandshakesIn(t) \subseteq Nat /\ up \in [HandshakesIn(t) -> rest]
    BY <1>1 DEF HandshakesIn
  <2>2. \A i, j \in HandshakesIn(t) : up[i] = up[j] => i = j
    BY <2>1
  <2>3. \A k \in rest : \E i \in HandshakesIn(t) : up[i] = k
    <3>1. SUFFICES ASSUME NEW k \in rest PROVE k - 1 \in HandshakesIn(t) /\ up[k - 1] = k
      OBVIOUS
    <3>2. k \in 2..Len(s) /\ s[k] = "handshake"
      BY <1>1 DEF HandshakesIn
    <3>3. k - 1 \in 1..Len(t) /\ t[k - 1] = s[k]
      BY <1>1, <3>2
    <3>4. k - 1 \in HandshakesIn(t)
      BY <3>2, <3>3 DEF HandshakesIn
    <3> QED
      BY <3>2, <3>4
  <2> QED
    BY <2>1, <2>2, <2>3, Fun_IsBij
<1>3. Cardinality(rest) = Cardinality(HandshakesIn(t))
  <2>1. IsFiniteSet(HandshakesIn(t)) /\ ExistsBijection(HandshakesIn(t), rest)
    BY <1>1, <1>2, HandshakesFinite DEF ExistsBijection
  <2> QED
    BY <2>1, FS_Bijection
<1>4. Cardinality(rest) = Cardinality(HandshakesIn(s)) - (IF Head(s) = "handshake" THEN 1 ELSE 0)
  <2>1. 1 \in HandshakesIn(s) <=> Head(s) = "handshake"
    BY <1>1 DEF HandshakesIn
  <2>2. IsFiniteSet(HandshakesIn(s)) /\ Cardinality(HandshakesIn(s)) \in Nat
    BY HandshakesFinite
  <2>3. Cardinality(rest) = IF 1 \in HandshakesIn(s) THEN Cardinality(HandshakesIn(s)) - 1
                                                     ELSE Cardinality(HandshakesIn(s))
    BY <2>2, FS_RemoveElement
  <2> QED
    BY <2>1, <2>2, <2>3
<1>5. Cardinality(HandshakesIn(s)) \in Nat
  BY HandshakesFinite
<1> QED
  BY <1>3, <1>4, <1>5 DEF t

\* A slot nobody can be reached through has nothing to receive, so a connection
\* begins with an even account.
Tally == (\A p \in Peer : ~Reachable(p) => inbox[p] = <<>>) /\ AnsweredOnce

\* A packet is taken from its slot and, if it is a handshake, answered there.
LEMMA ReceiveAnswers ==
    ASSUME ServerInv, NEW p \in Peer, HandleReceive(p)
    PROVE  /\ inbox' = [inbox EXCEPT ![p] = Tail(@)] /\ inbox[p] # <<>>
           /\ inbox[p] \in Seq(Payload) /\ UNCHANGED <<peerState, asked>>
           /\ replies' = IF Head(inbox[p]) = "handshake" THEN [replies EXCEPT ![p] = @ + 1] ELSE replies
<1>1. p \in Up /\ peerData[p] \in alive /\ mInternalClient[peerData[p]] = p /\ peerData[p] # NULL
  BY DEF ServerInv, OneClientPerPeer, HandleReceive, Up
<1>2. inbox[p] \in Seq(Payload)
  BY DEF ServerInv, ServerTypeOK
<1> QED
  BY <1>1, <1>2 DEF HandleReceive, Throws, Answers

\* A handshake that is taken is answered in the same handler, any other packet
\* changes neither side of the count.
LEMMA ReceiveKeepsTally ==
    ASSUME ServerInv, Tally, NEW p \in Peer, HandleReceive(p)
    PROVE  Tally'
<1>1. /\ inbox' = [inbox EXCEPT ![p] = Tail(@)] /\ inbox[p] # <<>>
      /\ inbox[p] \in Seq(Payload) /\ UNCHANGED <<peerState, asked>>
      /\ replies' = IF Head(inbox[p]) = "handshake" THEN [replies EXCEPT ![p] = @ + 1] ELSE replies
  BY ReceiveAnswers
<1>2. /\ inbox \in [Peer -> Seq(Payload)] /\ replies \in [Peer -> Nat] /\ asked \in [Peer -> Nat]
      /\ Reachable(p)
  BY DEF ServerInv, ServerTypeOK, HandleReceive, Reachable
<1>3. inbox'[p] = Tail(inbox[p]) /\ \A q \in Peer \ {p} : inbox'[q] = inbox[q] /\ replies'[q] = replies[q]
  BY <1>1, <1>2
<1>4. \A q \in Peer : Reachable(q)' = Reachable(q)
  BY <1>1 DEF Reachable
<1>5. asked'[p] = replies'[p] + Waiting(p)'
  <2>1. /\ Waiting(p) = Waiting(p)' + (IF Head(inbox[p]) = "handshake" THEN 1 ELSE 0)
        /\ Waiting(p)' \in Nat
    <3>1. Tail(inbox[p]) \in Seq(Payload)
      BY <1>1, HeadTailProperties
    <3> QED
      BY <1>1, <1>3, <3>1, TakenCounts, HandshakesFinite DEF Waiting
  <2>2. asked[p] = replies[p] + Waiting(p)
    BY <1>2 DEF Tally, AnsweredOnce
  <2>3. replies'[p] = replies[p] + (IF Head(inbox[p]) = "handshake" THEN 1 ELSE 0)
    BY <1>1, <1>2
  <2> QED
    BY <1>1, <1>2, <2>1, <2>2, <2>3
<1>6. \A q \in Peer \ {p} : Waiting(q)' = Waiting(q)
  BY <1>3 DEF Waiting
<1> QED
  BY <1>1, <1>2, <1>3, <1>4, <1>5, <1>6 DEF Tally, AnsweredOnce

\* A connection starts with nothing asked, answered or waiting; a packet that is
\* sent is asked and waits; one that is lost takes its queue along.
LEMMA PeersKeepTally ==
    ASSUME ServerInv, Tally, NEW p \in Peer, PeerStep(p)
    PROVE  Tally'
<1>0. /\ inbox \in [Peer -> Seq(Payload)] /\ replies \in [Peer -> Nat] /\ asked \in [Peer -> Nat]
      /\ peerState \in [Peer -> {"free", "connecting", "connected", "zombie"}]
  BY DEF ServerInv, ServerTypeOK
<1>1. CASE PeerConnects(p)
  <2>1. /\ inbox' = inbox /\ inbox[p] = <<>> /\ asked'[p] = 0 /\ replies'[p] = 0
        /\ \A q \in Peer \ {p} : peerState'[q] = peerState[q] /\ asked'[q] = asked[q] /\ replies'[q] = replies[q]
        /\ peerState'[p] = "connecting"
    BY <1>0, <1>1 DEF PeerConnects, Tally, Reachable
  <2>2. Waiting(p)' = 0 /\ \A q \in Peer : Waiting(q)' = Waiting(q)
    BY <2>1, NoneInEmpty DEF Waiting
  <2> QED
    BY <2>1, <2>2 DEF Tally, AnsweredOnce, Reachable
<1>2. CASE PeerLost(p)
  <2>1. /\ inbox'[p] = <<>> /\ peerState'[p] \in {"free", "zombie"} /\ UNCHANGED <<asked, replies>>
        /\ \A q \in Peer \ {p} : peerState'[q] = peerState[q] /\ inbox'[q] = inbox[q]
    BY <1>0, <1>2 DEF PeerLost
  <2> QED
    BY <2>1 DEF Tally, AnsweredOnce, Reachable, Waiting
<1>3. ASSUME NEW payload \in Payload, PeerSends(p, payload) PROVE Tally'
  <2>1. /\ inbox'[p] = Append(inbox[p], payload) /\ UNCHANGED <<peerState, replies>> /\ Reachable(p)
        /\ asked'[p] = IF payload = "handshake" THEN asked[p] + 1 ELSE asked[p]
        /\ \A q \in Peer \ {p} : asked'[q] = asked[q] /\ inbox'[q] = inbox[q]
    BY <1>0, <1>3 DEF PeerSends
  <2>2. /\ Waiting(p)' = Waiting(p) + (IF payload = "handshake" THEN 1 ELSE 0) /\ Waiting(p) \in Nat
        /\ \A q \in Peer \ {p} : Waiting(q)' = Waiting(q)
    BY <1>0, <2>1, AppendedCounts, HandshakesFinite DEF Waiting
  <2>3. asked[p] = replies[p] + Waiting(p)
    BY <2>1 DEF Tally, AnsweredOnce
  <2>4. asked'[p] = replies'[p] + Waiting(p)'
    BY <1>0, <2>1, <2>2, <2>3
  <2> QED
    BY <2>1, <2>2, <2>4 DEF Tally, AnsweredOnce, Reachable
<1> QED
  BY <1>1, <1>2, <1>3 DEF PeerStep

\* Packets that come in add to both sides; connections start both at nothing.
LEMMA StepKeepsTally == ServerInv /\ Tally /\ [ServerNext]_serverVars => Tally'
<1> SUFFICES ASSUME ServerInv, Tally, [ServerNext]_serverVars PROVE Tally'
  OBVIOUS
<1>0. peerState \in [Peer -> {"free", "connecting", "connected", "zombie"}]
  BY DEF ServerInv, ServerTypeOK
<1>1. CASE stop \/ BeginServerUpdate \/ EndServerUpdate \/ CatchInServer \/ UNCHANGED serverVars
  <2>1. UNCHANGED <<inbox, asked, replies, peerState>>
    BY <1>1 DEF stop, BeginServerUpdate, EndServerUpdate, CatchInServer, getLastPacketSender,
       serverVars, peerVars
  <2> QED
    BY <2>1 DEF Tally, AnsweredOnce, Reachable, Waiting
<1>2. ASSUME NEW p \in Peer, HandleDisconnect(p) \/ \E client \in Client : HandleConnect(p, client)
      PROVE  Tally'
  <2>1. /\ UNCHANGED <<inbox, asked, replies>>
        /\ \A q \in Peer : Reachable(q)' = Reachable(q)
    BY <1>0, <1>2 DEF HandleDisconnect, HandleConnect, Reachable
  <2> QED
    BY <2>1 DEF Tally, AnsweredOnce, Waiting
<1> QED
  BY <1>1, <1>2, ReceiveKeepsTally, PeersKeepTally DEF ServerNext, ServerStep

\* The count holds throughout a run of the server.
LEMMA TallyInductive == ServerSpec => []Tally
<1>1. ServerInit => Tally
  BY DEF ServerInit, Tally, AnsweredOnce, Reachable
<1> QED
  BY <1>1, ServerInvariant, StepKeepsTally, PTL DEF ServerSpec

\* A handshake of a connected peer is answered once or waits, for any number of
\* peers and packets and whatever the others' packets do to an update.
THEOREM HandshakesAnswered == ServerSpec => []AnsweredOnce
<1>1. Tally => AnsweredOnce
  BY DEF Tally
<1> QED
  BY <1>1, TallyInductive, PTL

-----------------------------------------------------------------------------
(* The session                                                             *)

\* The client's slot is one of ENet's.
MySlotType == mySlot \in Peer \cup {NULL}

\* The client's slot is a slot of the server or none.
LEMMA MySlotInductive == SessionSpec => []MySlotType
<1>1. SessionInit => MySlotType
  BY DEF SessionInit, MySlotType
<1>2. MySlotType /\ [SessionNext]_sessionVars => MySlotType'
  BY DEF MySlotType, SessionNext, ClientTicks, ClientConnects, LeaveLoop, ClientQuits, ServerTicks,
     ServerStops, OthersAct, Established, Transport, HandshakeArrives, ReplyArrives, Failures, NoAnswer,
     ServerLosesClient, ClientLosesServer, sessionVars
<1> QED
  BY <1>1, <1>2, PTL DEF SessionSpec

\* Whatever happens in a session is a step of the server's module, or none of
\* the server's business.
LEMMA SessionMovesServer == MySlotType /\ [SessionNext]_sessionVars => [ServerNext]_serverVars
<1> SUFFICES ASSUME MySlotType, [SessionNext]_sessionVars PROVE [ServerNext]_serverVars
  OBVIOUS
<1>1. CASE ClientTicks \/ ClientConnects \/ LeaveLoop \/ ClientQuits \/ NoAnswer \/ ReplyArrives
           \/ ClientLosesServer \/ UNCHANGED sessionVars
  BY <1>1 DEF ClientTicks, ClientConnects, LeaveLoop, ClientQuits, NoAnswer, ReplyArrives,
     ClientLosesServer, sessionVars
<1>2. CASE ServerTicks \/ ServerStops
  BY <1>2 DEF ServerTicks, ServerStops, ServerNext
<1>3. CASE OthersAct
  BY <1>3 DEF OthersAct, ServerNext, PeerStep
<1>4. CASE Established
  BY <1>4 DEF Established, ServerNext, PeerStep
<1>5. CASE HandshakeArrives
  BY <1>5 DEF HandshakeArrives, MySlotType, ServerNext, PeerStep, Payload
<1>6. CASE ServerLosesClient
  BY <1>6 DEF ServerLosesClient, MySlotType, ServerNext, PeerStep
<1> QED
  BY <1>1, <1>2, <1>3, <1>4, <1>5, <1>6 DEF SessionNext, Transport, Failures

\* The session implements the server's module, with the client and the other
\* programs as its environment: what is proved of the server holds here.
THEOREM SessionImplementsServer == SessionSpec => ServerSpec
<1>1. SessionInit => ServerInit
  BY DEF SessionInit
<1> QED
  BY <1>1, MySlotInductive, SessionMovesServer, PTL DEF SessionSpec, ServerSpec

\* Nothing is on its way where there is no connection, only handshakes come
\* from this server, and the slot is one that can be reached.
EndsInv ==
    /\ incoming \in Seq({"handshake"}) /\ outgoing \in Nat /\ toClient \in Nat
    /\ clientPc \in {"idle", "connecting", "update", "gone", "crashed"}
    /\ clientPc = "connecting" => link = "connecting" /\ outgoing = 0 /\ incoming = <<>>
    /\ outgoing > 0 => link = "up"
    /\ heard \in BOOLEAN /\ (mCurrentStage = 1 => heard)
    /\ mySlot # NULL => Reachable(mySlot)

\* The one handshake as the server counts it, and the replies to it.
HeardOnce == IF heard THEN 1 ELSE 0
Account ==
    mySlot # NULL =>
        /\ asked[mySlot] <= 1
        /\ heard => replies[mySlot] = 1
        /\ link = "up" => /\ asked[mySlot] + outgoing = 1
                          /\ replies[mySlot] = toClient + Len(incoming) + HeardOnce

SessionInv == MySlotType /\ EndsInv /\ Account
ServerFacts == ServerInv /\ Tally

\* A step of the server asks nothing, leaves reachable slots reachable and
\* answers a slot at most once.
LEMMA ServerStepAnswers ==
    ASSUME ServerInv, ServerStep
    PROVE  /\ asked' = asked
           /\ \A p \in Peer : Reachable(p) => Reachable(p)'
           /\ \A p \in Peer : replies[p] \in Nat /\ replies'[p] \in {replies[p], replies[p] + 1}
<1>0. /\ peerState \in [Peer -> {"free", "connecting", "connected", "zombie"}]
      /\ replies \in [Peer -> Nat]
  BY DEF ServerInv, ServerTypeOK
<1>1. CASE BeginServerUpdate \/ EndServerUpdate \/ CatchInServer
  <2>1. UNCHANGED <<asked, replies, peerState>>
    BY <1>1 DEF BeginServerUpdate, EndServerUpdate, CatchInServer, getLastPacketSender, peerVars
  <2> QED
    BY <1>0, <2>1 DEF Reachable
<1>2. ASSUME NEW p \in Peer, HandleDisconnect(p) \/ \E client \in Client : HandleConnect(p, client)
      PROVE  UNCHANGED <<asked, replies>> /\ \A q \in Peer : Reachable(q) => Reachable(q)'
  BY <1>0, <1>2 DEF HandleDisconnect, HandleConnect, Reachable
<1>3. ASSUME NEW p \in Peer, HandleReceive(p)
      PROVE  /\ asked' = asked /\ \A q \in Peer : Reachable(q) => Reachable(q)'
             /\ \A q \in Peer : replies'[q] \in {replies[q], replies[q] + 1}
  <2>1. /\ UNCHANGED <<peerState, asked>>
        /\ replies' = replies \/ replies' = [replies EXCEPT ![p] = @ + 1]
    BY <1>3, ReceiveAnswers
  <2> QED
    BY <1>0, <2>1 DEF Reachable
<1> QED
  BY <1>0, <1>1, <1>2, <1>3 DEF ServerStep

\* An answer is to something asked.
LEMMA AnswersAreAsked ==
    ASSUME ServerFacts, NEW p \in Peer, Reachable(p)
    PROVE  replies[p] \in Nat /\ asked[p] \in Nat /\ replies[p] <= asked[p]
<1>1. inbox[p] \in Seq(Payload) /\ replies[p] \in Nat /\ asked[p] \in Nat
  BY DEF ServerFacts, ServerInv, ServerTypeOK
<1>2. Waiting(p) \in Nat /\ asked[p] = replies[p] + Waiting(p)
  BY <1>1, HandshakesFinite DEF Waiting, ServerFacts, Tally, AnsweredOnce
<1> QED
  BY <1>1, <1>2

\* A handshake that the client takes from its queue is the reply, and heard.
LEMMA PacketHeard ==
    ASSUME SessionInv, ServerFacts, Here!HandlePacket, UNCHANGED <<serverVars, mySlot, toClient>>
    PROVE  SessionInv'
<1>1. /\ incoming # <<>> /\ incoming' = Tail(incoming) /\ link = "up"
      /\ UNCHANGED <<link, outgoing, asked, replies, peerState, mySlot, toClient>>
  BY DEF Here!HandlePacket, serverVars, peerVars
<1>2. /\ Head(incoming) = "handshake" /\ Len(incoming) \in Nat \ {0}
      /\ incoming' \in Seq({"handshake"}) /\ Len(incoming') = Len(incoming) - 1
  BY <1>1, HeadTailProperties, EmptySeq DEF SessionInv, EndsInv
<1>3. heard' = TRUE /\ clientPc' = "update" /\ mCurrentStage' = 1
  BY <1>2 DEF Here!HandlePacket, Here!StageAfter
<1>4. EndsInv'
  BY <1>1, <1>2, <1>3 DEF SessionInv, EndsInv, Reachable
<1>5. ASSUME mySlot # NULL PROVE replies[mySlot] = 1 /\ HeardOnce = 0
  <2>1. mySlot \in Peer /\ Reachable(mySlot)
    BY <1>5 DEF SessionInv, MySlotType, EndsInv
  <2>2. replies[mySlot] \in Nat /\ replies[mySlot] <= 1
    BY <1>5, <2>1, AnswersAreAsked DEF SessionInv, Account
  <2>3. replies[mySlot] = toClient + Len(incoming) + HeardOnce /\ toClient \in Nat /\ HeardOnce \in {0, 1}
    BY <1>1, <1>5 DEF SessionInv, Account, EndsInv, HeardOnce
  <2> QED
    BY <1>2, <2>2, <2>3
<1>6. HeardOnce' = 1
  BY <1>3 DEF HeardOnce
<1>7. Account'
  BY <1>1, <1>2, <1>5, <1>6 DEF SessionInv, Account, EndsInv
<1> QED
  BY <1>1, <1>4, <1>7 DEF SessionInv, MySlotType

\* The other steps of the client move no handshake, or end the connection with
\* what was on its way.
LEMMA ClientKeepsInv ==
    ASSUME SessionInv, ServerFacts,
           ClientTicks \/ ClientConnects \/ NoAnswer \/ LeaveLoop \/ ClientQuits \/ ClientLosesServer
    PROVE  SessionInv'
<1>0. UNCHANGED <<serverVars, mySlot>> /\ UNCHANGED <<asked, replies, peerState>>
  BY DEF ClientTicks, ClientConnects, NoAnswer, LeaveLoop, ClientQuits, ClientLosesServer,
     serverVars, peerVars
<1>1. CASE ClientTicks /\ Here!HandlePacket
  BY <1>1, PacketHeard DEF ClientTicks
<1> USE DEF SessionInv, MySlotType, EndsInv, Account, HeardOnce, Reachable, Here!wire, Here!bookkeeping
<1>2. CASE ClientTicks /\ ~Here!HandlePacket
  <2>1. UNCHANGED <<toClient, incoming, outgoing, heard, mCurrentStage>>
        /\ clientPc # "connecting" /\ clientPc' \in {"idle", "update", "crashed"}
        /\ (link' = link \/ (link' = "down" /\ link = "zombie"))
    BY <1>2 DEF ClientTicks, Here!UpdateLoop, Here!BeginClientUpdate, Here!HandleDisconnected,
       Here!EndClientUpdate, Here!Disconnect
  <2> QED
    BY <1>0, <2>1
<1>3. CASE ClientConnects
  <2>1. PICK address \in Address : Here!ConnectReturnsAtOnce(address) \/ Here!BeginConnect(address)
    BY <1>3 DEF ClientConnects, Here!ConnectCall
  <2>2. UNCHANGED <<toClient, heard, mCurrentStage>>
    BY <1>3, <2>1 DEF ClientConnects, Here!ConnectReturnsAtOnce, Here!BeginConnect
  <2>3. CASE Here!ConnectReturnsAtOnce(address)
    BY <1>0, <2>2, <2>3 DEF Here!ConnectReturnsAtOnce
  <2>4. CASE Here!BeginConnect(address)
    BY <1>0, <2>2, <2>4, EmptySeq DEF Here!BeginConnect
  <2> QED
    BY <2>1, <2>3, <2>4
<1>4. CASE NoAnswer
  BY <1>0, <1>4, EmptySeq DEF NoAnswer, Here!ConnectFails
<1>5. CASE LeaveLoop
  BY <1>0, <1>5 DEF LeaveLoop, Here!Disconnect
<1>6. CASE ClientQuits
  BY <1>0, <1>6, EmptySeq DEF ClientQuits, Here!Destroy
<1>7. CASE ClientLosesServer
  BY <1>0, <1>7, EmptySeq DEF ClientLosesServer, Here!RemoteGone
<1> QED
  BY <1>1, <1>2, <1>3, <1>4, <1>5, <1>6, <1>7

\* What the server answers in a tick is on its way to the client at once, and
\* is not more than was asked.
LEMMA ServerKeepsSession ==
    ASSUME SessionInv, ServerFacts, Tally', ServerInv', ServerTicks \/ ServerStops
    PROVE  SessionInv'
<1> USE DEF SessionInv, MySlotType, hereVars
<1>1. CASE ServerStops
  BY <1>1 DEF ServerStops, stop, peerVars, EndsInv, Account, HeardOnce, Reachable
<1>2. CASE ServerTicks
  <2>0. UNCHANGED <<hereVars, mySlot>> /\ toClient' = toClient + RepliesSent(mySlot)
    BY <1>2 DEF ServerTicks
  <2>1. /\ asked' = asked /\ \A p \in Peer : Reachable(p) => Reachable(p)'
        /\ \A p \in Peer : replies[p] \in Nat /\ replies'[p] \in {replies[p], replies[p] + 1}
    BY <1>2, ServerStepAnswers DEF ServerTicks, ServerFacts
  <2>2. CASE mySlot = NULL
    <3>1. toClient' = toClient /\ mySlot' = NULL
      BY <2>0, <2>2 DEF RepliesSent, EndsInv
    <3>2. EndsInv'
      BY <2>0, <2>2, <3>1 DEF EndsInv
    <3>3. Account' /\ mySlot' = mySlot
      BY <2>0, <2>2, <3>1 DEF Account
    <3> QED
      BY <3>2, <3>3
  <2>3. CASE mySlot # NULL
    <3>1. mySlot \in Peer /\ Reachable(mySlot) /\ Reachable(mySlot)'
      BY <2>0, <2>1, <2>3 DEF EndsInv
    <3>2. toClient' = toClient + (replies'[mySlot] - replies[mySlot]) /\ toClient' \in Nat
      BY <2>0, <2>1, <2>3, <3>1 DEF RepliesSent, EndsInv
    <3>3. replies'[mySlot] \in Nat /\ replies'[mySlot] <= asked'[mySlot]
      <4>1. inbox'[mySlot] \in Seq(Payload) /\ replies'[mySlot] \in Nat
        BY <3>1 DEF ServerInv, ServerTypeOK
      <4>2. Waiting(mySlot)' \in Nat
        BY <2>0, <4>1, HandshakesFinite DEF Waiting
      <4>3. asked'[mySlot] = replies'[mySlot] + Waiting(mySlot)'
        BY <2>0, <3>1 DEF Tally, AnsweredOnce
      <4> QED
        BY <4>1, <4>2, <4>3
    <3>a. Account
      OBVIOUS
    <3>b. asked' = asked
      BY <2>1
    <3>4. asked'[mySlot] <= 1 /\ (heard => replies[mySlot] = 1)
      <4>1. asked[mySlot] <= 1
        BY <2>3, <3>a DEF Account
      <4>2. heard => replies[mySlot] = 1
        BY <2>3, <3>a DEF Account
      <4> QED
        BY <3>b, <4>1, <4>2
    <3>5. heard => replies'[mySlot] = 1
      <4>1. replies'[mySlot] \in {replies[mySlot], replies[mySlot] + 1} /\ replies'[mySlot] <= 1
        BY <2>1, <3>1, <3>3, <3>4, <3>b DEF ServerInv, ServerTypeOK
      <4> QED
        BY <3>4, <4>1
    <3>6. EndsInv'
      BY <2>0, <3>1, <3>2 DEF EndsInv
    <3>7. Account'
      <4>1. Len(incoming) \in Nat /\ HeardOnce \in Nat
        BY LenProperties DEF EndsInv, HeardOnce
      <4>2. ASSUME link = "up"
            PROVE  /\ asked'[mySlot] + outgoing = 1
                   /\ replies'[mySlot] = toClient' + Len(incoming) + HeardOnce
        <5>1. asked[mySlot] + outgoing = 1 /\ replies[mySlot] = toClient + Len(incoming) + HeardOnce
          BY <2>3, <3>a, <4>2 DEF Account
        <5>2. toClient \in Nat /\ replies[mySlot] \in Nat /\ replies'[mySlot] \in Nat
          BY <2>1, <3>1, <3>3 DEF EndsInv
        <5> QED
          BY <3>b, <3>2, <4>1, <5>1, <5>2
      <4> QED
        BY <2>0, <2>3, <3>4, <3>5, <4>2 DEF Account, HeardOnce
    <3> QED
      BY <2>0, <3>6, <3>7
  <2> QED
    BY <2>2, <2>3
<1> QED
  BY <1>1, <1>2

\* What other programs do is done to other slots.
LEMMA OthersKeepSession == SessionInv /\ ServerInv /\ OthersAct => SessionInv'
<1> SUFFICES ASSUME SessionInv, ServerInv, OthersAct PROVE SessionInv'
  OBVIOUS
<1>1. PICK p \in Peer \ {mySlot} :
          PeerConnects(p) \/ PeerLost(p) \/ \E payload \in Payload : PeerSends(p, payload)
  BY DEF OthersAct
<1>2. UNCHANGED <<hereVars, mRunning, mySlot, toClient>>
  BY DEF OthersAct
<1>3. ASSUME mySlot # NULL
      PROVE  /\ peerState'[mySlot] = peerState[mySlot] /\ asked'[mySlot] = asked[mySlot]
             /\ replies'[mySlot] = replies[mySlot]
  BY <1>1, <1>3 DEF SessionInv, MySlotType, PeerConnects, PeerLost, PeerSends, ServerInv, ServerTypeOK
<1>4. EndsInv'
  BY <1>2, <1>3 DEF SessionInv, EndsInv, Reachable, hereVars
<1>5. Account'
  BY <1>2, <1>3 DEF SessionInv, Account, HeardOnce, hereVars
<1> QED
  BY <1>2, <1>4, <1>5 DEF SessionInv, MySlotType

\* A connection is made with its handshake on the way, and nothing else.
LEMMA EstablishedStarts ==
    ASSUME SessionInv, ServerInv, Established PROVE SessionInv'
<1>1. PICK p \in Peer : PeerConnects(p) /\ mySlot' = p
  BY DEF Established
<1>2. /\ outgoing = 0 /\ outgoing' = 1 /\ incoming = <<>> /\ incoming' = <<>> /\ toClient' = 0
      /\ heard' = FALSE /\ mCurrentStage' = 0 /\ clientPc' = "idle" /\ link' = "up"
  BY DEF Established, SessionInv, EndsInv, Here!ConnectSucceeds, Here!Greeted, Here!FirstStage
<1>3. asked'[p] = 0 /\ replies'[p] = 0 /\ peerState'[p] = "connecting"
  BY <1>1 DEF PeerConnects, ServerInv, ServerTypeOK
<1>4. EndsInv'
  <2>1. incoming' \in Seq({"handshake"}) /\ outgoing' \in Nat /\ toClient' \in Nat
    BY <1>2, EmptySeq
  <2>2. heard' \in BOOLEAN /\ (mCurrentStage' = 1 => heard')
    <3>1. mCurrentStage' # 1
      BY <1>2
    <3> QED
      BY <1>2, <3>1, Zenon
  <2>3. mySlot' # NULL => Reachable(mySlot)'
    <3>1. Reachable(p)'
      BY <1>3 DEF Reachable
    <3> QED
      BY <1>1, <3>1 DEF Reachable
  <2>4. /\ clientPc' \in {"idle", "connecting", "update", "gone", "crashed"}
        /\ (clientPc' = "connecting" => link' = "connecting" /\ outgoing' = 0 /\ incoming' = <<>>)
        /\ (outgoing' > 0 => link' = "up")
    BY <1>2
  <2> QED
    BY <2>1, <2>2, <2>3, <2>4 DEF EndsInv
<1>5. Account'
  <2>1. Len(incoming') = 0 /\ HeardOnce' = 0
    BY <1>2, EmptySeq DEF HeardOnce
  <2> QED
    BY <1>1, <1>2, <1>3, <2>1 DEF Account
<1> QED
  BY <1>1, <1>4, <1>5 DEF SessionInv, MySlotType

\* A handshake that arrives was on its way to the server and is now asked; the
\* reply that arrives was on its way to the client and is now in its queue.
LEMMA TransportKeepsSession ==
    ASSUME SessionInv, ServerInv, Transport PROVE SessionInv'
<1>1. CASE HandshakeArrives
  <2>1. /\ link = "up" /\ outgoing > 0 /\ outgoing' = outgoing - 1 /\ mySlot # NULL
        /\ PeerSends(mySlot, "handshake")
        /\ UNCHANGED <<mySlot, toClient, link, incoming, heard, clientPc, mCurrentStage>>
    BY <1>1 DEF HandshakeArrives, Here!OutgoingDelivered, Here!bookkeeping
  <2>2. /\ mySlot \in Peer /\ asked \in [Peer -> Nat]
        /\ asked' = [asked EXCEPT ![mySlot] = asked[mySlot] + 1] /\ UNCHANGED <<replies, peerState>>
    BY <2>1 DEF PeerSends, SessionInv, MySlotType, ServerInv, ServerTypeOK
  <2>3. asked'[mySlot] = asked[mySlot] + 1 /\ asked[mySlot] \in Nat /\ outgoing \in Nat
    BY <2>2 DEF SessionInv, EndsInv
  <2>4. asked[mySlot] + outgoing = 1
    BY <2>1 DEF SessionInv, Account
  <2>5. asked'[mySlot] = 1 /\ outgoing' = 0
    BY <2>1, <2>3, <2>4
  <2>6. EndsInv'
    BY <2>1, <2>2, <2>5 DEF SessionInv, EndsInv, Reachable
  <2>7. Account'
    BY <2>1, <2>2, <2>5 DEF SessionInv, Account, HeardOnce
  <2> QED
    BY <2>1, <2>6, <2>7 DEF SessionInv, MySlotType
<1>2. CASE ReplyArrives
  <2>1. /\ link = "up" /\ toClient > 0 /\ toClient' = toClient - 1
        /\ incoming' = Append(incoming, "handshake")
        /\ UNCHANGED <<mySlot, link, outgoing, heard, clientPc, mCurrentStage>>
        /\ UNCHANGED <<asked, replies, peerState>>
    BY <1>2 DEF ReplyArrives, Here!Arrives, serverVars, peerVars
  <2>2. /\ incoming' \in Seq({"handshake"}) /\ Len(incoming') = Len(incoming) + 1
        /\ Len(incoming) \in Nat /\ toClient \in Nat /\ toClient' \in Nat
        /\ clientPc # "connecting"
    BY <2>1, AppendProperties, LenProperties DEF SessionInv, EndsInv
  <2>3. EndsInv'
    BY <2>1, <2>2 DEF SessionInv, EndsInv, Reachable
  <2>4. HeardOnce' = HeardOnce /\ HeardOnce \in Nat
    BY <2>1 DEF HeardOnce
  <2>5. toClient' + Len(incoming') + HeardOnce = toClient + Len(incoming) + HeardOnce
    BY <2>1, <2>2, <2>4
  <2>6. Account'
    BY <2>1, <2>4, <2>5 DEF SessionInv, Account
  <2> QED
    BY <2>1, <2>3, <2>6 DEF SessionInv, MySlotType
<1> QED
  BY <1>1, <1>2 DEF Transport

\* Each step of a session keeps its account, given what the server guarantees.
LEMMA SessionStep ==
    SessionInv /\ ServerFacts /\ ServerFacts' /\ [SessionNext]_sessionVars => SessionInv'
<1> SUFFICES ASSUME SessionInv, ServerFacts, ServerFacts', [SessionNext]_sessionVars PROVE SessionInv'
  OBVIOUS
<1>1. CASE ServerLosesClient
  BY <1>1 DEF ServerLosesClient, hereVars, SessionInv, MySlotType, EndsInv, Account
<1>2. CASE UNCHANGED sessionVars
  BY <1>2 DEF sessionVars, hereVars, serverVars, peerVars, SessionInv, MySlotType, EndsInv, Account,
     HeardOnce, Reachable
<1> QED
  BY <1>1, <1>2, ClientKeepsInv, ServerKeepsSession, OthersKeepSession, EstablishedStarts,
     TransportKeepsSession DEF SessionNext, Failures, Transport, ServerFacts

\* The session's invariant beside the server's, in every reachable state.
LEMMA SessionInductive == SessionSpec => [](SessionInv /\ ServerFacts)
<1>1. SessionInit => SessionInv
  <2> SUFFICES ASSUME SessionInit PROVE SessionInv
    OBVIOUS
  <2>1. /\ mySlot = NULL /\ toClient = 0 /\ mCurrentStage = 0 /\ clientPc = "idle"
        /\ incoming = <<>> /\ outgoing = 0 /\ heard = FALSE
    BY DEF SessionInit, Here!ClientInit
  <2>2. incoming \in Seq({"handshake"}) /\ outgoing \in Nat /\ toClient \in Nat
    BY <2>1, EmptySeq
  <2>3. heard \in BOOLEAN /\ (mCurrentStage = 1 => heard)
    <3>1. mCurrentStage # 1
      BY <2>1
    <3> QED
      BY <2>1, <3>1, Zenon
  <2>4. EndsInv
    BY <2>1, <2>2, <2>3 DEF EndsInv
  <2> QED
    BY <2>1, <2>4 DEF SessionInv, MySlotType, Account
<1>2. SessionSpec => []ServerFacts
  BY SessionImplementsServer, ServerInvariant, TallyInductive, PTL DEF ServerFacts
<1> QED
  BY <1>1, <1>2, SessionStep, PTL DEF SessionSpec

\* While both ends have the connection its handshake is in one place: on its way,
\* waiting at the server, on its way back, waiting at the client, or heard; for
\* any number of other clients, whatever they send, and any number of losses.
THEOREM HandshakeIsInOnePlace == SessionSpec => []OneHandshake
<1>1. SessionInv /\ ServerFacts => OneHandshake
  <2> SUFFICES ASSUME SessionInv, ServerFacts, mySlot # NULL, link = "up"
               PROVE  1 = outgoing + Waiting(mySlot) + toClient + Len(incoming) + HeardOnce
    BY DEF OneHandshake, HeardOnce
  <2>1. mySlot \in Peer /\ Reachable(mySlot) /\ outgoing \in Nat /\ toClient \in Nat
        /\ Len(incoming) \in Nat /\ HeardOnce \in Nat
    BY LenProperties DEF SessionInv, MySlotType, EndsInv, HeardOnce
  <2>2. asked[mySlot] + outgoing = 1 /\ replies[mySlot] = toClient + Len(incoming) + HeardOnce
    BY DEF SessionInv, Account
  <2>3. asked[mySlot] = replies[mySlot] + Waiting(mySlot) /\ Waiting(mySlot) \in Nat
    <3>1. inbox[mySlot] \in Seq(Payload)
      BY <2>1 DEF ServerFacts, ServerInv, ServerTypeOK
    <3> QED
      BY <2>1, <3>1, HandshakesFinite DEF Waiting, ServerFacts, Tally, AnsweredOnce
  <2> QED
    BY <2>1, <2>2, <2>3
<1> QED
  BY <1>1, SessionInductive, PTL

\* Stage 1 is reached by this server's one answer, and no packet of the server
\* makes the client's loop throw.
THEOREM StageIsAnswered == SessionSpec => []StageMeansAnswered
<1>1. SessionInv => StageMeansAnswered
  BY DEF SessionInv, EndsInv, Account, StageMeansAnswered
<1> QED
  BY <1>1, SessionInductive, PTL

-----------------------------------------------------------------------------
(* The session implements the admission of a client                        *)

\* A client is connected once in its life, and before that it has nothing.
Once ==
    /\ established \in Nat
    /\ clientPc = "connecting" => mInternalHost /\ established = 0
    /\ mInternalHost \/ clientPc = "gone" \/ (established = 0 /\ clientPc # "connecting")
    /\ established = 0 => /\ link # "up" /\ mySlot = NULL /\ ~heard
                          /\ outgoing = 0 /\ toClient = 0 /\ incoming = <<>>

\* What is waiting at the server is what was asked and not answered.
HeldFacts ==
    /\ Held \in Nat
    /\ mySlot # NULL => /\ mySlot \in Peer /\ asked[mySlot] \in Nat /\ replies[mySlot] \in Nat
                        /\ Held = asked[mySlot] - replies[mySlot]

LEMMA HeldCounts == SessionInv /\ ServerFacts => HeldFacts
<1> SUFFICES ASSUME SessionInv, ServerFacts PROVE HeldFacts
  OBVIOUS
<1>1. CASE mySlot = NULL
  BY <1>1 DEF HeldFacts, Held
<1>2. CASE mySlot # NULL
  <2>1. mySlot \in Peer /\ Reachable(mySlot)
    BY <1>2 DEF SessionInv, MySlotType, EndsInv
  <2>2. inbox[mySlot] \in Seq(Payload) /\ asked[mySlot] \in Nat /\ replies[mySlot] \in Nat
    BY <2>1 DEF ServerFacts, ServerInv, ServerTypeOK
  <2>3. Waiting(mySlot) \in Nat /\ asked[mySlot] = replies[mySlot] + Waiting(mySlot)
    BY <2>1, <2>2, HandshakesFinite DEF Waiting, ServerFacts, Tally, AnsweredOnce
  <2> QED
    BY <1>2, <2>1, <2>2, <2>3 DEF HeldFacts, Held
<1> QED
  BY <1>1, <1>2

\* The steps of the two ends as steps of the question: what moves and what is
\* left alone.
Joined == mySlot # NULL /\ link = "up"
Rests ==
    /\ UNCHANGED <<outgoing, Held, toClient, incoming, heard, established, mCurrentStage>>
    /\ Joined' = Joined
Asks ==
    /\ established = 0 /\ established' # 0 /\ mCurrentStage' = 0 /\ Joined' = TRUE
    /\ outgoing' = 1 /\ Held' = 0 /\ toClient' = 0 /\ incoming' = <<>> /\ heard' = FALSE
ComesToServer ==
    /\ outgoing > 0 /\ outgoing' = outgoing - 1 /\ Held' = Held + 1
    /\ UNCHANGED <<toClient, incoming, heard, established, mCurrentStage>> /\ Joined' = Joined
LeavesServer ==
    /\ Held > 0 /\ Held' = Held - 1 /\ toClient' = toClient + 1
    /\ UNCHANGED <<outgoing, incoming, heard, established, mCurrentStage>> /\ Joined' = Joined
ComesToClient ==
    /\ toClient > 0 /\ toClient' = toClient - 1 /\ Len(incoming') = Len(incoming) + 1
    /\ UNCHANGED <<outgoing, Held, heard, established, mCurrentStage>> /\ Joined' = Joined
IsHeard ==
    /\ incoming # <<>> /\ Len(incoming') = Len(incoming) - 1 /\ heard' = TRUE /\ mCurrentStage' = 1
    /\ UNCHANGED <<outgoing, Held, toClient, established>> /\ Joined' = Joined
Breaks ==
    /\ Joined' = FALSE /\ UNCHANGED <<heard, established, mCurrentStage>>
    /\ Held' \in {Held, 0} /\ toClient' \in {toClient, 0}
    /\ outgoing' \in {outgoing, 0} /\ incoming' \in {incoming, <<>>}

\* The client's own steps.
LEMMA ClientMoves ==
    ASSUME SessionInv, ServerFacts, Once,
           ClientTicks \/ ClientConnects \/ NoAnswer \/ LeaveLoop \/ ClientQuits \/ ClientLosesServer
    PROVE  (Rests \/ IsHeard \/ Breaks) /\ Once'
<1>0. UNCHANGED <<serverVars, mySlot, inbox>> /\ Held' = Held
  <2>1. UNCHANGED <<serverVars, mySlot, inbox>>
    BY DEF ClientTicks, ClientConnects, NoAnswer, LeaveLoop, ClientQuits, ClientLosesServer,
       serverVars, peerVars
  <2> QED
    BY <2>1 DEF Held, Waiting
<1>1. CASE ClientTicks /\ Here!HandlePacket
  <2>1. /\ incoming # <<>> /\ incoming' = Tail(incoming) /\ link = "up" /\ heard' = TRUE /\ mCurrentStage' = 1
        /\ UNCHANGED <<link, outgoing, toClient, established, mInternalHost>>
        /\ clientPc = "update" /\ clientPc' = "update"
    <3>1. incoming # <<>> /\ Head(incoming) = "handshake"
      BY <1>1, HeadTailProperties, EmptySeq DEF Here!HandlePacket, SessionInv, EndsInv
    <3> QED
      BY <1>1, <3>1 DEF ClientTicks, Here!HandlePacket, Here!StageAfter, Here!pointers
  <2>2. Len(incoming') = Len(incoming) - 1
    BY <2>1, HeadTailProperties, EmptySeq DEF SessionInv, EndsInv
  <2>3. IsHeard
    BY <1>0, <2>1, <2>2 DEF IsHeard, Joined
  <2>4. Once'
    BY <1>0, <2>1 DEF Once
  <2> QED
    BY <2>3, <2>4
<1>2. CASE ClientTicks /\ ~Here!HandlePacket
  <2>1. UNCHANGED <<toClient, incoming, outgoing, heard, mCurrentStage, established, mInternalHost>>
        /\ clientPc # "connecting" /\ clientPc # "gone" /\ clientPc' # "connecting"
        /\ (link' = link \/ (link' = "down" /\ link = "zombie"))
    BY <1>2 DEF ClientTicks, Here!UpdateLoop, Here!BeginClientUpdate, Here!HandleDisconnected,
       Here!EndClientUpdate, Here!Disconnect, Here!pointers, Here!wire, Here!bookkeeping
  <2>2. Rests
    BY <1>0, <2>1 DEF Rests, Joined
  <2>3. Once'
    BY <1>0, <2>1 DEF Once
  <2> QED
    BY <2>2, <2>3
<1>3. CASE ClientConnects
  <2>1. PICK address \in Address : Here!ConnectReturnsAtOnce(address) \/ Here!BeginConnect(address)
    BY <1>3 DEF ClientConnects, Here!ConnectCall
  <2>2. toClient' = toClient
    BY <1>3 DEF ClientConnects
  <2>3. CASE Here!ConnectReturnsAtOnce(address)
    <3>1. UNCHANGED <<mCurrentStage, mInternalHost, clientPc, link, incoming, outgoing, established, heard>>
      BY <2>3 DEF Here!ConnectReturnsAtOnce, Here!pointers, Here!wire
    <3> QED
      BY <1>0, <2>2, <3>1 DEF Rests, Joined, Once
  <2>4. CASE Here!BeginConnect(address)
    <3>1. /\ ~mInternalHost /\ clientPc = "idle" /\ mInternalHost' = TRUE /\ clientPc' = "connecting"
          /\ link' = "connecting" /\ incoming' = <<>> /\ outgoing' = 0
          /\ UNCHANGED <<mCurrentStage, established, heard>>
      BY <2>4 DEF Here!BeginConnect, Here!CallsConnect, Here!HasEndpoint
    <3>2. established = 0
      BY <3>1 DEF Once
    <3>3. link # "up" /\ mySlot = NULL /\ ~heard /\ outgoing = 0 /\ toClient = 0 /\ incoming = <<>>
      BY <3>2 DEF Once
    <3>4. Rests
      BY <1>0, <2>2, <3>1, <3>3 DEF Rests, Joined
    <3>5. Once'
      BY <1>0, <2>2, <3>1, <3>2, <3>3 DEF Once
    <3> QED
      BY <3>4, <3>5
  <2> QED
    BY <2>1, <2>3, <2>4
<1>4. CASE NoAnswer
  <2>1. /\ clientPc = "connecting" /\ clientPc' = "idle" /\ link' = "down" /\ incoming' = <<>> /\ outgoing' = 0
        /\ UNCHANGED <<mCurrentStage, mInternalHost, established, heard, toClient>>
    BY <1>4 DEF NoAnswer, Here!ConnectFails, Here!pointers
  <2>2. mInternalHost /\ established = 0
    BY <2>1 DEF Once
  <2>3. link # "up" /\ mySlot = NULL /\ ~heard /\ outgoing = 0 /\ toClient = 0 /\ incoming = <<>>
    BY <2>2 DEF Once
  <2>4. Rests
    BY <1>0, <2>1, <2>3 DEF Rests, Joined
  <2>5. Once'
    BY <1>0, <2>1, <2>2, <2>3 DEF Once
  <2> QED
    BY <2>4, <2>5
<1>5. CASE LeaveLoop
  <2>1. UNCHANGED <<mCurrentStage, mInternalHost, link, incoming, outgoing, established, heard, toClient>>
        /\ clientPc = "idle" /\ clientPc' = "idle"
    BY <1>5 DEF LeaveLoop, Here!Disconnect, Here!pointers, Here!wire, Here!bookkeeping
  <2> QED
    BY <1>0, <2>1 DEF Rests, Joined, Once
<1>6. CASE ClientQuits
  <2>1. /\ clientPc' = "gone" /\ link' = "none" /\ incoming' = <<>> /\ outgoing' = 0
        /\ UNCHANGED <<mCurrentStage, established, heard, toClient>>
    BY <1>6 DEF ClientQuits, Here!Destroy, Here!bookkeeping
  <2> QED
    BY <1>0, <2>1 DEF Breaks, Joined, Once
<1>7. CASE ClientLosesServer
  <2>1. /\ link = "up" /\ link' = "zombie" /\ incoming' = <<>> /\ outgoing' = 0 /\ toClient' = 0
        /\ UNCHANGED <<mCurrentStage, mInternalHost, clientPc, established, heard>>
    BY <1>7 DEF ClientLosesServer, Here!RemoteGone, Here!pointers, Here!bookkeeping
  <2> QED
    BY <1>0, <2>1 DEF Breaks, Joined, Once
<1> QED
  BY <1>1, <1>2, <1>3, <1>4, <1>5, <1>6, <1>7

\* The server's steps: an answer to the client's slot leaves the server, all
\* other answers are other clients' business.
LEMMA ServerMoves ==
    ASSUME SessionInv, ServerFacts, SessionInv', ServerFacts', Once, ServerTicks \/ ServerStops
    PROVE  (Rests \/ LeavesServer) /\ Once'
<1>0. HeldFacts /\ HeldFacts'
  BY HeldCounts, PTL
<1>1. /\ UNCHANGED <<mySlot, link, outgoing, incoming, heard, established, mCurrentStage, mInternalHost, clientPc>>
      /\ Joined' = Joined
  BY DEF ServerTicks, ServerStops, hereVars, Joined
<1>2. mySlot = NULL => Held' = Held /\ toClient' = toClient
  <2> SUFFICES ASSUME mySlot = NULL PROVE Held' = Held /\ toClient' = toClient
    OBVIOUS
  <2>1. Held' = Held
    BY <1>1 DEF Held
  <2>2. RepliesSent(mySlot) = 0 /\ toClient \in Nat
    BY DEF RepliesSent, SessionInv, EndsInv
  <2> QED
    BY <2>1, <2>2 DEF ServerTicks, ServerStops
<1>3. mySlot # NULL => \/ Held' = Held /\ toClient' = toClient
                       \/ Held > 0 /\ Held' = Held - 1 /\ toClient' = toClient + 1
  <2> SUFFICES ASSUME mySlot # NULL
               PROVE  \/ Held' = Held /\ toClient' = toClient
                      \/ Held > 0 /\ Held' = Held - 1 /\ toClient' = toClient + 1
    OBVIOUS
  <2>1. /\ mySlot \in Peer /\ asked[mySlot] \in Nat /\ replies[mySlot] \in Nat
        /\ Held = asked[mySlot] - replies[mySlot] /\ Held' = asked'[mySlot] - replies'[mySlot]
        /\ Held \in Nat /\ Held' \in Nat /\ toClient \in Nat
    BY <1>0, <1>1 DEF HeldFacts, SessionInv, EndsInv
  <2>2. CASE ServerStops
    <3>1. UNCHANGED <<asked, replies, toClient>>
      BY <2>2 DEF ServerStops, stop, peerVars
    <3> QED
      BY <2>1, <3>1
  <2>3. CASE ServerTicks
    <3>1. asked' = asked /\ replies'[mySlot] \in {replies[mySlot], replies[mySlot] + 1}
      BY <2>1, <2>3, ServerStepAnswers DEF ServerTicks, ServerFacts
    <3>2. toClient' = toClient + (replies'[mySlot] - replies[mySlot])
      BY <2>3 DEF ServerTicks, RepliesSent
    <3> QED
      BY <2>1, <3>1, <3>2
  <2> QED
    BY <2>2, <2>3
<1>4. Rests \/ LeavesServer
  BY <1>1, <1>2, <1>3 DEF Rests, LeavesServer
<1>5. mySlot = NULL => toClient' = toClient
  BY <1>2
<1>6. Once'
  BY <1>1, <1>5 DEF Once
<1> QED
  BY <1>4, <1>6

\* What the other programs and the network do.
LEMMA OutsideMoves ==
    ASSUME SessionInv, ServerFacts, SessionInv', ServerFacts', Once,
           OthersAct \/ Established \/ HandshakeArrives \/ ReplyArrives \/ ServerLosesClient
    PROVE  (Rests \/ Asks \/ ComesToServer \/ ComesToClient \/ Breaks) /\ Once'
<1>0. HeldFacts /\ HeldFacts'
  BY HeldCounts, PTL
<1>1. CASE OthersAct
  <2>1. PICK p \in Peer \ {mySlot} :
            PeerConnects(p) \/ PeerLost(p) \/ \E payload \in Payload : PeerSends(p, payload)
    BY <1>1 DEF OthersAct
  <2>2. /\ UNCHANGED <<mySlot, toClient, link, outgoing, incoming, heard, established, mCurrentStage,
                       mInternalHost, clientPc>>
        /\ Joined' = Joined
    BY <1>1 DEF OthersAct, hereVars, Joined
  <2>3. mySlot # NULL => asked'[mySlot] = asked[mySlot] /\ replies'[mySlot] = replies[mySlot]
    BY <2>1 DEF SessionInv, MySlotType, PeerConnects, PeerLost, PeerSends, ServerFacts, ServerInv, ServerTypeOK
  <2>4. Held' = Held
    BY <1>0, <2>2, <2>3 DEF HeldFacts, Held
  <2> QED
    BY <2>2, <2>4 DEF Rests, Once
<1>2. CASE Established
  <2>1. PICK p \in Peer : PeerConnects(p) /\ mySlot' = p
    BY <1>2 DEF Established
  <2>2. /\ clientPc = "connecting" /\ outgoing = 0 /\ outgoing' = 1 /\ incoming' = <<>> /\ toClient' = 0
        /\ heard' = FALSE /\ mCurrentStage' = 0 /\ clientPc' = "idle" /\ link' = "up"
        /\ established' = established + 1 /\ mInternalHost' = mInternalHost
    BY <1>2 DEF Established, SessionInv, EndsInv, Here!ConnectSucceeds, Here!Greeted, Here!FirstStage,
       Here!pointers
  <2>3. established = 0 /\ mInternalHost
    BY <2>2 DEF Once
  <2>4. mySlot' # NULL
    BY <2>1, ServerNetAssumption
  <2>5. Held' = 0
    <3>1. asked'[p] = 0 /\ replies'[p] = 0
      BY <2>1 DEF PeerConnects, ServerFacts, ServerInv, ServerTypeOK
    <3> QED
      BY <1>0, <2>1, <2>4, <3>1 DEF HeldFacts
  <2>6. Asks
    BY <2>2, <2>3, <2>4, <2>5 DEF Asks, Joined
  <2>7. Once'
    BY <2>2, <2>3 DEF Once
  <2> QED
    BY <2>6, <2>7
<1>3. CASE HandshakeArrives
  <2>1. /\ link = "up" /\ outgoing > 0 /\ outgoing' = outgoing - 1 /\ mySlot # NULL
        /\ PeerSends(mySlot, "handshake")
        /\ UNCHANGED <<mySlot, toClient, link, incoming, heard, clientPc, mCurrentStage, established, mInternalHost>>
    BY <1>3 DEF HandshakeArrives, Here!OutgoingDelivered, Here!bookkeeping, Here!pointers
  <2>2. asked'[mySlot] = asked[mySlot] + 1 /\ replies' = replies
    BY <1>0, <2>1 DEF PeerSends, HeldFacts, ServerFacts, ServerInv, ServerTypeOK
  <2>3. Held' = Held + 1
    BY <1>0, <2>1, <2>2 DEF HeldFacts
  <2>4. ComesToServer
    BY <2>1, <2>3 DEF ComesToServer, Joined
  <2>5. Once'
    BY <2>1 DEF Once
  <2> QED
    BY <2>4, <2>5
<1>4. CASE ReplyArrives
  <2>1. /\ link = "up" /\ toClient > 0 /\ toClient' = toClient - 1
        /\ incoming' = Append(incoming, "handshake")
        /\ UNCHANGED <<mySlot, link, outgoing, heard, clientPc, mCurrentStage, established, mInternalHost, inbox>>
    BY <1>4 DEF ReplyArrives, Here!Arrives, Here!pointers, serverVars, peerVars
  <2>2. Len(incoming') = Len(incoming) + 1 /\ Held' = Held
    BY <2>1, AppendProperties DEF SessionInv, EndsInv, Held, Waiting
  <2>3. ComesToClient
    BY <2>1, <2>2 DEF ComesToClient, Joined
  <2>4. Once'
    BY <2>1 DEF Once
  <2> QED
    BY <2>3, <2>4
<1>5. CASE ServerLosesClient
  <2>1. /\ mySlot # NULL /\ mySlot' = NULL
        /\ UNCHANGED <<toClient, link, outgoing, incoming, heard, established, mCurrentStage, mInternalHost, clientPc>>
    BY <1>5 DEF ServerLosesClient, hereVars
  <2>2. Breaks
    BY <2>1 DEF Breaks, Joined, Held
  <2>3. Once'
    BY <2>1 DEF Once
  <2> QED
    BY <2>2, <2>3
<1> QED
  BY <1>1, <1>2, <1>3, <1>4, <1>5

\* Wherever the question is, it is in no other place: also when one end or both
\* have lost the connection.
Total == outgoing + Held + toClient + Len(incoming) + HeardOnce
InOnePlace == Total <= 1

\* The place follows from the counts; no two of its cases hold together.
PlaceFacts ==
    /\ heard => Place = "heard"
    /\ incoming # <<>> => Place = "atClient"
    /\ toClient > 0 => Place = "toClient"
    /\ Held > 0 => Place = "atServer"
    /\ outgoing > 0 => Place = "toServer"
    /\ ~heard /\ incoming = <<>> /\ toClient = 0 /\ Held = 0 /\ outgoing = 0
         => Place = IF established = 0 THEN "none" ELSE "lost"

\* The counts are numbers, and none in the queue is an empty queue.
Counts ==
    /\ outgoing \in Nat /\ Held \in Nat /\ toClient \in Nat /\ HeardOnce \in {0, 1}
    /\ Len(incoming) \in Nat /\ (incoming = <<>> <=> Len(incoming) = 0)
    /\ (heard <=> HeardOnce = 1)
LEMMA CountsAreNumbers == SessionInv /\ HeldFacts => Counts
  BY LenProperties, EmptySeq DEF SessionInv, EndsInv, HeldFacts, HeardOnce, Counts

LEMMA PlaceFollows == SessionInv /\ HeldFacts /\ InOnePlace => PlaceFacts
<1> SUFFICES ASSUME SessionInv, HeldFacts, InOnePlace PROVE PlaceFacts
  OBVIOUS
<1>1. Counts /\ Total <= 1
  BY CountsAreNumbers DEF InOnePlace
<1>2. CASE heard
  BY <1>1, <1>2 DEF Counts, Total, PlaceFacts, Place
<1>3. CASE ~heard /\ incoming # <<>>
  BY <1>1, <1>3 DEF Counts, Total, PlaceFacts, Place
<1>4. CASE ~heard /\ incoming = <<>>
  BY <1>1, <1>4 DEF Counts, Total, PlaceFacts, Place
<1> QED
  BY <1>2, <1>3, <1>4

AnyMove == Rests \/ Asks \/ ComesToServer \/ LeavesServer \/ ComesToClient \/ IsHeard \/ Breaks

\* Every step of a session is one of these moves.
LEMMA StepsAreMoves ==
    SessionInv /\ ServerFacts /\ SessionInv' /\ ServerFacts' /\ Once /\ [SessionNext]_sessionVars
        => AnyMove /\ Once'
<1> SUFFICES ASSUME SessionInv, ServerFacts, SessionInv', ServerFacts', Once, [SessionNext]_sessionVars
             PROVE  AnyMove /\ Once'
  OBVIOUS
<1>1. CASE UNCHANGED sessionVars
  BY <1>1 DEF sessionVars, hereVars, serverVars, peerVars, AnyMove, Rests, Held, Waiting, Joined, Once
<1> QED
  BY <1>1, ClientMoves, ServerMoves, OutsideMoves DEF SessionNext, Transport, Failures, AnyMove

\* No move makes a second question of the one there is.
LEMMA MovesKeepOne ==
    ASSUME SessionInv, SessionInv', HeldFacts, HeldFacts', Once, InOnePlace, AnyMove
    PROVE  InOnePlace'
<1>1. Counts /\ Total <= 1
  BY CountsAreNumbers DEF InOnePlace
<1>2. Counts'
  BY CountsAreNumbers, PTL
<1> USE DEF Counts
<1>3. Total' <= 1
  <2>1. CASE Asks
    <3>1. HeardOnce' = 0 /\ Len(incoming') = 0
      BY <1>2, <2>1 DEF Asks, HeardOnce
    <3> QED
      BY <2>1, <3>1 DEF Asks, Total
  <2>2. CASE IsHeard
    <3>1. HeardOnce' = 1 /\ Len(incoming) > 0 /\ Len(incoming') = Len(incoming) - 1
      BY <1>1, <2>2 DEF IsHeard, HeardOnce
    <3> QED
      BY <1>1, <2>2, <3>1 DEF IsHeard, Total
  <2>3. CASE Rests \/ ComesToServer \/ LeavesServer \/ ComesToClient
    <3>1. HeardOnce' = HeardOnce
      BY <2>3 DEF Rests, ComesToServer, LeavesServer, ComesToClient, HeardOnce
    <3> QED
      BY <1>1, <2>3, <3>1 DEF Rests, ComesToServer, LeavesServer, ComesToClient, Total
  <2>4. CASE Breaks
    <3>1. HeardOnce' = HeardOnce /\ Len(incoming') <= Len(incoming)
      BY <1>1, <1>2, <2>4 DEF Breaks, HeardOnce
    <3>2. outgoing' <= outgoing /\ Held' <= Held /\ toClient' <= toClient
      BY <1>1, <2>4 DEF Breaks
    <3>3. /\ {outgoing, Held, toClient, Len(incoming), HeardOnce} \subseteq Nat
          /\ {outgoing', Held', toClient', Len(incoming'), HeardOnce'} \subseteq Nat
          /\ outgoing + Held + toClient + Len(incoming) + HeardOnce <= 1
      BY <1>1, <1>2 DEF Total
    <3>4. outgoing' + Held' + toClient' + Len(incoming') + HeardOnce' <= 1
      <4> HIDE DEF Counts
      <4> QED
        BY <3>1, <3>2, <3>3
    <3> QED
      BY <3>4 DEF Total
  <2> QED
    BY <2>1, <2>2, <2>3, <2>4 DEF AnyMove
<1> QED
  BY <1>3 DEF InOnePlace

\* Each move is a step of the admission.
LEMMA MovesAreSteps ==
    ASSUME SessionInv, SessionInv', HeldFacts, HeldFacts', Once, InOnePlace, InOnePlace', AnyMove
    PROVE  [Admitting!AdmissionNext]_Admitting!admissionVars
<1>1. PlaceFacts /\ PlaceFacts'
  BY PlaceFollows, PTL
<1>2. Counts /\ Total <= 1
  BY CountsAreNumbers DEF InOnePlace
<1>3. Counts' /\ Total' <= 1
  <2>1. Counts'
    BY CountsAreNumbers, PTL
  <2> QED
    BY <2>1 DEF InOnePlace
<1> USE DEF Joined, Counts, Total
<1>4. CASE Rests
  <2>1. Place' = Place
    BY <1>4 DEF Rests, Place
  <2> QED
    BY <1>4, <2>1 DEF Rests, Admitting!admissionVars
<1>5. CASE Asks
  <2>1. Place = "none"
    <3>1. ~heard /\ outgoing = 0 /\ toClient = 0 /\ incoming = <<>> /\ mySlot = NULL
      BY <1>5 DEF Asks, Once
    <3> QED
      BY <1>1, <1>5, <3>1 DEF Asks, PlaceFacts, Held
  <2>2. Place' = "toServer"
    BY <1>1, <1>5 DEF Asks, PlaceFacts
  <2>3. Admitting!Ask
    BY <1>5, <2>1, <2>2 DEF Asks, Admitting!Ask
  <2> QED
    BY <2>3 DEF Admitting!AdmissionNext
<1>6. CASE ComesToServer
  <2>1. Place = "toServer" /\ Place' = "atServer"
    BY <1>1, <1>2, <1>3, <1>6 DEF ComesToServer, PlaceFacts
  <2> QED
    BY <1>6, <2>1 DEF ComesToServer, Admitting!AdmissionNext, Admitting!Reaches, Admitting!Moves
<1>7. CASE LeavesServer
  <2>1. Place = "atServer" /\ Place' = "toClient"
    BY <1>1, <1>2, <1>3, <1>7 DEF LeavesServer, PlaceFacts
  <2> QED
    BY <1>7, <2>1 DEF LeavesServer, Admitting!AdmissionNext, Admitting!IsAnswered, Admitting!Moves
<1>8. CASE ComesToClient
  <2>1. Place = "toClient" /\ Place' = "atClient"
    BY <1>1, <1>2, <1>3, <1>8 DEF ComesToClient, PlaceFacts
  <2> QED
    BY <1>8, <2>1 DEF ComesToClient, Admitting!AdmissionNext, Admitting!Returns, Admitting!Moves
<1>9. CASE IsHeard
  <2>1. Place = "atClient" /\ Place' = "heard"
    BY <1>1, <1>9 DEF IsHeard, PlaceFacts
  <2> QED
    BY <1>9, <2>1 DEF IsHeard, Admitting!AdmissionNext, Admitting!Hear, Admitting!Moves
<1>10. CASE Breaks
  <2>1. CASE heard
    <3>1. Place = "heard" /\ Place' = "heard"
      BY <1>1, <1>10, <2>1 DEF Breaks, PlaceFacts
    <3> QED
      BY <1>10, <3>1 DEF Breaks, Admitting!AdmissionNext, Admitting!Break
  <2>2. CASE ~heard /\ outgoing = 0 /\ Held = 0 /\ toClient = 0 /\ incoming = <<>>
    <3>1. Place' = Place
      BY <1>1, <1>10, <2>2 DEF Breaks, PlaceFacts
    <3> QED
      BY <1>10, <3>1 DEF Breaks, Admitting!AdmissionNext, Admitting!Break
  <2>3. CASE ~heard /\ ~(outgoing = 0 /\ Held = 0 /\ toClient = 0 /\ incoming = <<>>)
    <3>1. established # 0
      BY <2>3 DEF Once, Held
    <3>2. Place \notin {"none", "heard"} /\ Place' \in {Place, "lost"}
      <4>1. CASE outgoing > 0
        BY <1>1, <1>2, <1>10, <2>3, <3>1, <4>1 DEF Breaks, PlaceFacts
      <4>2. CASE Held > 0
        BY <1>1, <1>2, <1>10, <2>3, <3>1, <4>2 DEF Breaks, PlaceFacts
      <4>3. CASE toClient > 0
        BY <1>1, <1>2, <1>10, <2>3, <3>1, <4>3 DEF Breaks, PlaceFacts
      <4>4. CASE incoming # <<>>
        BY <1>1, <1>2, <1>10, <2>3, <3>1, <4>4 DEF Breaks, PlaceFacts
      <4> QED
        BY <1>2, <2>3, <4>1, <4>2, <4>3, <4>4
    <3> QED
      BY <1>10, <3>2 DEF Breaks, Admitting!AdmissionNext, Admitting!Break
  <2> QED
    BY <2>1, <2>2, <2>3
<1> QED
  BY <1>4, <1>5, <1>6, <1>7, <1>8, <1>9, <1>10 DEF AnyMove

\* A session in which the client and the server keep their connection admits
\* the client by one question and one answer, with any number of other clients,
\* any packets of theirs and any losses on either side.
THEOREM SessionImplementsAdmission == SessionSpec => ImplementsAdmission
<1> DEFINE Facts == SessionInv /\ ServerFacts
           One == HeldFacts /\ Once /\ InOnePlace
<1>1. SessionInit => Once /\ Admitting!AdmissionInit /\ Total = 0
  <2> SUFFICES ASSUME SessionInit PROVE Once /\ Admitting!AdmissionInit /\ Total = 0
    OBVIOUS
  <2>1. /\ mySlot = NULL /\ toClient = 0 /\ mCurrentStage = 0 /\ clientPc = "idle" /\ link = "none"
        /\ incoming = <<>> /\ outgoing = 0 /\ heard = FALSE /\ established = 0 /\ mInternalHost = FALSE
    BY DEF SessionInit, Here!ClientInit
  <2>2. Held = 0 /\ Len(incoming) = 0 /\ HeardOnce = 0
    BY <2>1, EmptySeq DEF Held, HeardOnce
  <2>3. Total = 0 /\ Once
    BY <2>1, <2>2 DEF Total, Once
  <2>4. Place = "none"
    BY <2>1, <2>2 DEF Place
  <2> QED
    BY <2>1, <2>3, <2>4 DEF Admitting!AdmissionInit
<1>2. SessionInit => Once /\ InOnePlace
  BY <1>1 DEF InOnePlace
<1>3. Facts => HeldFacts
  BY HeldCounts
<1>4. Facts /\ Facts' /\ One /\ HeldFacts' /\ [SessionNext]_sessionVars
        => One' /\ [Admitting!AdmissionNext]_Admitting!admissionVars
  BY StepsAreMoves, MovesKeepOne, MovesAreSteps
<1>5. SessionSpec => []Facts
  BY SessionInductive, PTL
<1> HIDE DEF Facts
<1>6. SessionSpec => []One
  BY <1>2, <1>3, <1>4, <1>5, PTL DEF SessionSpec
<1> QED
  BY <1>1, <1>3, <1>4, <1>5, <1>6, PTL DEF SessionSpec, ImplementsAdmission, Admitting!AdmissionSpec

\* The session implements the client's module too, with the server and the
\* network as its environment: what is proved of the client holds here.
THEOREM SessionImplementsClient == SessionSpec => Here!ClientSpec
<1>1. SessionInit => Here!ClientInit
  BY DEF SessionInit
<1>2. [SessionNext]_sessionVars => [Here!ClientNext]_Here!clientVars
  <2> SUFFICES ASSUME [SessionNext]_sessionVars PROVE [Here!ClientNext]_Here!clientVars
    OBVIOUS
  <2>1. CASE ServerTicks \/ ServerStops \/ OthersAct \/ ServerLosesClient \/ UNCHANGED sessionVars
    BY <2>1 DEF ServerTicks, ServerStops, OthersAct, ServerLosesClient, sessionVars, hereVars,
       Here!clientVars, Here!pointers, Here!wire, Here!bookkeeping
  <2>2. CASE ClientTicks \/ ClientConnects \/ LeaveLoop \/ ClientQuits
    BY <2>2 DEF ClientTicks, ClientConnects, LeaveLoop, ClientQuits, Here!ClientNext
  <2>3. CASE Established \/ HandshakeArrives \/ NoAnswer \/ ClientLosesServer
    BY <2>3 DEF Established, HandshakeArrives, NoAnswer, ClientLosesServer, Here!ClientNext
  <2>4. CASE ReplyArrives
    <3>1. Here!Arrives("handshake") /\ "handshake" \in Here!Packet
      BY <2>4 DEF ReplyArrives, Here!Packet
    <3> QED
      BY <3>1 DEF Here!ClientNext
  <2> QED
    BY <2>1, <2>2, <2>3, <2>4 DEF SessionNext, Transport, Failures
<1> QED
  BY <1>1, <1>2, PTL DEF SessionSpec, Here!ClientSpec
=============================================================================
