------------------------ MODULE GossipServiceProofs ------------------------
(***************************************************************************)
(* Proofs about the gossip Service's event loop (GossipService), for every *)
(* set of peers and every bound: the type invariant, the consistency of    *)
(* ProtocolStarted / ProtocolTerminated with the streams map.              *)
(***************************************************************************)
EXTENDS GossipService, SequenceTheorems, TLAPS

\* TerminationConsistent is not inductive: a step that registers a stream
\* must know the stream is fresh (never started, never terminated) and not
\* another peer's Protocol.  Fresh streams are those at or above
\* nextStream and those still waiting in inboundCh.
FreshStreams ==
  /\ \A s \in Streams : s >= nextStream => s \notin started /\ terminated[s] = 0
  /\ \A s \in inboundCh : s < nextStream /\ s \notin started

\* Two peers never share a Protocol.
DistinctSessions ==
  \A p, q \in Peers :
    p # q /\ streams[p] # NoSession => streams[p] # streams[q]

IInv == TypeOK /\ TerminationConsistent /\ FreshStreams /\ DistinctSessions

-----------------------------------------------------------------------------
(***************************************************************************)
(* Lemmas about the messages of the peer manager's queue.                  *)
(***************************************************************************)

\* Every manager message names a peer and carries a direction.
LEMMA MgrMsgFields ==
  ASSUME NEW m \in MgrMsgs
  PROVE  /\ m.peer \in Peers
         /\ m.kind \in {"connected", "disconnected", "relation"}
         /\ m.kind = "connected" => m.dir \in {"inbound", "outbound"}
BY DEF MgrMsgs, ConnectedMsg, DisconnectedMsg, RelationUpdatedMsg

\* The messages the handlers append are manager messages.
LEMMA MgrMsgsMembers ==
  ASSUME NEW p \in Peers
  PROVE  /\ ConnectedMsg(p, "inbound") \in MgrMsgs
         /\ ConnectedMsg(p, "outbound") \in MgrMsgs
         /\ DisconnectedMsg(p) \in MgrMsgs
         /\ RelationUpdatedMsg(p) \in MgrMsgs
BY DEF MgrMsgs

\* Appending to the manager queue keeps it a queue of manager messages.
LEMMA QueueAppend ==
  ASSUME NEW q \in Seq(MgrMsgs), NEW m \in MgrMsgs
  PROVE  Append(q, m) \in Seq(MgrMsgs)
BY AppendProperties

\* Receiving from a non-empty manager queue yields a manager message about
\* a peer, and leaves a queue of manager messages.
LEMMA QueueReceive ==
  ASSUME NEW q \in Seq(MgrMsgs), q # << >>
  PROVE  /\ Head(q) \in MgrMsgs
         /\ Head(q).peer \in Peers
         /\ Tail(q) \in Seq(MgrMsgs)
BY HeadTailProperties, MgrMsgFields

-----------------------------------------------------------------------------
(***************************************************************************)
(* Type correctness.                                                       *)
(***************************************************************************)

\* The initial state of NewService / Start is well typed.
LEMMA TypeInit == Init => TypeOK
<1> SUFFICES ASSUME Init PROVE TypeOK
  OBVIOUS
<1>1. streams \in [Peers -> Streams \cup {NoSession}]
  BY DEF Init
<1>2. /\ relation \in [Peers -> Relations]
      /\ conn \in [Peers -> ConnStates]
      /\ epoch \in [Peers -> Nat]
  BY DEF Init, ConnStates
<1>3. /\ sState \in [Streams -> StreamStates]
      /\ sPeer \in [Streams -> Peers]
      /\ sEpoch \in [Streams -> Nat]
      /\ terminated \in [Streams -> Nat]
  BY DEF Init, StreamStates
<1>4. /\ nextStream \in 1 .. MaxStreams + 1
      /\ envSteps \in 0 .. MaxEnvSteps
  BY MaxStreamsAssumption, MaxEnvStepsAssumption DEF Init
<1>5. mgrCh \in Seq(MgrMsgs)
  BY DEF Init
<1>6. QED
  BY <1>1, <1>2, <1>3, <1>4, <1>5 DEF Init, TypeOK

\* Closing the connection to p keeps the transport and the queue typed.
LEMMA DropConnType ==
  ASSUME TypeOK, NEW p \in Peers, NEW pending \in SUBSET Streams,
         DropConn(p, pending)
  PROVE  /\ conn' \in [Peers -> ConnStates]
         /\ sState' \in [Streams -> StreamStates]
         /\ closedCh' \subseteq Streams
         /\ mgrCh' \in Seq(MgrMsgs)
<1>1. mgrCh' \in Seq(MgrMsgs)
  BY MgrMsgsMembers, QueueAppend DEF DropConn, TypeOK
<1>2. QED
  BY <1>1 DEF DropConn, Closed, OnConn, TypeOK, ConnStates, StreamStates

\* closeStream(p) keeps the streams map, the stream table and the
\* ProtocolTerminated counts typed.
LEMMA CloseStreamType ==
  ASSUME TypeOK, NEW p \in Peers, NEW pending \in SUBSET Streams,
         CloseStream(p, pending)
  PROVE  /\ streams' \in [Peers -> Streams \cup {NoSession}]
         /\ sState' \in [Streams -> StreamStates]
         /\ closedCh' \subseteq Streams
         /\ terminated' \in [Streams -> Nat]
<1>1. CASE streams[p] = NoSession /\ closedCh' = pending
           /\ UNCHANGED <<streams, sState, terminated>>
  BY <1>1 DEF TypeOK
<1>2. CASE streams[p] # NoSession /\ Deregister(p, pending)
           /\ terminated' \in {terminated,
                                [terminated EXCEPT ![streams[p]] = @ + 1]}
  <2>1. /\ streams \in [Peers -> Streams \cup {NoSession}]
        /\ sState \in [Streams -> StreamStates]
        /\ terminated \in [Streams -> Nat]
        /\ streams[p] \in Streams
    BY <1>2 DEF TypeOK
  <2>2. streams' \in [Peers -> Streams \cup {NoSession}]
    BY <1>2, <2>1 DEF Deregister
  <2>3. sState' \in [Streams -> StreamStates] /\ closedCh' \subseteq Streams
    BY <1>2, <2>1 DEF Deregister, Closed, OpenIn, StreamStates
  <2>4. terminated' \in [Streams -> Nat]
    BY <1>2, <2>1
  <2>5. QED
    BY <2>2, <2>3, <2>4
<1>3. QED
  BY <1>1, <1>2 DEF CloseStream

\* openStream and registerProtocol, or their failure, keep the state typed.
LEMMA OpenStreamType ==
  ASSUME TypeOK, NEW p \in Peers, NEW q \in Seq(MgrMsgs), OpenStream(p, q)
  PROVE  TypeOK'
<1> USE MaxStreamsAssumption
<1>1. CASE OpenAndRegister(p, q)
  <2>1. nextStream \in Streams /\ epoch[p] \in Nat
    BY <1>1 DEF OpenAndRegister, TypeOK, Streams
  <2>2. mgrCh' \in Seq(MgrMsgs)
    BY <1>1, MgrMsgsMembers, QueueAppend DEF OpenAndRegister
  <2>3. /\ conn' \in [Peers -> ConnStates]
        /\ epoch' \in [Peers -> Nat]
    BY <1>1, <2>1 DEF OpenAndRegister, TypeOK, ConnStates
  <2>4. /\ sState' \in [Streams -> StreamStates]
        /\ sPeer' \in [Streams -> Peers]
        /\ sEpoch' \in [Streams -> Nat]
    <3> DEFINE ep == IF conn[p] = "none" THEN epoch[p] + 1 ELSE epoch[p]
    <3>0. ep \in Nat
      BY <2>1
    <3>1. /\ sState' = [sState EXCEPT ![nextStream] = "open"]
          /\ sPeer' = [sPeer EXCEPT ![nextStream] = p]
          /\ sEpoch' = [sEpoch EXCEPT ![nextStream] = ep]
      BY <1>1, Zenon DEF OpenAndRegister
    <3>2. sState' \in [Streams -> StreamStates]
      BY <3>1 DEF TypeOK, StreamStates
    <3>3. sPeer' \in [Streams -> Peers]
      BY <3>1 DEF TypeOK
    <3>4. sEpoch' \in [Streams -> Nat]
      BY <3>0, <3>1 DEF TypeOK
    <3>5. QED
      BY <3>2, <3>3, <3>4
  <2>5. /\ nextStream' \in 1 .. MaxStreams + 1
        /\ streams' \in [Peers -> Streams \cup {NoSession}]
        /\ started' \subseteq Streams
    BY <1>1, <2>1 DEF OpenAndRegister, TypeOK, Streams
  <2>6. QED
    BY <1>1, <2>2, <2>3, <2>4, <2>5 DEF OpenAndRegister, TypeOK
<1>2. CASE OpenFailed(q)
  BY <1>2 DEF OpenFailed, TypeOK
<1>3. QED
  BY <1>1, <1>2 DEF OpenStream

\* Every handler of the event loop and every environment step keeps the
\* streams map, the stream table and the manager queue well typed.
LEMMA TypeStep == TypeOK /\ [Next]_vars => TypeOK'
<1> USE MaxStreamsAssumption, MaxEnvStepsAssumption, NoSessionAssumption
<1> SUFFICES ASSUME TypeOK, [Next]_vars PROVE TypeOK'
  OBVIOUS
<1>1. ASSUME NEW p \in Peers, NEW d \in {"inbound", "outbound"}, Connect(p, d)
      PROVE TypeOK'
  <2>1. mgrCh' \in Seq(MgrMsgs)
    BY <1>1, MgrMsgsMembers, QueueAppend DEF Connect, TypeOK
  <2>2. QED
    BY <1>1, <2>1 DEF Connect, TypeOK, ConnStates
<1>2. ASSUME NEW p \in Peers, Disconnect(p) PROVE TypeOK'
  BY <1>2, DropConnType DEF Disconnect, TypeOK
<1>3. ASSUME NEW p \in Peers, NEW r \in Relations, UpdateRelation(p, r)
      PROVE TypeOK'
  <2>1. mgrCh' \in Seq(MgrMsgs)
    BY <1>3, MgrMsgsMembers, QueueAppend DEF UpdateRelation, TypeOK
  <2>2. QED
    BY <1>3, <2>1 DEF UpdateRelation, TypeOK
<1>4. ASSUME NEW p \in Peers, RemoteOpenStream(p) PROVE TypeOK'
  <2>1. nextStream \in Streams /\ epoch[p] \in Nat
    BY <1>4 DEF RemoteOpenStream, TypeOK, Streams
  <2>2. /\ sState' \in [Streams -> StreamStates]
        /\ sPeer' \in [Streams -> Peers]
        /\ sEpoch' \in [Streams -> Nat]
        /\ nextStream' \in 1 .. MaxStreams + 1
        /\ inboundCh' \subseteq Streams
    BY <1>4, <2>1 DEF RemoteOpenStream, TypeOK, Streams, StreamStates
  <2>3. QED
    BY <1>4, <2>2 DEF RemoteOpenStream, TypeOK
<1>5. ASSUME NEW s \in Streams, RemoteCloseStream(s) PROVE TypeOK'
  BY <1>5 DEF RemoteCloseStream, TypeOK, StreamStates
<1>6. CASE Shutdown
  BY <1>6 DEF Shutdown, TypeOK
<1>7. ASSUME NEW s \in Streams, HandleInboundStream(s) PROVE TypeOK'
  <2> DEFINE p == sPeer[s]
  <2>1. p \in Peers
    BY DEF TypeOK
  <2>2. CASE CloseUnwantedStream(s) /\ conn[p] # "none" /\ sEpoch[s] = epoch[p]
    <3>1. DropConn(p, closedCh)
      BY <2>2 DEF CloseUnwantedStream
    <3>2. /\ conn' \in [Peers -> ConnStates]
          /\ sState' \in [Streams -> StreamStates]
          /\ closedCh' \subseteq Streams
          /\ mgrCh' \in Seq(MgrMsgs)
      BY <2>1, <3>1, DropConnType DEF TypeOK
    <3>3. QED
      BY <1>7, <3>2 DEF HandleInboundStream, TypeOK
  <2>3. CASE CloseUnwantedStream(s) /\ ~(conn[p] # "none" /\ sEpoch[s] = epoch[p])
    BY <1>7, <2>1, <2>3 DEF HandleInboundStream, CloseUnwantedStream, TypeOK
  <2>4. CASE streams' = [streams EXCEPT ![p] = s]
             /\ started' = started \cup {s}
             /\ UNCHANGED <<conn, sState, closedCh, mgrCh>>
    BY <1>7, <2>1, <2>4 DEF HandleInboundStream, TypeOK
  <2>5. QED
    BY <1>7, <2>2, <2>3, <2>4 DEF HandleInboundStream
<1>8. CASE HandleConnected
  <2>1. /\ Head(mgrCh).peer \in Peers
        /\ Tail(mgrCh) \in Seq(MgrMsgs)
    BY <1>8, QueueReceive DEF HandleConnected, TypeOK
  <2>2. CASE OpenFailed(Tail(mgrCh))
    BY <2>1, <2>2 DEF OpenFailed, TypeOK
  <2>3. CASE OpenStream(Head(mgrCh).peer, Tail(mgrCh))
    BY <2>1, <2>3, OpenStreamType
  <2>4. QED
    BY <1>8, <2>2, <2>3 DEF HandleConnected
<1>9. CASE HandleDisconnected
  <2>1. /\ Head(mgrCh).peer \in Peers
        /\ Tail(mgrCh) \in Seq(MgrMsgs)
    BY <1>9, QueueReceive DEF HandleDisconnected, TypeOK
  <2>2. QED
    BY <1>9, <2>1, CloseStreamType DEF HandleDisconnected, TypeOK
<1>10. ASSUME NEW s \in Streams, HandleStreamClosed(s) PROVE TypeOK'
  <2>1. sPeer[s] \in Peers /\ closedCh \ {s} \in SUBSET Streams
    BY DEF TypeOK
  <2>2. QED
    BY <1>10, <2>1, CloseStreamType DEF HandleStreamClosed, TypeOK
<1>11. CASE HandleRelationUpdated
  <2> DEFINE p == Head(mgrCh).peer
  <2>1. p \in Peers /\ Tail(mgrCh) \in Seq(MgrMsgs)
    BY <1>11, QueueReceive DEF HandleRelationUpdated, TypeOK
  <2>2. CASE OpenFailed(Tail(mgrCh))
    BY <2>1, <2>2 DEF OpenFailed, TypeOK
  <2>3. CASE OpenStream(p, Tail(mgrCh))
    BY <2>1, <2>3, OpenStreamType
  <2>4. CASE streams[p] # NoSession
             /\ mgrCh' = Tail(mgrCh) /\ Deregister(p, closedCh)
             /\ UNCHANGED <<relation, conn, epoch, sPeer, sEpoch, nextStream,
                            inboundCh, running, started, terminated, envSteps>>
    <3>1. /\ streams \in [Peers -> Streams \cup {NoSession}]
          /\ sState \in [Streams -> StreamStates]
          /\ closedCh \subseteq Streams
          /\ streams[p] \in Streams
      BY <2>1, <2>4 DEF TypeOK
    <3>2. /\ streams' \in [Peers -> Streams \cup {NoSession}]
          /\ sState' \in [Streams -> StreamStates]
          /\ closedCh' \subseteq Streams
      BY <2>1, <2>4, <3>1 DEF Deregister, Closed, OpenIn, StreamStates
    <3>3. QED
      BY <2>1, <2>4, <3>2 DEF TypeOK
  <2>5. QED
    BY <1>11, <2>2, <2>3, <2>4 DEF HandleRelationUpdated
<1>12. CASE UNCHANGED vars
  BY <1>12 DEF vars, TypeOK
<1>13. QED
  BY <1>1, <1>2, <1>3, <1>4, <1>5, <1>6, <1>7, <1>8, <1>9, <1>10, <1>11,
     <1>12 DEF Next, Environment, EventLoop

\* The streams map, the stream table and the manager queue are well typed
\* in every reachable state of the Service.
THEOREM TypeCorrect == Spec => []TypeOK
BY TypeInit, TypeStep, PTL DEF Spec

-----------------------------------------------------------------------------
(***************************************************************************)
(* ProtocolStarted / ProtocolTerminated consistency.                       *)
(***************************************************************************)

\* The part of IInv about the Protocols' lifecycle.
Books == TerminationConsistent /\ FreshStreams /\ DistinctSessions

\* A step that leaves the streams map and the lifecycle history alone, and
\* at most takes streams out of inboundCh, keeps the books.
LEMMA BooksUnchanged ==
  ASSUME IInv,
         UNCHANGED <<streams, started, terminated, nextStream>>,
         inboundCh' \subseteq inboundCh
  PROVE  Books'
BY DEF IInv, Books, TerminationConsistent, FreshStreams, DistinctSessions

\* closeStream(p): the Protocol it removes was started, not yet terminated
\* and no other peer's, so counting its ProtocolTerminated keeps the books.
LEMMA CloseStreamBooks ==
  ASSUME IInv, NEW p \in Peers, NEW pending \in SUBSET Streams,
         CloseStream(p, pending),
         UNCHANGED <<started, nextStream, inboundCh>>
  PROVE  Books'
<1>1. CASE streams[p] = NoSession
  BY <1>1, BooksUnchanged DEF CloseStream
<1>2. CASE streams[p] # NoSession
  <2> DEFINE s0 == streams[p]
  <2>1. /\ s0 \in Streams
        /\ s0 \in started
        /\ terminated[s0] = 0
        /\ s0 < nextStream
        /\ \A q \in Peers : q # p => streams[q] # s0
    BY <1>2 DEF IInv, TypeOK, TerminationConsistent, FreshStreams,
                DistinctSessions, Streams
  <2>2. /\ streams' = [streams EXCEPT ![p] = NoSession]
        /\ terminated' \in {terminated, [terminated EXCEPT ![s0] = @ + 1]}
    BY <1>2 DEF CloseStream, Deregister
  <2>3. TerminationConsistent'
    <3>1. CASE terminated' = terminated
      BY <2>1, <2>2, <3>1 DEF IInv, TypeOK, TerminationConsistent
    <3>2. CASE terminated' = [terminated EXCEPT ![s0] = @ + 1]
      <4>1. \A q \in Peers : streams'[q] # NoSession => streams'[q] # s0
        BY <2>1, <2>2 DEF IInv, TypeOK
      <4>2. QED
        BY <2>1, <2>2, <3>2, <4>1 DEF IInv, TypeOK, TerminationConsistent
    <3>3. QED
      BY <2>2, <3>1, <3>2
  <2>4. FreshStreams'
    BY <2>1, <2>2 DEF IInv, TypeOK, FreshStreams
  <2>5. DistinctSessions'
    BY <2>2 DEF IInv, TypeOK, DistinctSessions
  <2>6. QED
    BY <2>3, <2>4, <2>5 DEF Books
<1>3. QED
  BY <1>1, <1>2

\* deregisterProtocol(p) without closeStream (the downgrade) removes a
\* Protocol and counts nothing.
LEMMA DeregisterBooks ==
  ASSUME IInv, NEW p \in Peers, NEW pending \in SUBSET Streams,
         streams[p] # NoSession, Deregister(p, pending),
         UNCHANGED <<started, terminated, nextStream, inboundCh>>
  PROVE  Books'
<1>1. streams' = [streams EXCEPT ![p] = NoSession]
  BY DEF Deregister
<1>2. QED
  BY <1>1 DEF IInv, TypeOK, Books, TerminationConsistent, FreshStreams,
              DistinctSessions

\* registerProtocol(p, s) for a peer with no Protocol and a stream that was
\* never started: the new Protocol is started, fresh and no one else's.
LEMMA RegisterBooks ==
  ASSUME IInv, NEW p \in Peers, NEW s \in Streams,
         streams[p] = NoSession, s \notin started, s < nextStream',
         streams' = [streams EXCEPT ![p] = s],
         started' = started \cup {s},
         UNCHANGED terminated,
         nextStream' \in {nextStream, nextStream + 1},
         nextStream' = nextStream + 1 => s = nextStream,
         inboundCh' = inboundCh \ {s}
  PROVE  Books'
<1>1. terminated[s] = 0
  BY DEF IInv, TypeOK, TerminationConsistent
<1>2. \A q \in Peers : streams[q] # NoSession => streams[q] # s
  BY DEF IInv, TerminationConsistent
<1>3. TerminationConsistent'
  BY <1>1 DEF IInv, TypeOK, TerminationConsistent
<1>4. FreshStreams'
  BY DEF IInv, TypeOK, FreshStreams, Streams
<1>5. DistinctSessions'
  BY <1>2 DEF IInv, TypeOK, DistinctSessions
<1>6. QED
  BY <1>3, <1>4, <1>5 DEF Books

\* openStream and registerProtocol for a peer with no Protocol: the stream
\* is the next unused one.
LEMMA OpenStreamBooks ==
  ASSUME IInv, NEW p \in Peers, NEW q, streams[p] = NoSession,
         OpenStream(p, q)
  PROVE  Books'
<1>1. CASE OpenAndRegister(p, q)
  <2>1. /\ nextStream \in Streams
        /\ nextStream \notin started
        /\ inboundCh \ {nextStream} = inboundCh
    BY <1>1 DEF OpenAndRegister, IInv, TypeOK, FreshStreams, Streams
  <2>2. /\ streams' = [streams EXCEPT ![p] = nextStream]
        /\ started' = started \cup {nextStream}
        /\ UNCHANGED terminated
        /\ nextStream' = nextStream + 1
        /\ inboundCh' = inboundCh \ {nextStream}
    BY <1>1, <2>1 DEF OpenAndRegister
  <2>3. /\ nextStream < nextStream'
        /\ nextStream' \in {nextStream, nextStream + 1}
    BY <2>2 DEF IInv, TypeOK
  <2>4. QED
    BY <2>1, <2>2, <2>3, RegisterBooks
<1>2. CASE OpenFailed(q)
  BY <1>2, BooksUnchanged DEF OpenFailed
<1>3. QED
  BY <1>1, <1>2 DEF OpenStream

\* The initial state satisfies the inductive invariant.
LEMMA IInvInit == Init => IInv
BY TypeInit DEF Init, IInv, TerminationConsistent, FreshStreams,
                DistinctSessions

\* Every step of the Service and its environment keeps the books.
LEMMA BooksStep == IInv /\ [Next]_vars => Books'
<1> SUFFICES ASSUME IInv, [Next]_vars PROVE Books'
  OBVIOUS
<1>1. ASSUME NEW p \in Peers, NEW d \in {"inbound", "outbound"}, Connect(p, d)
      PROVE Books'
  BY <1>1, BooksUnchanged DEF Connect
<1>2. ASSUME NEW p \in Peers, Disconnect(p) PROVE Books'
  BY <1>2, BooksUnchanged DEF Disconnect
<1>3. ASSUME NEW p \in Peers, NEW r \in Relations, UpdateRelation(p, r)
      PROVE Books'
  BY <1>3, BooksUnchanged DEF UpdateRelation
<1>4. ASSUME NEW p \in Peers, RemoteOpenStream(p) PROVE Books'
  BY <1>4 DEF RemoteOpenStream, IInv, TypeOK, Books, TerminationConsistent,
              FreshStreams, DistinctSessions, Streams
<1>5. ASSUME NEW s \in Streams, RemoteCloseStream(s) PROVE Books'
  BY <1>5, BooksUnchanged DEF RemoteCloseStream
<1>6. CASE Shutdown
  BY <1>6, BooksUnchanged DEF Shutdown
<1>7. ASSUME NEW s \in Streams, HandleInboundStream(s) PROVE Books'
  <2> DEFINE p == sPeer[s]
  <2>1. CASE streams' = [streams EXCEPT ![p] = s] /\ streams[p] = NoSession
             /\ started' = started \cup {s}
    <3>1. p \in Peers /\ s \in inboundCh /\ s < nextStream /\ s \notin started
      BY <1>7 DEF HandleInboundStream, IInv, TypeOK, FreshStreams
    <3>2. /\ UNCHANGED terminated
          /\ nextStream' = nextStream
          /\ inboundCh' = inboundCh \ {s}
      BY <1>7 DEF HandleInboundStream
    <3>3. /\ nextStream' \in {nextStream, nextStream + 1}
          /\ nextStream' = nextStream + 1 => s = nextStream
          /\ s < nextStream'
      BY <3>1, <3>2 DEF IInv, TypeOK
    <3>4. QED
      BY <2>1, <3>1, <3>2, <3>3, RegisterBooks
  <2>2. CASE UNCHANGED <<streams, started>>
    BY <1>7, <2>2, BooksUnchanged DEF HandleInboundStream
  <2>3. QED
    BY <1>7, <2>1, <2>2 DEF HandleInboundStream
<1>8. CASE HandleConnected
  <2> DEFINE p == Head(mgrCh).peer
  <2>1. p \in Peers
    BY <1>8, QueueReceive DEF HandleConnected, IInv, TypeOK
  <2>2. CASE OpenFailed(Tail(mgrCh))
    BY <2>2, BooksUnchanged DEF OpenFailed
  <2>3. CASE streams[p] = NoSession /\ OpenStream(p, Tail(mgrCh))
    BY <2>1, <2>3, OpenStreamBooks
  <2>4. QED
    BY <1>8, <2>2, <2>3 DEF HandleConnected
<1>9. CASE HandleDisconnected
  <2>1. Head(mgrCh).peer \in Peers /\ closedCh \in SUBSET Streams
    BY <1>9, QueueReceive DEF HandleDisconnected, IInv, TypeOK
  <2>2. QED
    BY <1>9, <2>1, CloseStreamBooks DEF HandleDisconnected
<1>10. ASSUME NEW s \in Streams, HandleStreamClosed(s) PROVE Books'
  <2>1. sPeer[s] \in Peers /\ closedCh \ {s} \in SUBSET Streams
    BY DEF IInv, TypeOK
  <2>2. QED
    BY <1>10, <2>1, CloseStreamBooks DEF HandleStreamClosed
<1>11. CASE HandleRelationUpdated
  <2> DEFINE p == Head(mgrCh).peer
  <2>1. p \in Peers /\ closedCh \in SUBSET Streams
    BY <1>11, QueueReceive DEF HandleRelationUpdated, IInv, TypeOK
  <2>2. CASE OpenFailed(Tail(mgrCh))
    BY <2>2, BooksUnchanged DEF OpenFailed
  <2>3. CASE streams[p] = NoSession /\ OpenStream(p, Tail(mgrCh))
    BY <2>1, <2>3, OpenStreamBooks
  <2>4. CASE streams[p] # NoSession /\ Deregister(p, closedCh)
             /\ UNCHANGED <<started, terminated, nextStream, inboundCh>>
    BY <2>1, <2>4, DeregisterBooks
  <2>5. QED
    BY <1>11, <2>2, <2>3, <2>4 DEF HandleRelationUpdated
<1>12. CASE UNCHANGED vars
  BY <1>12, BooksUnchanged DEF vars
<1>13. QED
  BY <1>1, <1>2, <1>3, <1>4, <1>5, <1>6, <1>7, <1>8, <1>9, <1>10, <1>11,
     <1>12 DEF Next, Environment, EventLoop

\* IInv is inductive.
LEMMA IInvStep == IInv /\ [Next]_vars => IInv'
BY TypeStep, BooksStep DEF IInv, Books

\* Every Protocol in the streams map got ProtocolStarted and no
\* ProtocolTerminated yet, and no Protocol gets ProtocolTerminated twice or
\* before ProtocolStarted, whatever the interleaving of the loop's
\* handlers with the manager's events and the transport's notifications.
THEOREM TerminationConsistentHolds == Spec => []TerminationConsistent
<1>1. IInv => TerminationConsistent
  BY DEF IInv
<1>2. QED
  BY <1>1, IInvInit, IInvStep, PTL DEF Spec

=============================================================================
