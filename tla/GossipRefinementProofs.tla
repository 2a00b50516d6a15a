---------------------- MODULE GossipRefinementProofs -----------------------
(***************************************************************************)
(* Proof that the gossip Service (GossipService) implements the registry   *)
(* of GossipSessions under the mapping GossipService!Registry, for every   *)
(* set of peers and every bound.  It rests on the inductive invariant IInv *)
(* of GossipServiceProofs: a stream that is registered is fresh (never     *)
(* started) and a Protocol that is deregistered was not yet terminated.    *)
(***************************************************************************)
EXTENDS GossipServiceProofs

\* The Protocols that got ProtocolTerminated: the mapping of `ended`.
Ended == {s \in Streams : terminated[s] > 0}

\* A step that leaves the streams map and the lifecycle history alone is a
\* stutter of the registry.
LEMMA StutterRefines ==
  ASSUME UNCHANGED <<streams, started, terminated>>
  PROVE  UNCHANGED Registry!absVars
BY DEF Registry!absVars

\* registerProtocol(p, s) of a fresh stream for a peer with no Protocol,
\* with ProtocolStarted, is Register(p, s).
LEMMA RegisterRefines ==
  ASSUME NEW p \in Peers, NEW s \in Streams,
         streams[p] = NoSession, s \notin started,
         streams' = [streams EXCEPT ![p] = s],
         started' = started \cup {s},
         UNCHANGED terminated
  PROVE  Registry!Next
<1>1. Registry!Register(p, s)
  BY DEF Registry!Register
<1>2. QED
  BY <1>1 DEF Registry!Next

\* deregisterProtocol(p) without ProtocolTerminated is Deregister(p).
LEMMA DeregisterRefines ==
  ASSUME NEW p \in Peers, streams[p] # NoSession,
         streams' = [streams EXCEPT ![p] = NoSession],
         UNCHANGED <<started, terminated>>
  PROVE  Registry!Next
<1>1. Registry!Deregister(p)
  BY DEF Registry!Deregister
<1>2. QED
  BY <1>1 DEF Registry!Next

\* closeStream(p): nothing when p has no Protocol, otherwise Deregister(p),
\* with the Protocol ended iff ProtocolTerminated fired for it.
LEMMA CloseStreamRefines ==
  ASSUME TypeOK, NEW p \in Peers, NEW pending, CloseStream(p, pending),
         UNCHANGED started
  PROVE  [Registry!Next]_Registry!absVars
<1>1. CASE streams[p] = NoSession
  BY <1>1, StutterRefines DEF CloseStream
<1>2. CASE streams[p] # NoSession
  <2> DEFINE s0 == streams[p]
  <2>1. /\ streams' = [streams EXCEPT ![p] = NoSession]
        /\ terminated' \in {terminated, [terminated EXCEPT ![s0] = @ + 1]}
    BY <1>2 DEF CloseStream, Deregister
  <2>2. s0 \in Streams /\ terminated \in [Streams -> Nat]
    BY <1>2 DEF TypeOK
  <2>3. {s \in Streams : terminated'[s] > 0} \in {Ended, Ended \cup {s0}}
    BY <2>1, <2>2 DEF Ended
  <2>4. Registry!Deregister(p)
    BY <1>2, <2>1, <2>3 DEF Registry!Deregister, Ended
  <2>5. QED
    BY <2>4 DEF Registry!Next
<1>3. QED
  BY <1>1, <1>2

\* openStream and registerProtocol for a peer with no Protocol, or their
\* failure.
LEMMA OpenStreamRefines ==
  ASSUME IInv, NEW p \in Peers, NEW q, streams[p] = NoSession,
         OpenStream(p, q)
  PROVE  [Registry!Next]_Registry!absVars
<1>1. CASE OpenAndRegister(p, q)
  <2>1. /\ nextStream \in Streams
        /\ nextStream \notin started
    BY <1>1 DEF OpenAndRegister, IInv, TypeOK, FreshStreams, Streams
  <2>2. /\ streams' = [streams EXCEPT ![p] = nextStream]
        /\ started' = started \cup {nextStream}
        /\ UNCHANGED terminated
    BY <1>1 DEF OpenAndRegister
  <2>3. QED
    BY <2>1, <2>2, RegisterRefines
<1>2. CASE OpenFailed(q)
  BY <1>2, StutterRefines DEF OpenFailed
<1>3. QED
  BY <1>1, <1>2 DEF OpenStream

\* Every step of the Service and its environment is a step of the registry
\* or leaves it alone.
LEMMA RegistryStep ==
  ASSUME IInv, [Next]_vars
  PROVE  [Registry!Next]_Registry!absVars
<1>0. TypeOK
  BY DEF IInv
<1>1. CASE Environment
  <2>1. UNCHANGED <<streams, started, terminated>>
    BY <1>1 DEF Environment, Connect, Disconnect, UpdateRelation,
                RemoteOpenStream, RemoteCloseStream, Shutdown, DropConn
  <2>2. QED
    BY <2>1, StutterRefines
<1>2. ASSUME NEW s \in Streams, HandleInboundStream(s)
      PROVE  [Registry!Next]_Registry!absVars
  <2> DEFINE p == sPeer[s]
  <2>1. CASE UNCHANGED <<streams, started>>
    BY <1>2, <2>1, StutterRefines DEF HandleInboundStream
  <2>2. CASE streams' = [streams EXCEPT ![p] = s] /\ streams[p] = NoSession
             /\ started' = started \cup {s}
    <3>1. p \in Peers /\ s \notin started
      BY <1>2 DEF HandleInboundStream, IInv, TypeOK, FreshStreams
    <3>2. UNCHANGED terminated
      BY <1>2 DEF HandleInboundStream
    <3>3. QED
      BY <2>2, <3>1, <3>2, RegisterRefines
  <2>3. QED
    BY <1>2, <2>1, <2>2 DEF HandleInboundStream
<1>3. CASE HandleConnected
  <2> DEFINE p == Head(mgrCh).peer
  <2>1. p \in Peers
    BY <1>0, <1>3, QueueReceive DEF HandleConnected, TypeOK
  <2>2. CASE OpenFailed(Tail(mgrCh))
    BY <2>2, StutterRefines DEF OpenFailed
  <2>3. CASE streams[p] = NoSession /\ OpenStream(p, Tail(mgrCh))
    BY <2>1, <2>3, OpenStreamRefines
  <2>4. QED
    BY <1>3, <2>2, <2>3 DEF HandleConnected
<1>4. CASE HandleDisconnected
  <2>1. Head(mgrCh).peer \in Peers
    BY <1>0, <1>4, QueueReceive DEF HandleDisconnected, TypeOK
  <2>2. QED
    BY <1>0, <1>4, <2>1, CloseStreamRefines DEF HandleDisconnected
<1>5. ASSUME NEW s \in Streams, HandleStreamClosed(s)
      PROVE  [Registry!Next]_Registry!absVars
  <2>1. sPeer[s] \in Peers
    BY <1>0 DEF TypeOK
  <2>2. QED
    BY <1>0, <1>5, <2>1, CloseStreamRefines DEF HandleStreamClosed
<1>6. CASE HandleRelationUpdated
  <2> DEFINE rp == Head(mgrCh).peer
  <2>1. rp \in Peers
    BY <1>0, <1>6, QueueReceive DEF HandleRelationUpdated, TypeOK
  <2>2. CASE OpenFailed(Tail(mgrCh))
    BY <2>2, StutterRefines DEF OpenFailed
  <2>3. CASE streams[rp] = NoSession /\ OpenStream(rp, Tail(mgrCh))
    BY <2>1, <2>3, OpenStreamRefines
  <2>4. CASE streams[rp] # NoSession /\ Deregister(rp, closedCh)
             /\ UNCHANGED <<started, terminated>>
    <3>1. streams' = [streams EXCEPT ![rp] = NoSession]
      BY <2>4 DEF Deregister
    <3>2. QED
      BY <2>1, <2>4, <3>1, DeregisterRefines
  <2>5. QED
    BY <1>6, <2>2, <2>3, <2>4 DEF HandleRelationUpdated
<1>7. CASE UNCHANGED vars
  BY <1>7, StutterRefines DEF vars
<1>8. QED
  BY <1>1, <1>2, <1>3, <1>4, <1>5, <1>6, <1>7 DEF Next, EventLoop

-----------------------------------------------------------------------------

\* The Service implements GossipSessions: through every interleaving of
\* its handlers with the manager's events and the transport's
\* notifications, registerProtocol only fills an empty entry of
\* Service.streams with a Protocol never started before, a Protocol leaves
\* only by deregisterProtocol, and ProtocolTerminated fires only for the
\* Protocol being deregistered.
THEOREM Refinement == Spec => ImplementsGossipSessions
<1>1. Init => Registry!Init
  BY DEF Init, Registry!Init
<1>2. IInv /\ [Next]_vars => [Registry!Next]_Registry!absVars
  BY RegistryStep
<1>3. QED
  BY <1>1, <1>2, IInvInit, IInvStep, PTL
  DEF Spec, ImplementsGossipSessions, Registry!Spec

=============================================================================
