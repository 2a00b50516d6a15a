--------------------------- MODULE GossipService ---------------------------
(***************************************************************************)
(* The gossip Service of src/pkg/protocol/gossip/service.go: the single    *)
(* event loop that owns the map streams : PeerID -> *Protocol, together    *)
(* with the environment that feeds its channels.                           *)
(*                                                                         *)
(* A Protocol (session) is identified by the stream it wraps, a stream by  *)
(* a number 1..MaxStreams.  The environment is                             *)
(*   - the peer manager, whose Connected / Disconnected / RelationUpdated  *)
(*     events reach the loop in the order the manager fires them (mgrCh), *)
(*   - the stream transport: one handler goroutine per inbound stream      *)
(*     (inboundCh) and one ClosedStream notifiee call per closed stream    *)
(*     (closedCh); these race with each other and with the manager.        *)
(* Every channel of the loop is unbuffered: a message is "pending" while   *)
(* its sender is blocked in the send, and select takes any pending one.    *)
(***************************************************************************)
EXTENDS Naturals, Sequences, FiniteSets

CONSTANTS
  Peers,        \* peer identities (model values)
  MaxStreams,   \* bound on the number of streams ever opened
  MaxEnvSteps,  \* bound on connects, disconnects and relation changes
  NoSession     \* streams[p] = NoSession: no Protocol for p

ASSUME PeersAssumption == Peers # {}
ASSUME MaxStreamsAssumption == MaxStreams \in Nat
ASSUME MaxEnvStepsAssumption == MaxEnvSteps \in Nat
ASSUME NoSessionAssumption == NoSession \notin Nat

Streams == 1 .. MaxStreams

\* p2p.PeerRelation: only "unknown" versus the rest matters to the Service.
Relations == {"unknown", "known"}
\* network.Conn direction of the (single) connection to a peer.
ConnStates == {"none", "inbound", "outbound"}
\* Lifecycle of a stream in the transport.
StreamStates == {"unused", "open", "closed"}

\* The messages the peer manager posts on connectedChan, disconnectedChan
\* and relationUpdatedChan.  A RelationUpdated message carries the *p2p.Peer,
\* so the handler reads the relation current when it runs.
ConnectedMsg(p, d) == [kind |-> "connected", peer |-> p, dir |-> d]
DisconnectedMsg(p) == [kind |-> "disconnected", peer |-> p, dir |-> "none"]
RelationUpdatedMsg(p) == [kind |-> "relation", peer |-> p, dir |-> "none"]
MgrMsgs == {ConnectedMsg(p, d) : p \in Peers, d \in {"inbound", "outbound"}}
             \cup {DisconnectedMsg(p) : p \in Peers}
             \cup {RelationUpdatedMsg(p) : p \in Peers}

VARIABLES
  streams,     \* Service.streams: the Protocol (by its stream) of each peer
  relation,    \* the manager's relation to each peer
  conn,        \* the transport's connection to each peer and its direction
  epoch,       \* number of connections made to each peer so far
  sState,      \* state of each stream in the transport
  sPeer,       \* remote peer of each stream
  sEpoch,      \* connection (by epoch) each stream was opened on
  nextStream,  \* the next unused stream
  inboundCh,   \* streams whose handler goroutine blocks on inboundStreamChan
  closedCh,    \* streams whose ClosedStream call blocks on streamClosedChan
  mgrCh,       \* manager events not yet received, in firing order
  running,     \* the event loop has not returned (shutdownSignal not seen)
  started,     \* history: streams whose Protocol got ProtocolStarted
  terminated,  \* history: number of ProtocolTerminated per stream
  envSteps     \* number of environment steps taken (bounded)

vars == <<streams, relation, conn, epoch, sState, sPeer, sEpoch, nextStream,
          inboundCh, closedCh, mgrCh, running, started, terminated, envSteps>>

TypeOK ==
  /\ streams \in [Peers -> Streams \cup {NoSession}]
  /\ relation \in [Peers -> Relations]
  /\ conn \in [Peers -> ConnStates]
  /\ epoch \in [Peers -> Nat]
  /\ sState \in [Streams -> StreamStates]
  /\ sPeer \in [Streams -> Peers]
  /\ sEpoch \in [Streams -> Nat]
  /\ nextStream \in 1 .. MaxStreams + 1
  /\ inboundCh \subseteq Streams
  /\ closedCh \subseteq Streams
  /\ mgrCh \in Seq(MgrMsgs)
  /\ running \in BOOLEAN
  /\ started \subseteq Streams
  /\ terminated \in [Streams -> Nat]
  /\ envSteps \in 0 .. MaxEnvSteps

Init ==
  /\ streams = [p \in Peers |-> NoSession]
  /\ relation \in [Peers -> Relations]
  /\ conn = [p \in Peers |-> "none"]
  /\ epoch = [p \in Peers |-> 0]
  /\ sState = [s \in Streams |-> "unused"]
  /\ sPeer \in [Streams -> Peers]
  /\ sEpoch = [s \in Streams |-> 0]
  /\ nextStream = 1
  /\ inboundCh = {}
  /\ closedCh = {}
  /\ mgrCh = << >>
  /\ running = TRUE
  /\ started = {}
  /\ terminated = [s \in Streams |-> 0]
  /\ envSteps = 0

-----------------------------------------------------------------------------
(***************************************************************************)
(* Transport helpers.                                                      *)
(***************************************************************************)

\* The open streams of a set S, and the stream states after closing them.
OpenIn(S) == {s \in S : sState[s] = "open"}
Closed(S) == [s \in Streams |-> IF s \in S THEN "closed" ELSE sState[s]]

\* The open streams on the current connection to p.
OnConn(p) == {s \in Streams : sState[s] = "open" /\ sPeer[s] = p
                              /\ sEpoch[s] = epoch[p]}

\* Closing the connection to p: the transport closes each stream on it
\* (its notifiee ClosedStream then fires for each) and the manager, told of
\* the disconnect, fires Disconnected.  Based on the pending ClosedStream set
\* `pending`, which the caller may already have changed.
DropConn(p, pending) ==
  /\ conn' = [conn EXCEPT ![p] = "none"]
  /\ sState' = Closed(OnConn(p))
  /\ closedCh' = pending \cup OnConn(p)
  /\ mgrCh' = Append(mgrCh, DisconnectedMsg(p))

-----------------------------------------------------------------------------
(***************************************************************************)
(* Environment: the peer manager and the remote side of the transport.     *)
(***************************************************************************)

\* A connection to p comes up.  The manager dials only peers it has a
\* relation with, so an outbound connection has a relation other than
\* unknown; anyone may connect inbound.  The manager fires Connected.
Connect(p, d) ==
  /\ envSteps < MaxEnvSteps
  /\ conn[p] = "none"
  /\ d = "outbound" => relation[p] # "unknown"
  /\ conn' = [conn EXCEPT ![p] = d]
  /\ epoch' = [epoch EXCEPT ![p] = @ + 1]
  /\ mgrCh' = Append(mgrCh, ConnectedMsg(p, d))
  /\ envSteps' = envSteps + 1
  /\ UNCHANGED <<streams, relation, sState, sPeer, sEpoch, nextStream,
                 inboundCh, closedCh, running, started, terminated>>

\* The connection to p goes down (remote close, network failure).
Disconnect(p) ==
  /\ envSteps < MaxEnvSteps
  /\ conn[p] # "none"
  /\ DropConn(p, closedCh)
  /\ envSteps' = envSteps + 1
  /\ UNCHANGED <<streams, relation, epoch, sPeer, sEpoch, nextStream,
                 inboundCh, running, started, terminated>>

\* The manager reclassifies p and fires RelationUpdated.
UpdateRelation(p, r) ==
  /\ envSteps < MaxEnvSteps
  /\ r # relation[p]
  /\ relation' = [relation EXCEPT ![p] = r]
  /\ mgrCh' = Append(mgrCh, RelationUpdatedMsg(p))
  /\ envSteps' = envSteps + 1
  /\ UNCHANGED <<streams, conn, epoch, sState, sPeer, sEpoch, nextStream,
                 inboundCh, closedCh, running, started, terminated>>

\* The remote opens a gossip stream on the connection; the transport calls
\* the handler set by SetStreamHandler, which blocks on inboundStreamChan.
RemoteOpenStream(p) ==
  /\ conn[p] # "none"
  /\ nextStream <= MaxStreams
  /\ sState' = [sState EXCEPT ![nextStream] = "open"]
  /\ sPeer' = [sPeer EXCEPT ![nextStream] = p]
  /\ sEpoch' = [sEpoch EXCEPT ![nextStream] = epoch[p]]
  /\ nextStream' = nextStream + 1
  /\ inboundCh' = inboundCh \cup {nextStream}
  /\ UNCHANGED <<streams, relation, conn, epoch, closedCh, mgrCh, running,
                 started, terminated, envSteps>>

\* The remote closes or resets stream s; ClosedStream fires for it.
RemoteCloseStream(s) ==
  /\ sState[s] = "open"
  /\ sState' = [sState EXCEPT ![s] = "closed"]
  /\ closedCh' = closedCh \cup {s}
  /\ UNCHANGED <<streams, relation, conn, epoch, sPeer, sEpoch, nextStream,
                 inboundCh, mgrCh, running, started, terminated, envSteps>>

\* shutdownSignal fires: the next select returns from eventLoop.
Shutdown ==
  /\ running
  /\ running' = FALSE
  /\ UNCHANGED <<streams, relation, conn, epoch, sState, sPeer, sEpoch,
                 nextStream, inboundCh, closedCh, mgrCh, started, terminated,
                 envSteps>>

-----------------------------------------------------------------------------
(***************************************************************************)
(* The event loop's helpers.                                               *)
(***************************************************************************)

\* Mutant of Deregister: the delete(s.streams, peerID) of line 373 left out.
DeregisterNoDelete(p, pending) ==
  LET s == streams[p] IN
  /\ UNCHANGED streams
  /\ sState' = Closed(OpenIn({s}))
  /\ closedCh' = pending \cup OpenIn({s})

\* deregisterProtocol(p) for a p that has a Protocol: delete it from
\* streams, then Reset its stream (which fires ClosedStream if it was still
\* open).  The caller decides what the Reset error changes.
Deregister(p, pending) ==
  LET s == streams[p] IN
  /\ streams' = [streams EXCEPT ![p] = NoSession]
  /\ sState' = Closed(OpenIn({s}))
  /\ closedCh' = pending \cup OpenIn({s})

\* closeStream(p): deregister, and trigger ProtocolTerminated unless
\* deregisterProtocol returned an error (then Error fires and it returns).
CloseStream(p, pending) ==
  \/ /\ streams[p] = NoSession
     /\ closedCh' = pending
     /\ UNCHANGED <<streams, sState, terminated>>
  \/ /\ streams[p] # NoSession
     /\ Deregister(p, pending)
     /\ \E resetOK \in BOOLEAN :
          terminated' = IF resetOK
                          THEN [terminated EXCEPT ![streams[p]] = @ + 1]
                          ELSE terminated

\* openStream(p) followed by registerProtocol(p, stream) and the
\* ProtocolStarted trigger.  host.NewStream dials p if it is not connected
\* (the manager then fires Connected for the new outbound connection); the
\* zero-byte Read that follows changes no state.  `q` is the manager queue
\* as the handler left it.
OpenAndRegister(p, q) ==
  /\ nextStream <= MaxStreams
  /\ LET s    == nextStream
         dial == conn[p] = "none"
         ep   == IF dial THEN epoch[p] + 1 ELSE epoch[p]
     IN /\ conn' = IF dial THEN [conn EXCEPT ![p] = "outbound"] ELSE conn
        /\ epoch' = [epoch EXCEPT ![p] = ep]
        /\ mgrCh' = IF dial THEN Append(q, ConnectedMsg(p, "outbound")) ELSE q
        /\ sState' = [sState EXCEPT ![s] = "open"]
        /\ sPeer' = [sPeer EXCEPT ![s] = p]
        /\ sEpoch' = [sEpoch EXCEPT ![s] = ep]
        /\ nextStream' = s + 1
        /\ streams' = [streams EXCEPT ![p] = s]
        /\ started' = started \cup {s}
  /\ UNCHANGED <<relation, inboundCh, closedCh, running, terminated, envSteps>>

\* openStream fails (NewStream error or StreamConnectTimeout): the handler
\* returns the error, the loop triggers Error and continues.
OpenFailed(q) ==
  /\ mgrCh' = q
  /\ UNCHANGED <<streams, relation, conn, epoch, sState, sPeer, sEpoch,
                 nextStream, inboundCh, closedCh, running, started, terminated,
                 envSteps>>

\* Mutant of OpenStream: the error of openStream ignored, so a Protocol
\* with a nil stream (0) is registered when NewStream fails.
OpenStreamIgnoringError(p, q) ==
  \/ OpenAndRegister(p, q)
  \/ /\ mgrCh' = q
     /\ streams' = [streams EXCEPT ![p] = 0]
     /\ UNCHANGED <<relation, conn, epoch, sState, sPeer, sEpoch, nextStream,
                    inboundCh, closedCh, running, started, terminated, envSteps>>

OpenStream(p, q) == OpenAndRegister(p, q) \/ OpenFailed(q)

\* closeUnwantedStream(s): stream.Conn().Close() drops the connection s was
\* opened on if it is still up, then stream.Reset() (s is closed by now).
CloseUnwantedStream(s) ==
  LET p == sPeer[s] IN
  IF conn[p] # "none" /\ sEpoch[s] = epoch[p]
    THEN DropConn(p, closedCh)
    ELSE UNCHANGED <<conn, sState, closedCh, mgrCh>>

-----------------------------------------------------------------------------
(***************************************************************************)
(* The event loop: one action per case of the select in eventLoop.         *)
(***************************************************************************)

\* case inboundStream: handleInboundStream.  A duplicate, or a peer whose
\* relation is unknown, gets InboundStreamCancelled and closeUnwantedStream;
\* otherwise the stream is registered and ProtocolStarted fires.
HandleInboundStream(s) ==
  LET p == sPeer[s] IN
  /\ running
  /\ s \in inboundCh
  /\ inboundCh' = inboundCh \ {s}
  /\ \/ /\ streams[p] # NoSession \/ relation[p] = "unknown"
        /\ CloseUnwantedStream(s)
        /\ UNCHANGED <<streams, started>>
     \/ /\ streams[p] = NoSession
        /\ relation[p] # "unknown"
        /\ streams' = [streams EXCEPT ![p] = s]
        /\ started' = started \cup {s}
        /\ UNCHANGED <<conn, sState, closedCh, mgrCh>>
  /\ UNCHANGED <<relation, epoch, sPeer, sEpoch, nextStream, running,
                 terminated, envSteps>>

\* Mutant of HandleConnected: the "ongoing" check of line 329 left out.
HandleConnectedNoOngoingCheck ==
  /\ running
  /\ mgrCh # << >>
  /\ Head(mgrCh).kind = "connected"
  /\ LET p == Head(mgrCh).peer
         d == Head(mgrCh).dir
     IN \/ /\ d # "outbound"
           /\ OpenFailed(Tail(mgrCh))
        \/ /\ d = "outbound"
           /\ OpenStream(p, Tail(mgrCh))

\* case connectedMsg: handleConnected opens a stream only if p has no
\* Protocol and the connection is outbound.
HandleConnected ==
  /\ running
  /\ mgrCh # << >>
  /\ Head(mgrCh).kind = "connected"
  /\ LET p == Head(mgrCh).peer
         d == Head(mgrCh).dir
     IN \/ /\ streams[p] # NoSession \/ d # "outbound"
           /\ OpenFailed(Tail(mgrCh))
        \/ /\ streams[p] = NoSession
           /\ d = "outbound"
           /\ OpenStream(p, Tail(mgrCh))

\* case disconnectedMsg: closeStream(peer.ID).
HandleDisconnected ==
  /\ running
  /\ mgrCh # << >>
  /\ Head(mgrCh).kind = "disconnected"
  /\ mgrCh' = Tail(mgrCh)
  /\ CloseStream(Head(mgrCh).peer, closedCh)
  /\ UNCHANGED <<relation, conn, epoch, sPeer, sEpoch, nextStream, inboundCh,
                 running, started, envSteps>>

\* case streamClosedMsg: closeStream(peerID).  The message also carries the
\* closed stream, which closeStream does not look at.
HandleStreamClosed(s) ==
  /\ running
  /\ s \in closedCh
  /\ CloseStream(sPeer[s], closedCh \ {s})
  /\ UNCHANGED <<relation, conn, epoch, sPeer, sEpoch, nextStream, inboundCh,
                 mgrCh, running, started, envSteps>>

\* case relationUpdatedMsg: handleRelationUpdated reads the peer's current
\* relation.  Unknown: deregisterProtocol (its error goes to Error; no
\* ProtocolTerminated either way).  Otherwise open a stream unless one is
\* ongoing, whatever the connection's direction.
HandleRelationUpdated ==
  /\ running
  /\ mgrCh # << >>
  /\ Head(mgrCh).kind = "relation"
  /\ LET p == Head(mgrCh).peer IN
     \/ /\ relation[p] = "unknown"
        /\ streams[p] = NoSession
        /\ OpenFailed(Tail(mgrCh))
     \/ /\ relation[p] = "unknown"
        /\ streams[p] # NoSession
        /\ mgrCh' = Tail(mgrCh)
        /\ Deregister(p, closedCh)
        /\ UNCHANGED <<relation, conn, epoch, sPeer, sEpoch, nextStream,
                       inboundCh, running, started, terminated, envSteps>>
     \/ /\ relation[p] # "unknown"
        /\ streams[p] # NoSession
        /\ OpenFailed(Tail(mgrCh))
     \/ /\ relation[p] # "unknown"
        /\ streams[p] = NoSession
        /\ OpenStream(p, Tail(mgrCh))

-----------------------------------------------------------------------------

Environment ==
  \/ \E p \in Peers, d \in {"inbound", "outbound"} : Connect(p, d)
  \/ \E p \in Peers : Disconnect(p)
  \/ \E p \in Peers, r \in Relations : UpdateRelation(p, r)
  \/ \E p \in Peers : RemoteOpenStream(p)
  \/ \E s \in Streams : RemoteCloseStream(s)
  \/ Shutdown

EventLoop ==
  \/ \E s \in Streams : HandleInboundStream(s)
  \/ HandleConnected
  \/ HandleDisconnected
  \/ \E s \in Streams : HandleStreamClosed(s)
  \/ HandleRelationUpdated

Next == Environment \/ EventLoop

\* The select takes some pending message whenever one is pending: weak
\* fairness of the loop as a whole.  Nothing is assumed of the environment.
Spec == Init /\ [][Next]_vars /\ WF_vars(EventLoop)

-----------------------------------------------------------------------------
(***************************************************************************)
(* Properties.                                                             *)
(***************************************************************************)

\* The live Protocols.
Live == {streams[p] : p \in Peers} \ {NoSession}

\* ProtocolStarted / ProtocolTerminated stay consistent with streams (spec
\* section 8, property 2, its "no duplicates" half): every Protocol in
\* streams got ProtocolStarted and no ProtocolTerminated yet, and a Protocol
\* gets ProtocolTerminated at most once and only after ProtocolStarted.
\* closeStream triggers ProtocolTerminated for the Protocol it looked up
\* before deregisterProtocol, so this is about that lookup, the delete, and
\* every register path being guarded by its "ongoing" check.
TerminationConsistent ==
  /\ \A p \in Peers :
       streams[p] # NoSession =>
         /\ streams[p] \in started
         /\ terminated[streams[p]] = 0
  /\ \A s \in Streams : terminated[s] <= 1
  /\ \A s \in Streams : terminated[s] > 0 => s \in started

\* A peer whose relation is unknown keeps a Protocol only while a
\* RelationUpdated event for it is still on its way to the loop (gossip is
\* allowed only when the relation is not unknown, spec section 3).  Holds
\* because the manager's events arrive in order and handleInboundStream and
\* handleRelationUpdated read the relation when they run.
SessionRequiresRelation ==
  \A p \in Peers :
    streams[p] # NoSession /\ relation[p] = "unknown" =>
      \E i \in 1 .. Len(mgrCh) : mgrCh[i] = RelationUpdatedMsg(p)

\* Every Protocol that got ProtocolStarted and has left streams got exactly
\* one ProtocolTerminated (spec section 8, property 2; section 4.2: "if a
\* session was actually removed, emit ProtocolTerminated", reset errors
\* notwithstanding; scenario S2 for the downgrade).
StartedPaired ==
  \A s \in started : s \notin Live => terminated[s] = 1

\* A Protocol whose stream is open is only deregistered because its peer's
\* relation became unknown: streamClosed and disconnected concern a stream or
\* connection that is gone (spec section 4.2), never a live successor.
SessionEndsOnlyWhenDead ==
  [][\A p \in Peers :
       streams[p] # NoSession /\ streams'[p] # streams[p] =>
         sState[streams[p]] = "closed" \/ relation[p] = "unknown"]_vars

\* A Protocol whose stream has been closed or reset is eventually removed
\* while the loop runs: the netNotifiee comment says the Service implements
\* network.Notifiee "in order to automatically clean up ongoing reset
\* streams".
DeadSessionCleanedUp ==
  \A p \in Peers, s \in Streams :
    (streams[p] = s /\ sState[s] = "closed") ~> (streams[p] # s \/ ~running)

\* When two streams race for a peer, the first to reach the loop wins and
\* the second is cancelled as Duplicated (spec section 4.1, "Tie-breaks";
\* scenario S1: streams[P] unchanged): handling a duplicate inbound stream
\* never closes the open stream of the Protocol already registered for its
\* peer.  closeUnwantedStream closes the duplicate's whole connection.
DuplicateSparesWinner ==
  [][\A s \in inboundCh :
       LET p == sPeer[s] IN
       s \notin inboundCh' /\ streams[p] # NoSession
         /\ sState[streams[p]] = "open"
         => sState'[streams[p]] = "open"]_vars


-----------------------------------------------------------------------------
(***************************************************************************)
(* Refinement: the Service implements the registry of GossipSessions,      *)
(* with Service.streams as the registry, the ProtocolStarted history as    *)
(* the Protocols begun and the streams that got ProtocolTerminated as      *)
(* those ended.  Every other variable is hidden.                           *)
(***************************************************************************)
Registry == INSTANCE GossipSessions
              WITH sessions <- streams,
                   begun <- started,
                   ended <- {s \in Streams : terminated[s] > 0},
                   SessionIds <- Streams

\* Whatever the interleaving of the loop's handlers with the manager's
\* events and the transport's notifications, Service.streams behaves as a
\* registry: registerProtocol (handleInboundStream, openStream) only fills
\* an empty entry with a Protocol never seen before, and a Protocol leaves
\* only by deregisterProtocol (closeStream, handleRelationUpdated), with at
\* most one ProtocolTerminated then and never again.
ImplementsGossipSessions == Registry!Spec

=============================================================================
