--------------------------- MODULE GossipSessions ---------------------------
(***************************************************************************)
(* What the gossip Service promises about its Protocols, with the event    *)
(* loop, the peer manager and the transport abstracted away: a registry of *)
(* at most one Protocol per peer.  A Protocol is registered only for a     *)
(* peer that has none, is a new one every time (ProtocolStarted fires for  *)
(* it then), and leaves the registry only by being deregistered, at which  *)
(* point ProtocolTerminated may fire for it, once.  A Protocol that has    *)
(* left never comes back.                                                  *)
(***************************************************************************)
CONSTANTS
  Peers,       \* peer identities
  SessionIds,  \* the Protocols that may ever exist
  NoSession    \* sessions[p] = NoSession: no Protocol for p

VARIABLES
  sessions,    \* the Protocol registered for each peer
  begun,       \* the Protocols that got ProtocolStarted
  ended        \* the Protocols that got ProtocolTerminated

absVars == <<sessions, begun, ended>>

Init ==
  /\ sessions = [p \in Peers |-> NoSession]
  /\ begun = {}
  /\ ended = {}

\* A new Protocol s is registered for p, which has none.
Register(p, s) ==
  /\ sessions[p] = NoSession
  /\ s \notin begun
  /\ sessions' = [sessions EXCEPT ![p] = s]
  /\ begun' = begun \cup {s}
  /\ UNCHANGED ended

\* p's Protocol is deregistered; ProtocolTerminated fires for it or not.
Deregister(p) ==
  /\ sessions[p] # NoSession
  /\ sessions' = [sessions EXCEPT ![p] = NoSession]
  /\ ended' \in {ended, ended \cup {sessions[p]}}
  /\ UNCHANGED begun

Next ==
  \/ \E p \in Peers, s \in SessionIds : Register(p, s)
  \/ \E p \in Peers : Deregister(p)

Spec == Init /\ [][Next]_absVars

=============================================================================
