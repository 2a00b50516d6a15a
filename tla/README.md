# TLA+ models of the gossip Service, the pruning engine and the cone root index cache

This directory holds TLA+ specifications of the three source files of the
node: the gossip Service's event loop (`src/pkg/protocol/gossip/service.go`),
the database pruning engine (`src/plugins/snapshot/pruning.go`) and the DAG
cone-root-index cache (`src/unnamed/part_000`). For each there are TLC
configurations that model-check small instances. TLAPS proves the Service's
main invariants and that the Service implements an abstract registry of
Protocols, the pruning engine's index order and store consistency, that the
pruning engine implements an abstract specification of its persisted indexes,
and the order independence of the cone root index fold, for every instance.

## 1. The system

| Part | Source | What it does | Concurrency |
|---|---|---|---|
| Gossip Service | service.go | Owns `streams: PeerID -> *Protocol`, at most one gossip stream per peer. | One event loop (`eventLoop`) selects over unbuffered channels fed by other goroutines. |
| Peer manager (external) | — | Fires `Connected(peer, conn)`, `Disconnected(peer)` and `RelationUpdated(peer, old)`. | Its closures send on the loop's channels, in firing order. |
| Stream transport (external) | — | Calls the stream handler once per inbound stream. Calls `ClosedStream` on the notifiee once per closed stream. `NewStream` dials when needed. | One goroutine per callback, racing each other and the manager. |
| Gossip event bus | service.go | `ProtocolStarted`, `ProtocolTerminated`, `InboundStreamCancelled` and `Error`, fired from the loop. | Synchronous. |
| Pruning engine | pruning.go | `pruneDatabase(target, abort)`: checks guards, recomputes the solid entry points, persists `EntryPointIndex`, then prunes each milestone in `(PruningIndex, target]` and persists `PruningIndex` after each one. Pruning a milestone means deleting its unconfirmed messages, its past cone, the milestone and its ledger diff. | A single worker. The abort signal comes from elsewhere. The process may crash at any point; the store keeps what was written. |
| Message store, DAG traversal (external) | — | Persistence, `TraverseParents`, `getSolidEntryPoints`. | — |
| Cone root indexes | part_000 | Caches, in each message's metadata, the youngest and oldest cone root index (ycri, ocri) of its past cone and the LSMI they were computed for (ci). `GetConeRootIndexes` recomputes an outdated entry, and nested, the outdated entries its walk passes. `UpdateConeRootIndexes` refreshes the future cone of newly confirmed messages. | Called from tip selection and from milestone confirmation, concurrently. Each caller passes the LSMI it read. |

How the parts interact:
- The manager and the transport post events to the Service's loop.
- The loop calls back into the transport (`NewStream`, `Reset`, `Conn().Close()`). Those calls produce new manager events and new `ClosedStream` calls, which come back to the loop.
- The pruning engine reads and writes the store, using the traversal library.
- The cone root index helpers read confirmations and entry points, and write only the metadata cache.

## 2. Modules

| Module | Models | Kind |
|---|---|---|
| `GossipService` | service.go: the event loop, its handlers, and the manager and transport as the environment | specification |
| `MCGossipService` | two peers as model values, with symmetry | TLC instance |
| `GossipServiceProofs` | TLAPS proofs of `TypeOK` and `TerminationConsistent` | proofs |
| `GossipSessions` | what the Service promises about its Protocols: a registry of at most one per peer | abstract specification |
| `GossipRefinementProofs` | TLAPS proof that `GossipService` implements `GossipSessions` | proofs |
| `PruningEngine` | pruning.go: `pruneDatabase` step by step, with the store, crashes and aborts | specification |
| `MCPruningEngine` | a ten-message tangle with six milestones | TLC instance |
| `PruningEngineProofs` | TLAPS proofs of `TypeOK` and `SnapshotIndexOrder` | proofs |
| `PruningIndexes` | what pruning promises about the persisted `PruningIndex` and `EntryPointIndex` | abstract specification |
| `PruningRefinementProofs` | TLAPS proof that `PruningEngine` implements `PruningIndexes` | proofs |
| `PruningStoreProofs` | TLAPS proofs of `NoDanglingParent` and `NothingPrunedAboveEntryPoint` | proofs |
| `ConeIndexFold` | part_000: `updateIndexes`, the fold of the stops' indexes | specification (no recursion) |
| `ConeIndexFoldProofs` | TLAPS proofs that `updateIndexes` is order independent on positive indexes, and order dependent with a 0 | proofs |
| `ConeRootIndex` | part_000: `GetConeRootIndexes`, `UpdateOutdatedConeRootIndexes`, `UpdateConeRootIndexes`, with a reference definition of the indexes | specification |
| `MCConeRootIndex` | six stored messages over two entry points and a missing parent | TLC instance |

### GossipService

State:
- `streams`: Service.streams. A Protocol is identified by the stream it wraps, a number in `1..MaxStreams`.
- `relation`: the manager's relation to each peer, either unknown or known.
- `conn` and `epoch`: the single connection to each peer, its direction, and a counter of connections.
- `sState`, `sPeer`, `sEpoch` and `nextStream`: the transport's streams, each with its peer and the connection it was opened on.
- Pending sends on the loop's channels:
  - `inboundCh`: one blocked handler goroutine per stream, as a set.
  - `closedCh`: one blocked `ClosedStream` per stream, as a set.
  - `mgrCh`: the manager's events in firing order, as a sequence, because one manager dispatches them in order.
- `running`: the loop has not seen the shutdown signal.
- `started` and `terminated`: the history of the bus events.

One action per `select` case:
- `HandleInboundStream` is `handleInboundStream`. Its duplicate and unknown-relation branches both go to `closeUnwantedStream`, which closes the stream's whole connection if it is still up.
- `HandleConnected` is `handleConnected`.
- `HandleDisconnected` and `HandleStreamClosed` both call `closeStream(peer)`. As in the code, the stream carried by `streamClosedMsg` is ignored.
- `HandleRelationUpdated` is `handleRelationUpdated`. It has four branches: downgrade with or without a Protocol, and upgrade with or without one.

Each handler is modelled whole, including what it does through the transport:
- `openStream` may dial. The new outbound connection then produces a `Connected` event.
- `Reset` of an open stream produces a `ClosedStream`.
- A `Reset` error is a nondeterministic choice. On an error, `closeStream` skips `ProtocolTerminated`.
- A `NewStream` failure or timeout is the `OpenFailed` branch.

The environment actions are:
- `Connect`: the manager dials only peers whose relation is not unknown.
- `Disconnect`, `UpdateRelation`, `RemoteOpenStream`, `RemoteCloseStream`.
- `Shutdown`.

### GossipSessions and the refinement

`GossipSessions` is the Service seen from its users: `sessions` maps each peer to its Protocol or `NoSession`, `begun` is the set of Protocols that got `ProtocolStarted`, and `ended` the set that got `ProtocolTerminated`. It has two actions:
- `Register(p, s)`: `p` has no Protocol and `s` was never begun; `s` is registered and begun.
- `Deregister(p)`: `p`'s Protocol is removed, and it may or may not be ended.

`GossipService` defines `Registry == INSTANCE GossipSessions WITH sessions <- streams, begun <- started, ended <- {s \in Streams : terminated[s] > 0}, SessionIds <- Streams`. The property `ImplementsGossipSessions == Registry!Spec` says that every step of the loop and its environment is a registry step or leaves the registry alone. So a Protocol is never overwritten and never comes back after it left, and `ProtocolTerminated` fires only for the Protocol being removed.

### PruningEngine

The store:
- `stored`: the stored messages.
- `childIdx`: the children index.
- `milestones` and `ledgerDiffs`.
- `unconf`: the unconfirmed index.
- `seps` and `sepIndex`: the solid entry points and the index they were computed for.
- `snap`: the persisted SnapshotInfo.

The engine:
- `pc`, `target`, `cur` and `toDelete`: lost in a crash.
- `isPruning` and `abort`.
- `runs` and `crashes`: bounds.

The tangle is constant: `Parents`, `ConfIndex`, `MsMsg`, `UnconfAt`, and three sets for the milestone-bundle check of `pruneUnconfirmedTransactions` (lines 46-59):
- `MaybeMilestoneTxs`, where `IsMaybeMilestoneTx` holds;
- `BundledTxs`, where `GetBundlesOfTransactionOrNil` returns a non-empty list;
- `MilestoneTxs`, where one of those bundles is a milestone.

A message is kept only when it is in all three. When no bundle is found (line 48), it falls through and is pruned. In the MC instance, `u` takes that path. There is one action per store write or decision of `pruneDatabase`:
- `Request` has the guards of lines 118-136, with the clamp. `targetIndexMax` is computed by `IndexSub`, a subtraction modulo `IndexModulus`: milestone indexes are uint32, so the modulus is 2^32 in the code. The MC instance uses 64, because TLC's integers are 32-bit.
- `ComputeSolidEntryPoints` returns early on an abort.
- `SetEntryPointIndex`.
- `PruneUnconfirmedOld`.
- `LoopHead`: the loop condition, the abort check, and `pruneUnconfirmedTransactions`.
- `TraverseCone`: a missing milestone leads to `continue`.
- `PruneMessage`: one message of the map at a time.
- `PruneMilestone`.
- `AdvancePruningIndex`.
- `GarbageCollect`.

The environment actions are `SignalAbort` and `Crash`.

Two operators model the external parts:
- `ParentCone` is `TraverseParents` as spec §4.4 describes it. It walks parents and does not enter solid entry points, except the start. Missing parents are ignored. It is computed as the least set closed under parents, the intersection of all closed sets, which TLC evaluates without recursion.
- `SolidEntryPointsFor` is `getSolidEntryPoints`, which is not under src/. It is modelled from the spec and marked `spec_modelled`. It returns the messages confirmed at or below the target that a message confirmed above it references, plus the target milestone's message.

### PruningIndexes and the refinement

`PruningIndexes` states what the two indexes persisted in SnapshotInfo may do, with the store and the engine left out. It has two variables, `pruningIndex` and `entryPointIndex`, both 0 at the start. There are two actions:
- `MoveEntryPoint(t)` sets `entryPointIndex` to a new target `t`. It requires `pruningIndex < t` and `entryPointIndex + AdditionalThreshold + 1 <= t`, and `t` must be at least `ThresholdPast + AdditionalThreshold + 1` below `SnapshotIndex`.
- `MovePruningIndex(i)` sets `pruningIndex` to some `i` with `pruningIndex < i <= entryPointIndex`.

A crash or an abort is a stutter. The module also states the invariant `IndexesInv`. Its part `EntryPointWindow` says that `entryPointIndex` is 0 or at least `ThresholdPast + AdditionalThreshold + 1` below `SnapshotIndex`.

`PruningEngine` defines `Indexes == INSTANCE PruningIndexes WITH pruningIndex <- snap.pruningIndex, entryPointIndex <- snap.entryPointIndex`. Its property `ImplementsPruningIndexes == Indexes!Spec` says the following: through every call, abort and crash, the persisted indexes only take abstract steps or stutter. This is stronger than `SnapshotIndexOrder`. It also says that neither index ever moves back, and that the entry point moves only in steps of more than `AdditionalPruningThreshold` and within `targetIndexMax`. Its invariant `Indexes!IndexesInv` is proved of the engine through the refinement (`IndexesInvHolds`).

### ConeRootIndex

State:
- `lsmi` is the latest solid milestone index.
- `meta[m]` is the `(y, o, ci)` triple of `SetConeRootIndexes`.
- `gets` holds the pending tip-selection calls `<<m, L>>`, where `L` is the LSMI the caller read.
- `updates` holds the pending `UpdateConeRootIndexes` call.

The code is one recursive computation, so the module models it with operators. `GetConeRootIndexes(m, L, mt)` returns the metadata after the call:
- It returns at once when `ci = L` (line 30).
- Otherwise `Walk` follows parents while `Continue` holds, which is the traversal condition of lines 59-81.
- `FoldIndexes` applies `updateIndexes` to the stops, in the order `CHOOSE` gives. `UpdateIndexes` lives in `ConeIndexFold`, which has no recursion, so TLAPS can prove facts about it. The code's walk order is not DFS order either ("Caution: condition func is not in DFS order"). `UpdateIndexesCommute` shows the order does not matter for positive pairs, which `CachedPairsOrdered` shows are the only pairs cached.
- `UpdateOutdatedConeRootIndexes` recomputes the outdated messages.
- The result is cached only when no missing parent was met (lines 114-120).

Actions:
- `GetConeRootIndexesCall` and `UpdateConeRootIndexesCall` are the two entry points. Each runs as one atomic step.
- `RequestConeRootIndexes` (tip selection reading the LSMI) and `ConfirmMilestone` are the callers, which are not under src/.
- The milestone solidifier runs the update for a milestone before it confirms the next one.

The reference definition (`RefRoots`, `RefYoungest`, `RefOldest`, `RefValid`) uses the DAG and the confirmations only, with no cache. The cone roots are the confirmed messages, entry points and missing messages reached through unconfirmed stored messages.

Abstractions:
- A call is atomic. Concurrent calls only ever write sound entries (that is what `CacheSound` checks), so interleaving them inside a call changes only which entries are recomputed twice.
- When a walk meets a missing parent, all its outdated messages are recomputed. The code recomputes those found before the abort, a subset; each recomputation is sound on its own.

## 3. Runs

| Run | Config | Expect | Checks |
|---|---|---|---|
| gossip_safety | MCGossipService.cfg | pass | TypeOK, TerminationConsistent, ImplementsGossipSessions |
| gossip_started_paired | MCGossip_StartedPaired.cfg | violation | StartedPaired |
| gossip_stale_close | MCGossip_SessionEndsOnlyWhenDead.cfg | violation | SessionEndsOnlyWhenDead |
| gossip_session_without_relation | MCGossip_SessionRequiresRelation.cfg | violation | SessionRequiresRelation |
| gossip_dead_session | MCGossip_DeadSessionCleanedUp.cfg | violation | DeadSessionCleanedUp |
| gossip_duplicate_kills_winner | MCGossip_DuplicateSparesWinner.cfg | violation | DuplicateSparesWinner |
| pruning_safety | MCPruningEngine.cfg | pass | TypeOK, NoDanglingParent, NothingPrunedAboveEntryPoint, PruningTerminates, ImplementsPruningIndexes |
| pruning_ledger_left | MCPruning_LedgerPruned.cfg | violation | LedgerPrunedBelowIndex |
| pruning_resume_refused | MCPruning_ResumeAccepted.cfg | violation | ResumeAccepted |
| pruning_orphaned_cone | MCPruning_ConePruned.cfg | violation | ConePrunedBelowIndex |
| cone_cache_sound | MCConeRootIndex.cfg | pass | CacheSound, CachedPairsOrdered |
| cone_future_fresh | MCConeRootIndex_FutureConeFresh.cfg | violation | FutureConeFresh |

The passing runs:
- **gossip_safety** explores 3.78M distinct states in about 2.5 min. Whatever the interleaving of handlers, manager events and transport callbacks:
  - every Protocol in `streams` has had `ProtocolStarted` and no `ProtocolTerminated`;
  - no Protocol gets `ProtocolTerminated` twice, or before `ProtocolStarted`;
  - `streams`, with the start and termination history, implements `GossipSessions`.
- **pruning_safety** explores 3,046 distinct states in about 4 s. Through up to four calls, aborts, two crashes and a missing milestone:
  - no stored message confirmed after the entry-point index has a parent that is neither stored nor a solid entry point;
  - no deleted message is confirmed above the persisted `EntryPointIndex`;
  - every call returns;
  - the persisted indexes implement `PruningIndexes`. This implies `PruningIndex <= EntryPointIndex <= SnapshotIndex`, and that `EntryPointIndex` stays below the solid entry point window.
- **cone_cache_sound** explores 12,775 distinct states in about 7 s. Tip-selection calls run with stale LSMIs and interleave with two milestone updates. Every cache entry stamped with the current LSMI then equals the reference cone root indexes. A walk that meets a missing parent never caches. Every cached pair, stamped with whichever LSMI, has `1 <= ocri <= ycri`. A stale call stops at such entries and feeds them to `updateIndexes`.

Each violation run checks one claim of the spec or of a code comment, and TLC refutes it (see "Findings").

Every property of a passing run has a mutant in PROJECT.json, a plausible slip in the code that TLC catches:
- a missing `delete`;
- a dropped "ongoing" check (caught by `ImplementsGossipSessions`, whose `Register` needs an empty entry);
- an ignored `openStream` error;
- a missing clamp (caught by `TypeOK`);
- a dropped "not set" test of the oldest index in `updateIndexes`;
- a dropped EntryPointIndex guard, which lets a call move `EntryPointIndex` back;
- a missing `SetSnapshotInfo` (caught by `NothingPrunedAboveEntryPoint`);
- a dropped confirmation check;
- a `continue` that skips the increment;
- a cache stop that accepts an entry of any LSMI;
- a dropped `ErrMessageNotFound` check.

Together, the passing runs fire every action and every disjunct of the three next-state relations. This was checked with TLC's coverage report.

### Bounds

- **Gossip**: two peers, three streams and three manager steps (connects, disconnects, relation changes). Remote stream opens are bounded by the streams. Remote closes and shutdown are unbounded but finite.
  - This is enough for a reconnect to overtake a stale `Disconnected`, for a duplicate inbound stream next to a live Protocol, for a downgrade racing a dial, and for a close racing its own inbound message.
  - With four manager steps the run takes about 9 minutes.
  - The peers are symmetric, which is sound because no property names a peer.
- **Pruning**: `SnapshotIndex = 5` and `ThresholdPast = 1` give `targetIndexMax = 3`. `AdditionalPruningThreshold` is 0 instead of 50, so that a second call can go further than the first. This choice keeps the guard's shape. Milestone 2 is missing. The tangle has:
  - a message confirmed at 4 that was listed as unconfirmed at 1 (`x`);
  - an unconfirmed milestone-bundle message (`f`);
  - an unconfirmed message referencing a confirmed one (`u`);
  - a milestone (6) newer than the snapshot.

- **Cone root indexes**: the node starts at LSMI 2, and milestones 3 and 4 confirm `a` and then `b`. So the roots of `c`, `d` and `f` move from the entry points `s1` and `s2` (indexes 1 and 2) to `a`, and then to `a` and `b`. A cached entry becomes stale twice, and its recomputation must not stop at a stale ancestor. `e` also references the missing `mm`. Three tip-selection calls are enough for a stale call to run after an update.

### Fairness

- `Spec` of GossipService assumes weak fairness of the whole event loop, because the `select` takes some pending message whenever one is pending. Nothing is assumed of the environment. Only `DeadSessionCleanedUp` is a liveness property.
- `Spec` of PruningEngine assumes weak fairness of the engine's steps: the worker running `pruneDatabase` is not starved. Calls, aborts and crashes are not forced.

### Deadlock checking

All three passing configurations set `CHECK_DEADLOCK FALSE`:
- The gossip loop returns on shutdown, and the bounded environment eventually has nothing left to send.
- The pruning engine idles between calls once the call budget is spent.
- The cone root index callers stop once the last milestone is confirmed and the call budget is spent. No property of that run is a liveness property.

Both stops are states the program really reaches.

## 4. Findings

- **ProtocolTerminated is not paired with ProtocolStarted** (gossip_started_paired, `service.go:400`). A downgrade to unknown deregisters a Protocol without `ProtocolTerminated`. So does a `Reset` error in `closeStream`. This contradicts spec §8.2 and S2.
- **Stale close kills a live Protocol** (gossip_stale_close, `service.go:264`, also `:261`). `closeStream` looks only at the peer, so a late `ClosedStream` of a replaced stream, or the `Disconnected` of an earlier connection, removes the new live Protocol.
- **Protocol for an unknown peer** (gossip_session_without_relation, `service.go:329`). `handleConnected` has no relation check, and `openStream`'s `NewStream` re-dials a connection that has dropped. TLC's trace:
  1. The manager's outbound connection to the peer comes up and drops.
  2. The peer is downgraded to unknown. `Connected`, `Disconnected` and `RelationUpdated` are now queued, in that order.
  3. `handleConnected` opens a stream and re-dials, which queues a second `Connected` behind the other two.
  4. `Disconnected` removes that Protocol, and `RelationUpdated` finds none.
  5. The second `Connected` is handled after the downgrade and opens a Protocol for the unknown peer. No later event removes it.

  Spec §3 allows gossip only when the relation is not Unknown.
- **Dead Protocol kept** (gossip_dead_session, `service.go:463`). The `ClosedStream` of an inbound stream can be handled before the stream itself. `closeStream` then finds nothing, and the dead stream is registered for good. The netNotifiee comment promises automatic clean-up.
- **Cancelling a duplicate kills the winner** (gossip_duplicate_kills_winner, `service.go:321`). TLC's trace runs as follows:
  1. A relation update makes the node dial the peer and register its outbound stream.
  2. The remote opens its own gossip stream on the same connection.
  3. `handleInboundStream` cancels that stream as Duplicated. `closeUnwantedStream` closes the duplicate's whole connection, and so also the stream of the Protocol that won the race. Its `ClosedStream` then removes the winner.

  Spec §4.1 ("Tie-breaks: the first to reach the event loop wins") and S1 (`streams[P]` unchanged) say the existing session survives.
- **Skipped milestone never retried** (pruning_ledger_left, `pruning.go:181`). A later milestone of the same call sets `PruningIndex` past the skipped one, whose ledger diff stays. Spec §7 says the next run retries it.
- **Resume refused** (pruning_resume_refused, `pruning.go:133`). After an abort or crash with `EntryPointIndex = T` and `PruningIndex < T`, a call with target `T` fails the EntryPointIndex guard. Spec §8.4 and S5 say such a call resumes.
- **A crash orphans part of a cone** (pruning_orphaned_cone, `pruning.go:186`, with `:85`). This run uses `SnapshotIndex = 6`, so that a second call with a higher target is accepted. TLC's trace:
  1. A call with target 3 collects the cone `{d, b}` of milestone 3.
  2. `pruneMessages` ranges over a Go map and deletes `d`, the milestone's own message, first.
  3. The process crashes. `PruningIndex` is still 1.
  4. A call with target 4 reaches milestone 3 again. `TraverseParents` starts at the deleted `d`, its missing-node hook returns nil, and it collects nothing.
  5. The milestone is deleted and `PruningIndex` becomes 3.

  `b` is confirmed at 2, and nothing confirmed above 3 references it, yet it stays stored. Its only child was `d`, so no later cone reaches it. The spec glossary calls `PruningIndex` "the highest milestone whose cone has been fully deleted". §4.3 says a restart after a death in phase 3 resumes the partially deleted cone. With `MaxCrashes = 0`, the same configuration satisfies the property.

- **Stale call undoes the future-cone update** (cone_future_fresh, `part_000:120`). `GetConeRootIndexes` stores its result stamped with the LSMI its caller passed, even over an entry stamped with a newer one. A tip-selection call that read the LSMI before milestone `L` and runs after `UpdateConeRootIndexes(L)` restamps entries with `L-1`. The comment at lines 125-127 says that update refreshes the future cone. The values stay correct, as `CacheSound` shows; the cost is a recomputation on the next call. With no tip-selection calls the property holds.

## 5. Proofs

`GossipServiceProofs` proves two theorems with TLAPS, for every set of peers and every `MaxStreams` and `MaxEnvSteps`. They rest on the assumptions of `GossipService`: peers non-empty, bounds natural, `NoSession` not a stream number.

- `TypeCorrect: Spec => []TypeOK`. `TypeInit` and `TypeStep` prove it, with one step per action. They rest on lemmas about the manager queue (`QueueAppend` and `QueueReceive`, from `AppendProperties` and `HeadTailProperties` of SequenceTheorems) and about the helpers `DropConn`, `CloseStream` and `OpenStream`.
- `TerminationConsistentHolds: Spec => []TerminationConsistent`. The property is not inductive: a step that registers a stream must know the stream is fresh. The inductive invariant `IInv` adds two facts:
  - `FreshStreams`: a stream at or above `nextStream`, or waiting in `inboundCh`, has never been started or terminated;
  - `DistinctSessions`: two peers never share a Protocol.

  TLC checked `IInv` on the gossip_safety instance before it was proved. The step lemmas follow the handlers: `BooksUnchanged`, `CloseStreamBooks`, `DeregisterBooks`, `RegisterBooks` and `OpenStreamBooks`.

`PruningEngineProofs` proves two theorems for every tangle, every threshold and every bound. They rest on `ConstantsAssumption` of `PruningEngine`: `SnapshotIndex` is a milestone, and the thresholds and bounds are naturals.

- `TypeCorrect: Spec => []TypeOK`.
- `SnapshotIndexOrderHolds: Spec => []SnapshotIndexOrder`.

`SnapshotIndexOrder` alone is not inductive, because `SetEntryPointIndex` and `AdvancePruningIndex` write values the state does not bound. The inductive invariant `IInv` adds `Progress`, which relates the engine's local state to what it persisted:
- in `sep` and `epi`, `PruningIndex < target` (the guard of line 128);
- from `unconfOld` to the return, `EntryPointIndex = target` (lines 157-158);
- in the loop, `1 <= milestoneIndex`;
- in its body, `milestoneIndex <= target`, and at its head `milestoneIndex <= target + 1`.

A crash or an abort returns to `idle`, where `Progress` asks nothing, so the store alone must carry the order, and it does. TLC checked `IInv` on the pruning_safety instance first. The proof has one lemma per action. Each proves the three parts of `TypeOK` (store, counters, flags), `SnapshotIndexOrder` and `Progress` separately, so that each leaf stays small.

`PruningRefinementProofs` proves `Refinement: Spec => ImplementsPruningIndexes` from the same assumptions, for every width `IndexModulus` above `MaxIndex`. This includes 2^32. It adds `IndexBounds` to `IInv`:
- in `sep` and `epi`, the target still passes the guards of lines 128-136 against the persisted indexes;
- in the loop, `PruningIndex < milestoneIndex`.

The lemma `IndexSubNoWrap` shows that once the guard of line 118 holds, `targetIndexMax` does not wrap. So this theorem covers the numeric edge at line 123 for every `SnapshotIndex`, including those too small for the MC instance to reach. The proof follows the usual layout:
- initial states map to `Indexes!Init`;
- `SetEntryPointIndex` maps to `MoveEntryPoint(target)`;
- `AdvancePruningIndex` maps to `MovePruningIndex(milestoneIndex)`;
- every other step leaves `snap` unchanged;
- the temporal step is PTL.

`PruningStoreProofs` proves `NoDanglingParentHolds: Spec => []NoDanglingParent`. Besides `ConstantsAssumption`, it uses `TangleAssumption` of `PruningEngine`: a confirmed message's parents are confirmed no later than it, and milestone `i`'s message is confirmed at `i`. The MC tangle satisfies it, and TLC evaluates it on every pruning run.

The property is not inductive. `StoreInv` adds four facts:
- `SepsMatch`: the stored entry points are `SolidEntryPointsFor(sepIndex)`.
- `EntryPointIndex <= sepIndex`. `sepIndex` runs ahead after a crash between `StoreSolidEntryPoints` and `SetSnapshotInfo`.
- From `epi` to the return, `sepIndex = target`.
- Every deleted message, and every message in the `toDelete` map, is confirmed at or below `EntryPointIndex`.

With those facts the argument is direct. A stored message confirmed above `sepIndex` may have a deleted parent. That parent is confirmed, at or below `EntryPointIndex <= sepIndex`, so it is one of the entry points of `sepIndex`. Two lemmas carry the proof:
- `ParentConeConfirmed`: `TraverseParents` from milestone `i` collects only messages confirmed in `1..i`. The proof exhibits a closed set, with no induction.
- `PruneUnconfirmedDeletes`: `pruneUnconfirmedTransactions` deletes only unconfirmed messages.

`StoreInv` was checked by TLC on the pruning_safety instance before it was proved.

Its last conjunct is itself a checked property, proved as `NothingPrunedAboveEntryPointHolds: Spec => []NothingPrunedAboveEntryPoint`: no message confirmed above the persisted `EntryPointIndex` is ever deleted. Crashes, aborts and stale unconfirmed-index entries do not change this. It is what "persist `EntryPointIndex` before deleting any cone data" (spec §4.3) buys.


`GossipRefinementProofs` proves `Refinement: Spec => ImplementsGossipSessions` from the assumptions of `GossipService`. It reuses the inductive invariant `IInv` of `GossipServiceProofs`. `FreshStreams` gives the guard `s \notin begun` of `Register`. `TerminationConsistent` gives that `terminated` rises only for the Protocol being removed. The layout is the one above:
- initial states map to `Registry!Init`;
- `registerProtocol` in `handleInboundStream` and `openStream` maps to `Register` (lemmas `RegisterRefines` and `OpenStreamRefines`);
- `closeStream` and the downgrade branch of `handleRelationUpdated` map to `Deregister` (lemmas `CloseStreamRefines` and `DeregisterRefines`);
- every other step leaves `streams`, `started` and `terminated` alone (`StutterRefines`);
- the temporal step is PTL.

`PruningRefinementProofs` also proves `IndexesInvHolds: Spec => []Indexes!IndexesInv`: `PruningIndex <= EntryPointIndex`, and `EntryPointIndex` is 0 or leaves the solid entry point window below `SnapshotIndex`. The proof reasons about the abstract specification only. `AbstractInvInit` and `AbstractInvStep` show that `Indexes!IndexesInv` is an inductive invariant of `Indexes!Spec`. `Refinement` then carries it over to the engine. The engine's crash, abort and loop steps never enter this argument.

`ConeIndexFoldProofs` proves two facts about `updateIndexes` (lines 37-44), for every milestone index:
- `UpdateIndexesCommute`: for positive pairs with `o <= y`, two stops give the same pair in either order, starting from the unset pair or from any pair already accumulated. Lemmas `UpdateIndexesFromUnset`, `UpdateIndexesJoin` and `UpdateIndexesAccs` show that the fold computes the largest `y` and the smallest `o`.
- `ZeroRootOrderDependent`: a root of index 0, met after a root of index 3, leaves `ocri = 0`. Met first, it leaves `ocri = 3`. This is the numeric edge of line 38.

These facts are about the pairs only. The claim that `FoldIndexes` over a whole set gives the same result for every order needs induction over the set, which is out of the provers' reach (see below). TLC checks the consequence, `CacheSound`, on the instance.

Left to TLC:
- liveness (`PruningTerminates` and `DeadSessionCleanedUp`) and `ENABLED` (`ResumeAccepted`), which are beyond the prover;
- the cone root index properties (`CacheSound`, `CachedPairsOrdered`). `GetConeRootIndexes` and the walk are recursive operators, and tlapm loses its SMT backend in a module that reaches one. Their results are also defined by recursion over data, which needs induction the provers cannot instantiate. Only the non-recursive fold step, `ConeIndexFold`, is proved.

## 6. Not modelled

- The read-only requests `Protocol`, `ForEach` and `SynchronizedCount`. They change no state.
- The logger, the options, and the `InboundStreamCancelled` and `Error` events, which carry no state the properties use.
- Send queues and the Protocol's read loop. These are not in these files.
- The reference counting of cache handles. It is external to the modelled state.
- The uint32 wrap-around of the other index sums, such as `EntryPointIndex + AdditionalPruningThreshold + 1`. They stay far below 2^32 for any real milestone index. Only the subtraction at line 123 is modelled modulo the width.
- Senders blocked forever after shutdown (spec §9). The model stops the loop and does not model the senders' goroutines after it.
- In part_000: the recursion depth of nested `GetConeRootIndexes` calls. The list is collected newest first, not oldest first as line 12 asks. The cache handles' reference counts are not modelled either.
- An entry point of index 0. `updateIndexes` treats 0 as unset, so such an index makes `ocri` depend on the walk order (`ZeroRootOrderDependent` proves it). Entry points carry a milestone index of at least 1, and the model assumes so. `CachedPairsOrdered` checks that no cached pair brings a 0 back in.
