--------------------------- MODULE PruningEngine ---------------------------
(***************************************************************************)
(* pruneDatabase of src/plugins/snapshot/pruning.go: recompute the solid   *)
(* entry points for the target index, persist EntryPointIndex, then delete *)
(* the unconfirmed messages, the past cone, the milestone and the ledger   *)
(* diff of each milestone in (PruningIndex, target], persisting            *)
(* PruningIndex after each one.  The process may crash between any two     *)
(* store writes (the store keeps what was written, the engine's local      *)
(* state is lost) and the abort signal may fire at any time.               *)
(*                                                                         *)
(* The tangle is fixed: a DAG of messages given by Parents, the index each *)
(* message is confirmed at (0: unconfirmed), the message of each          *)
(* milestone, and the unconfirmed-messages index as it was written when   *)
(* the messages arrived.                                                   *)
(***************************************************************************)
EXTENDS Naturals, FiniteSets

CONSTANTS
  Msgs,             \* message IDs (model values)
  Parents,          \* Parents[m]: the (one or two) parents of m
  ConfIndex,        \* ConfIndex[m]: milestone that confirmed m, 0 if none
  MsMsg,            \* MsMsg[i]: message of milestone i
  MaybeMilestoneTxs, \* tangle.IsMaybeMilestoneTx holds of them
  BundledTxs,       \* GetBundlesOfTransactionOrNil returns a non-empty list
  MilestoneTxs,     \* one of the bundles returned is a milestone
  UnconfAt,         \* UnconfAt[i]: IDs written to the unconfirmed index at i
  MaxIndex,         \* milestones are 1..MaxIndex
  SnapshotIndex,    \* SnapshotInfo.SnapshotIndex
  ThresholdPast,    \* SolidEntryPointCheckThresholdPast
  AdditionalThreshold, \* AdditionalPruningThreshold (50 in the code)
  MissingMilestones,   \* milestones absent from the store at start
  IndexModulus,     \* milestone.Index is a uint32: 2^32
  MaxRuns,          \* bound on pruneDatabase calls
  MaxCrashes        \* bound on process crashes

Indices == 1 .. MaxIndex

ASSUME ConstantsAssumption ==
  /\ IsFiniteSet(Msgs)
  /\ MaxIndex \in Nat
  /\ IndexModulus \in Nat /\ MaxIndex < IndexModulus
  /\ Parents \in [Msgs -> SUBSET Msgs]
  /\ ConfIndex \in [Msgs -> 0 .. MaxIndex]
  /\ MsMsg \in [Indices -> Msgs]
  /\ MaybeMilestoneTxs \subseteq Msgs
  /\ BundledTxs \subseteq Msgs
  /\ MilestoneTxs \subseteq Msgs
  /\ UnconfAt \in [0 .. MaxIndex -> SUBSET Msgs]
  /\ SnapshotIndex \in Indices
  /\ ThresholdPast \in Nat
  /\ AdditionalThreshold \in Nat
  /\ MissingMilestones \subseteq Indices
  /\ MaxRuns \in Nat
  /\ MaxCrashes \in Nat

\* The tangle is well formed: a milestone confirms its message and the
\* whole past cone of it that is not confirmed yet, so a confirmed
\* message's parents are confirmed no later than it.
ASSUME TangleAssumption ==
  /\ \A m \in Msgs : ConfIndex[m] > 0 =>
       \A q \in Parents[m] : ConfIndex[q] \in 1 .. ConfIndex[m]
  /\ \A i \in Indices : ConfIndex[MsMsg[i]] = i

Pcs == {"idle", "sep", "epi", "unconfOld", "loop", "cone", "prune",
        "milestone", "advance", "gc"}

VARIABLES
  \* the store (persistent)
  stored,       \* messages present (GetCachedMessageOrNil # nil)
  childIdx,     \* children index entries <<parent, child>>
  milestones,   \* milestones present
  ledgerDiffs,  \* ledger diffs present
  unconf,       \* unconfirmed-messages index
  seps,         \* the solid entry points
  sepIndex,     \* target index the solid entry points were computed for
  snap,         \* SnapshotInfo: pruningIndex, entryPointIndex
  \* the engine (lost in a crash)
  pc,           \* where pruneDatabase is
  target,       \* the clamped targetIndex
  cur,          \* milestoneIndex of the loop
  toDelete,     \* messages of the map handed to pruneMessages not yet done
  isPruning,    \* the isPruning status flag
  abort,        \* the abort signal of the current call has fired
  runs,         \* number of pruneDatabase calls so far
  crashes       \* number of crashes so far

store == <<stored, childIdx, milestones, ledgerDiffs, unconf, seps, sepIndex,
           snap>>
engine == <<pc, target, cur, toDelete, isPruning, abort, runs, crashes>>
vars == <<store, engine>>

TypeOK ==
  /\ stored \subseteq Msgs
  /\ childIdx \subseteq Msgs \X Msgs
  /\ milestones \subseteq Indices
  /\ ledgerDiffs \subseteq Indices
  /\ unconf \in [0 .. MaxIndex -> SUBSET Msgs]
  /\ seps \subseteq Msgs
  /\ sepIndex \in 0 .. SnapshotIndex
  /\ snap \in [pruningIndex : 0 .. SnapshotIndex,
               entryPointIndex : 0 .. SnapshotIndex]
  /\ pc \in Pcs
  /\ target \in 0 .. SnapshotIndex
  /\ cur \in 0 .. MaxIndex + 1
  /\ toDelete \subseteq Msgs
  /\ isPruning \in BOOLEAN
  /\ abort \in BOOLEAN
  /\ runs \in 0 .. MaxRuns
  /\ crashes \in 0 .. MaxCrashes

\* A freshly loaded snapshot: nothing pruned, every message stored.
Init ==
  /\ stored = Msgs
  /\ childIdx = {e \in Msgs \X Msgs : e[1] \in Parents[e[2]]}
  /\ milestones = Indices \ MissingMilestones
  /\ ledgerDiffs = Indices
  /\ unconf = UnconfAt
  /\ seps = {}
  /\ sepIndex = 0
  /\ snap = [pruningIndex |-> 0, entryPointIndex |-> 0]
  /\ pc = "idle"
  /\ target = 0
  /\ cur = 0
  /\ toDelete = {}
  /\ isPruning = FALSE
  /\ abort = FALSE
  /\ runs = 0
  /\ crashes = 0

-----------------------------------------------------------------------------
(***************************************************************************)
(* Helpers.                                                                *)
(***************************************************************************)

\* getSolidEntryPoints(targetIndex), which is not under src/: the messages
\* confirmed at or below t that a message confirmed above t references, and
\* the milestone message of t itself (spec section 3, and the comment of
\* the TraverseParents call: "the pruning target index is also a solid
\* entry point").
SolidEntryPointsFor(t) ==
  {q \in Msgs : /\ ConfIndex[q] \in 1 .. t
                /\ \E m \in Msgs : ConfIndex[m] > t /\ q \in Parents[m]}
    \cup {MsMsg[t]}

\* dag.TraverseParents(start, condition true, consumer collect, missing
\* parent ignored, solid entry points not entered, start traversed even if
\* it is one): the messages the consumer is called with.
ParentCone(start) ==
  LET Walkable == stored \ seps
      \* a set of messages the walk from start cannot leave
      ClosedFrom(T) == \A m \in T : Parents[m] \cap Walkable \subseteq T
  IN IF start \notin stored THEN {}
     ELSE {q \in Walkable \cup {start} :
             \A U \in SUBSET Walkable : ClosedFrom(U \cup {start}) => q \in U \cup {start}}

\* pruneMessages for one message: the body of ConsumeMessage (DeleteChild on
\* both parents, DeleteChildren, DeleteMessage).
DeletedChildEntries(D) ==
  {e \in childIdx : e[2] \in D \/ e[1] \in D}

\* The milestone-bundle check (lines 46-59): a message that may be a
\* milestone transaction is kept when one of its bundles is a milestone;
\* when no bundle is found (nil or empty, line 48) it falls through and is
\* pruned.
KeptAsMilestoneTx(m) ==
  m \in MaybeMilestoneTxs /\ m \in BundledTxs /\ m \in MilestoneTxs

\* Mutant of UnconfirmedToPrune: the IsConfirmed check (lines 40-44) left
\* out.
UnconfirmedToPruneNoConfirmedCheck(i) ==
  {m \in unconf[i] : m \in stored /\ ~KeptAsMilestoneTx(m)}

\* pruneUnconfirmedTransactions(i): the listed IDs still stored, still
\* unconfirmed and not kept by the milestone-bundle check go to
\* pruneMessages; then DeleteUnconfirmedMessages(i).
UnconfirmedToPrune(i) ==
  {m \in unconf[i] : m \in stored /\ ConfIndex[m] = 0 /\ ~KeptAsMilestoneTx(m)}

PruneUnconfirmed(i) ==
  LET D == UnconfirmedToPrune(i) IN
  /\ stored' = stored \ D
  /\ childIdx' = childIdx \ DeletedChildEntries(D)
  /\ unconf' = [unconf EXCEPT ![i] = {}]

\* return from pruneDatabase: the deferred setIsPruning(false).
Return ==
  /\ pc' = "idle"
  /\ isPruning' = FALSE
  /\ toDelete' = {}

-----------------------------------------------------------------------------
(***************************************************************************)
(* pruneDatabase, one action per store write or decision.                  *)
(***************************************************************************)

\* Subtraction of milestone indexes, which wraps around.
IndexSub(x, y) == (x - y) % IndexModulus

\* Mutant of Request: the clamp to targetIndexMax (lines 124-126) left out.
RequestNoClamp(t) ==
  /\ pc = "idle"
  /\ runs < MaxRuns
  /\ runs' = runs + 1
  /\ abort' = FALSE
  /\ \/ /\ \/ SnapshotIndex < ThresholdPast + AdditionalThreshold + 1
           \/ snap.pruningIndex >= t
           \/ snap.entryPointIndex + AdditionalThreshold + 1 > t
        /\ UNCHANGED <<pc, target, cur, toDelete, isPruning>>
     \/ /\ SnapshotIndex >= ThresholdPast + AdditionalThreshold + 1
        /\ snap.pruningIndex < t
        /\ snap.entryPointIndex + AdditionalThreshold + 1 <= t
        /\ pc' = "sep"
        /\ target' = t
        /\ isPruning' = TRUE
        /\ UNCHANGED <<cur, toDelete>>
  /\ UNCHANGED <<store, crashes>>

\* Mutant of Request: the EntryPointIndex guard (lines 133-136) left out.
RequestNoEntryPointGuard(t) ==
  LET tMax == IndexSub(SnapshotIndex, ThresholdPast + AdditionalThreshold + 1)
      tc   == IF t > tMax THEN tMax ELSE t
  IN
  /\ pc = "idle"
  /\ runs < MaxRuns
  /\ runs' = runs + 1
  /\ abort' = FALSE
  /\ \/ /\ \/ SnapshotIndex < ThresholdPast + AdditionalThreshold + 1
           \/ snap.pruningIndex >= tc
        /\ UNCHANGED <<pc, target, cur, toDelete, isPruning>>
     \/ /\ SnapshotIndex >= ThresholdPast + AdditionalThreshold + 1
        /\ snap.pruningIndex < tc
        /\ pc' = "sep"
        /\ target' = tc
        /\ isPruning' = TRUE
        /\ UNCHANGED <<cur, toDelete>>
  /\ UNCHANGED <<store, crashes>>

\* The guards: enough history, clamp to targetIndexMax, pruning needed,
\* entry points not too far behind.  A call that fails a guard returns an
\* error and changes nothing; one that passes sets isPruning.
Request(t) ==
  LET tMax == IndexSub(SnapshotIndex, ThresholdPast + AdditionalThreshold + 1)
      tc   == IF t > tMax THEN tMax ELSE t
  IN
  /\ pc = "idle"
  /\ runs < MaxRuns
  /\ runs' = runs + 1
  /\ abort' = FALSE
  /\ \/ /\ \/ SnapshotIndex < ThresholdPast + AdditionalThreshold + 1
           \/ snap.pruningIndex >= tc
           \/ snap.entryPointIndex + AdditionalThreshold + 1 > tc
        /\ UNCHANGED <<pc, target, cur, toDelete, isPruning>>
     \/ /\ SnapshotIndex >= ThresholdPast + AdditionalThreshold + 1
        /\ snap.pruningIndex < tc
        /\ snap.entryPointIndex + AdditionalThreshold + 1 <= tc
        /\ pc' = "sep"
        /\ target' = tc
        /\ isPruning' = TRUE
        /\ UNCHANGED <<cur, toDelete>>
  /\ UNCHANGED <<store, crashes>>

\* getSolidEntryPoints, which returns PruningAborted if the signal fired;
\* otherwise reset, add and store the entry points under the write lock.
ComputeSolidEntryPoints ==
  /\ pc = "sep"
  /\ \/ /\ abort
        /\ Return
        /\ UNCHANGED <<seps, sepIndex>>
     \/ /\ seps' = SolidEntryPointsFor(target)
        /\ sepIndex' = target
        /\ pc' = "epi"
        /\ UNCHANGED <<toDelete, isPruning>>
  /\ UNCHANGED <<stored, childIdx, milestones, ledgerDiffs, unconf, snap,
                 target, cur, abort, runs, crashes>>

\* Mutant of SetEntryPointIndex: SetSnapshotInfo not called (line 158).
SetEntryPointIndexNotPersisted ==
  /\ pc = "epi"
  /\ pc' = "unconfOld"
  /\ UNCHANGED <<store, target, cur, toDelete, isPruning, abort, runs,
                 crashes>>

\* snapshotInfo.EntryPointIndex = targetIndex; SetSnapshotInfo.
SetEntryPointIndex ==
  /\ pc = "epi"
  /\ snap' = [snap EXCEPT !.entryPointIndex = target]
  /\ pc' = "unconfOld"
  /\ UNCHANGED <<stored, childIdx, milestones, ledgerDiffs, unconf, seps,
                 sepIndex, target, cur, toDelete, isPruning, abort, runs,
                 crashes>>

\* pruneUnconfirmedTransactions(snapshotInfo.PruningIndex), then the loop
\* starts at PruningIndex + 1.
PruneUnconfirmedOld ==
  /\ pc = "unconfOld"
  /\ PruneUnconfirmed(snap.pruningIndex)
  /\ cur' = snap.pruningIndex + 1
  /\ pc' = "loop"
  /\ UNCHANGED <<milestones, ledgerDiffs, seps, sepIndex, snap, target,
                 toDelete, isPruning, abort, runs, crashes>>

\* The loop condition, the abort check, and pruneUnconfirmedTransactions.
LoopHead ==
  /\ pc = "loop"
  /\ \/ /\ cur > target
        /\ pc' = "gc"
        /\ UNCHANGED <<stored, childIdx, unconf, toDelete, isPruning>>
     \/ /\ cur <= target
        /\ abort
        /\ Return
        /\ UNCHANGED <<stored, childIdx, unconf>>
     \/ /\ cur <= target
        /\ ~abort
        /\ PruneUnconfirmed(cur)
        /\ pc' = "cone"
        /\ UNCHANGED <<toDelete, isPruning>>
  /\ UNCHANGED <<milestones, ledgerDiffs, seps, sepIndex, snap, target, cur,
                 abort, runs, crashes>>

\* Mutant of TraverseCone: the continue skips the milestoneIndex++ (as a
\* while loop with the increment at the end of its body would).
TraverseConeNoAdvance ==
  /\ pc = "cone"
  /\ \/ /\ cur \notin milestones
        /\ pc' = "loop"
        /\ UNCHANGED <<toDelete, cur>>
     \/ /\ cur \in milestones
        /\ toDelete' = ParentCone(MsMsg[cur])
        /\ pc' = "prune"
        /\ UNCHANGED cur
  /\ UNCHANGED <<store, target, isPruning, abort, runs, crashes>>

\* GetCachedMilestoneOrNil: a missing milestone is logged and skipped
\* (continue); otherwise TraverseParents collects its past cone.
TraverseCone ==
  /\ pc = "cone"
  /\ \/ /\ cur \notin milestones
        /\ cur' = cur + 1
        /\ pc' = "loop"
        /\ UNCHANGED toDelete
     \/ /\ cur \in milestones
        /\ toDelete' = ParentCone(MsMsg[cur])
        /\ pc' = "prune"
        /\ UNCHANGED cur
  /\ UNCHANGED <<store, target, isPruning, abort, runs, crashes>>

\* pruneMessages: one message of the map at a time, in any order; a
\* message no longer stored is skipped.
PruneMessage ==
  /\ pc = "prune"
  /\ \/ /\ toDelete = {}
        /\ pc' = "milestone"
        /\ UNCHANGED <<stored, childIdx, toDelete>>
     \/ \E m \in toDelete :
          /\ stored' = stored \ {m}
          /\ childIdx' = childIdx \ DeletedChildEntries({m})
          /\ toDelete' = toDelete \ {m}
          /\ UNCHANGED pc
  /\ UNCHANGED <<milestones, ledgerDiffs, unconf, seps, sepIndex, snap,
                 target, cur, isPruning, abort, runs, crashes>>

\* pruneMilestone: DeleteLedgerDiffForMilestone and DeleteMilestone.
PruneMilestone ==
  /\ pc = "milestone"
  /\ ledgerDiffs' = ledgerDiffs \ {cur}
  /\ milestones' = milestones \ {cur}
  /\ pc' = "advance"
  /\ UNCHANGED <<stored, childIdx, unconf, seps, sepIndex, snap, target, cur,
                 toDelete, isPruning, abort, runs, crashes>>

\* snapshotInfo.PruningIndex = milestoneIndex; SetSnapshotInfo; the
\* PruningMilestoneIndexChanged event; next milestone.
AdvancePruningIndex ==
  /\ pc = "advance"
  /\ snap' = [snap EXCEPT !.pruningIndex = cur]
  /\ cur' = cur + 1
  /\ pc' = "loop"
  /\ UNCHANGED <<stored, childIdx, milestones, ledgerDiffs, unconf, seps,
                 sepIndex, target, toDelete, isPruning, abort, runs, crashes>>

\* database.RunGarbageCollection, return nil.
GarbageCollect ==
  /\ pc = "gc"
  /\ Return
  /\ UNCHANGED <<store, target, cur, abort, runs, crashes>>

-----------------------------------------------------------------------------
(***************************************************************************)
(* Environment: the abort signal and crashes.                              *)
(***************************************************************************)

SignalAbort ==
  /\ pc # "idle"
  /\ ~abort
  /\ abort' = TRUE
  /\ UNCHANGED <<store, pc, target, cur, toDelete, isPruning, runs, crashes>>

\* The process dies: what was written to the store stays, the rest is lost.
Crash ==
  /\ pc # "idle"
  /\ crashes < MaxCrashes
  /\ crashes' = crashes + 1
  /\ Return
  /\ abort' = FALSE
  /\ UNCHANGED <<store, target, cur, runs>>

Engine ==
  \/ ComputeSolidEntryPoints
  \/ SetEntryPointIndex
  \/ PruneUnconfirmedOld
  \/ LoopHead
  \/ TraverseCone
  \/ PruneMessage
  \/ PruneMilestone
  \/ AdvancePruningIndex
  \/ GarbageCollect

Next ==
  \/ \E t \in Indices : Request(t)
  \/ Engine
  \/ SignalAbort
  \/ Crash

\* The worker running pruneDatabase is not starved: weak fairness of its
\* steps.  Calls, aborts and crashes come from outside and are not forced.
Spec == Init /\ [][Next]_vars /\ WF_vars(Engine)

-----------------------------------------------------------------------------
(***************************************************************************)
(* Properties.                                                             *)
(***************************************************************************)

\* PruningIndex <= EntryPointIndex <= SnapshotIndex in the persisted
\* SnapshotInfo, at every point, crashes included (spec section 3 and
\* section 8, property 3).  ImplementsPruningIndexes implies it; it is the
\* core of the inductive invariant of PruningEngineProofs.
SnapshotIndexOrder ==
  /\ snap.pruningIndex <= snap.entryPointIndex
  /\ snap.entryPointIndex <= SnapshotIndex

\* No stored message confirmed after the solid entry points' index has a
\* parent that is neither stored nor a solid entry point, whatever crash,
\* abort or missing milestone came before (spec section 8, property 4: the
\* store stays consistent).  It rests on the entry points being stored
\* before deleting, on TraverseParents not entering them, and on
\* pruneUnconfirmedTransactions skipping messages that became confirmed.
NoDanglingParent ==
  \A m \in stored :
    ConfIndex[m] > sepIndex => Parents[m] \subseteq stored \cup seps

\* No message confirmed above the persisted EntryPointIndex is ever deleted,
\* whatever crash, abort, stale unconfirmed-index entry or missing milestone
\* came before (spec section 4.3, phase 1: EntryPointIndex is persisted
\* "before deleting any cone data").  It rests on line 158 running before
\* the first deletion of a call, on the cones of milestones at most the
\* target, and on pruneUnconfirmedTransactions skipping messages that
\* became confirmed (lines 40-44).
NothingPrunedAboveEntryPoint ==
  \A q \in Msgs \ stored : ConfIndex[q] <= snap.entryPointIndex

\* Every message confirmed at or below the persisted PruningIndex that no
\* message confirmed above it references is deleted (spec glossary:
\* PruningIndex is "the highest milestone whose cone has been fully
\* deleted"; section 4.3: a restart after a death in phase 3 "resumes from
\* PruningIndex + 1").  Messages referenced from above are the solid entry
\* points of PruningIndex and are kept.
ConePrunedBelowIndex ==
  \A q \in Msgs :
    /\ ConfIndex[q] \in 1 .. snap.pruningIndex
    /\ \A m \in Msgs : q \in Parents[m] => ConfIndex[m] <= snap.pruningIndex
    => q \notin stored

\* Every pruneDatabase call returns, whatever milestones are missing, as
\* long as the worker keeps running it: the loop advances milestoneIndex on
\* each path, the continue after a missing milestone included.
PruningTerminates ==
  pc # "idle" ~> pc = "idle"

\* After a call that persisted EntryPointIndex = T and stopped before
\* PruningIndex reached T (abort or crash), a new call with targetIndex T is
\* accepted and resumes from PruningIndex + 1 (spec section 8, property 4,
\* and scenario S5).  The guard of pruneDatabase on EntryPointIndex
\* (line 133) decides it.
ResumeAccepted ==
  LET T == snap.entryPointIndex IN
  pc = "idle" /\ runs < MaxRuns /\ snap.pruningIndex < T =>
    ENABLED (Request(T) /\ pc' = "sep")

\* Every ledger diff at or below the persisted PruningIndex has been
\* deleted: spec section 7 says a milestone that cannot be pruned "is
\* skipped without advancing PruningIndex, so the next run retries".
LedgerPrunedBelowIndex ==
  \A i \in 1 .. snap.pruningIndex : i \notin ledgerDiffs

\* The indexes persisted in SnapshotInfo, seen through every call, abort and
\* crash, behave as PruningIndexes says.
Indexes == INSTANCE PruningIndexes
             WITH pruningIndex <- snap.pruningIndex,
                  entryPointIndex <- snap.entryPointIndex

\* pruneDatabase implements PruningIndexes: EntryPointIndex moves only to a
\* clamped target more than AdditionalPruningThreshold above it (lines
\* 118-136, 157-158), PruningIndex only forward to a milestone at most
\* EntryPointIndex (lines 164, 220-221), and neither goes back after a
\* crash or a resumed call.
ImplementsPruningIndexes == Indexes!Spec

=============================================================================
