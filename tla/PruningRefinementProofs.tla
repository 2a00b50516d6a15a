--------------------- MODULE PruningRefinementProofs ----------------------
(***************************************************************************)
(* Proof that pruneDatabase (PruningEngine) implements PruningIndexes      *)
(* under the mapping of the abstract indexes to the persisted SnapshotInfo *)
(* (PruningEngine!Indexes), for every tangle, every threshold and every    *)
(* width of the milestone index.                                           *)
(***************************************************************************)
EXTENDS PruningEngineProofs

\* What a call keeps between its guards and its writes: the accepted
\* target stays more than AdditionalPruningThreshold above EntryPointIndex
\* and within targetIndexMax until EntryPointIndex is set to it, and
\* milestoneIndex stays above the PruningIndex it persisted last.
IndexBounds ==
  /\ pc \in {"sep", "epi"} =>
       /\ snap.entryPointIndex + AdditionalThreshold + 1 <= target
       /\ target + ThresholdPast + AdditionalThreshold + 1 <= SnapshotIndex
  /\ pc \in InLoopBody \cup {"loop"} => snap.pruningIndex < cur

RInv == IInv /\ IndexBounds

LEMMA RInvInit == Init => RInv
<1>1. Init => IndexBounds
  BY DEF Init, IndexBounds, InLoopBody
<1>2. QED
  BY <1>1, IInvInit DEF RInv

\* An accepted call's target passed the guards of lines 118-136, with
\* targetIndexMax computed without wrapping.
LEMMA RequestBounds ==
  ASSUME IInv, NEW t \in Indices, Request(t), pc' = "sep"
  PROVE  /\ snap' = snap
         /\ snap.entryPointIndex + AdditionalThreshold + 1 <= target'
         /\ target' + ThresholdPast + AdditionalThreshold + 1 <= SnapshotIndex
<1> USE IndexFacts
<1> DEFINE k == ThresholdPast + AdditionalThreshold + 1
           tMax == IndexSub(SnapshotIndex, k)
           tc == IF t > tMax THEN tMax ELSE t
<1>1. /\ snap' = snap
      /\ snap.entryPointIndex + AdditionalThreshold + 1 <= tc
      /\ target' = tc
      /\ SnapshotIndex >= k
  BY Zenon DEF Request, store
<1>2. tMax = SnapshotIndex - k
  BY <1>1, IndexSubNoWrap
<1>3. snap.entryPointIndex \in Nat
  BY IInvParts DEF StoreTyped
<1>4. QED
  BY <1>1, <1>2, <1>3 DEF Indices

\* Each step keeps IndexBounds.
LEMMA IndexBoundsStep ==
  ASSUME IInv, IndexBounds, [Next]_vars
  PROVE  IndexBounds'
<1> USE IndexFacts
<1>0. /\ StoreTyped /\ EngineCounters /\ EngineFlags /\ Progress
  BY IInvParts
<1>1. CASE \E t \in Indices : Request(t)
  <2>1. PICK t \in Indices : Request(t)
    BY <1>1
  <2>2. CASE pc' = "sep"
    BY <2>1, <2>2, RequestBounds DEF IndexBounds, InLoopBody
  <2>3. CASE pc' # "sep"
    <3>1. pc' = "idle"
      BY <2>1, <2>3 DEF Request
    <3>2. QED
      BY <3>1 DEF IndexBounds, InLoopBody
  <2>4. QED
    BY <2>2, <2>3
<1>2. CASE ComputeSolidEntryPoints
  <2>1. /\ snap' = snap /\ target' = target /\ pc = "sep"
        /\ pc' \in {"idle", "epi"}
    BY <1>2 DEF ComputeSolidEntryPoints, Return
  <2>2. QED
    BY <2>1 DEF IndexBounds, InLoopBody
<1>3. CASE SetEntryPointIndex
  <2>1. pc' = "unconfOld"
    BY <1>3 DEF SetEntryPointIndex
  <2>2. QED
    BY <2>1 DEF IndexBounds, InLoopBody
<1>4. CASE PruneUnconfirmedOld
  <2>1. /\ snap' = snap /\ pc' = "loop" /\ cur' = snap.pruningIndex + 1
    BY <1>4 DEF PruneUnconfirmedOld
  <2>2. snap.pruningIndex \in Nat
    BY <1>0 DEF StoreTyped
  <2>3. QED
    BY <2>1, <2>2 DEF IndexBounds, InLoopBody
<1>5. CASE LoopHead
  <2>1. /\ snap' = snap /\ cur' = cur /\ pc = "loop"
        /\ pc' \in {"gc", "idle", "cone"}
    BY <1>5 DEF LoopHead, Return
  <2>2. QED
    BY <2>1 DEF IndexBounds, InLoopBody
<1>6. CASE TraverseCone
  <2>1. /\ snap' = snap /\ pc = "cone"
        /\ \/ cur' = cur + 1 /\ pc' = "loop"
           \/ cur' = cur /\ pc' = "prune"
    BY <1>6 DEF TraverseCone, store
  <2>2. cur \in Nat /\ snap.pruningIndex \in Nat
    BY <1>0 DEF StoreTyped, EngineCounters
  <2>3. QED
    BY <2>1, <2>2 DEF IndexBounds, InLoopBody
<1>7. CASE PruneMessage
  <2>1. /\ snap' = snap /\ cur' = cur /\ pc = "prune"
        /\ pc' \in {"prune", "milestone"}
    BY <1>7 DEF PruneMessage
  <2>2. QED
    BY <2>1 DEF IndexBounds, InLoopBody
<1>8. CASE PruneMilestone
  <2>1. /\ snap' = snap /\ cur' = cur /\ pc = "milestone"
        /\ pc' = "advance"
    BY <1>8 DEF PruneMilestone
  <2>2. QED
    BY <2>1 DEF IndexBounds, InLoopBody
<1>9. CASE AdvancePruningIndex
  <2>1. /\ snap' = [snap EXCEPT !.pruningIndex = cur]
        /\ cur' = cur + 1 /\ pc' = "loop"
    BY <1>9 DEF AdvancePruningIndex
  <2>2. cur \in Nat
    BY <1>0 DEF EngineCounters
  <2>3. snap'.pruningIndex = cur
    BY <1>0, <2>1 DEF StoreTyped
  <2>4. QED
    BY <2>1, <2>2, <2>3 DEF IndexBounds, InLoopBody
<1>10. CASE GarbageCollect \/ Crash
  <2>1. pc' = "idle"
    BY <1>10 DEF GarbageCollect, Crash, Return
  <2>2. QED
    BY <2>1 DEF IndexBounds, InLoopBody
<1>11. CASE SignalAbort
  <2>1. snap' = snap /\ pc' = pc /\ target' = target /\ cur' = cur
    BY <1>11 DEF SignalAbort, store
  <2>2. QED
    BY <2>1 DEF IndexBounds
<1>12. CASE UNCHANGED vars
  <2>1. snap' = snap /\ pc' = pc /\ target' = target /\ cur' = cur
    BY <1>12 DEF vars, store, engine
  <2>2. QED
    BY <2>1 DEF IndexBounds
<1>13. QED
  BY <1>1, <1>2, <1>3, <1>4, <1>5, <1>6, <1>7, <1>8, <1>9, <1>10, <1>11,
     <1>12 DEF Next, Engine

LEMMA RInvStep == RInv /\ [Next]_vars => RInv'
BY IInvStep, IndexBoundsStep DEF RInv

\* Every step of pruneDatabase or of its environment is a step of
\* PruningIndexes on the persisted indexes, or leaves them alone.
LEMMA RefinementStep ==
  ASSUME RInv, [Next]_vars
  PROVE  [Indexes!Next]_Indexes!absVars
<1> USE IndexFacts
<1>0. /\ StoreTyped /\ EngineCounters /\ Progress /\ IndexBounds
      /\ SnapshotIndexOrder
  BY IInvParts DEF RInv
<1>1. CASE SetEntryPointIndex
  <2>1. /\ snap' = [snap EXCEPT !.entryPointIndex = target]
        /\ pc = "epi"
    BY <1>1 DEF SetEntryPointIndex
  <2>2. /\ snap.pruningIndex < target
        /\ snap.entryPointIndex + AdditionalThreshold + 1 <= target
        /\ target + ThresholdPast + AdditionalThreshold + 1 <= SnapshotIndex
    BY <1>0, <2>1 DEF Progress, IndexBounds
  <2>3. /\ snap'.entryPointIndex = target
        /\ snap'.pruningIndex = snap.pruningIndex
        /\ target \in 1 .. SnapshotIndex
    BY <1>0, <2>1, <2>2 DEF StoreTyped, EngineCounters
  <2>4. Indexes!MoveEntryPoint(target)
    BY <2>2, <2>3 DEF Indexes!MoveEntryPoint
  <2>5. QED
    BY <2>3, <2>4 DEF Indexes!Next
<1>2. CASE AdvancePruningIndex
  <2>1. /\ snap' = [snap EXCEPT !.pruningIndex = cur]
        /\ pc = "advance"
    BY <1>2 DEF AdvancePruningIndex
  <2>2. /\ snap.pruningIndex < cur
        /\ cur <= target
        /\ snap.entryPointIndex = target
    BY <1>0, <2>1 DEF Progress, IndexBounds, InLoopBody, AfterEpi
  <2>3. /\ snap'.pruningIndex = cur
        /\ snap'.entryPointIndex = snap.entryPointIndex
        /\ cur \in 1 .. SnapshotIndex
    BY <1>0, <2>1, <2>2 DEF StoreTyped, EngineCounters
  <2>4. Indexes!MovePruningIndex(cur)
    BY <2>2, <2>3 DEF Indexes!MovePruningIndex
  <2>5. QED
    BY <2>3, <2>4 DEF Indexes!Next
<1>3. CASE ~SetEntryPointIndex /\ ~AdvancePruningIndex
  <2>1. snap' = snap
    BY <1>3 DEF Next, Engine, Request, ComputeSolidEntryPoints,
       PruneUnconfirmedOld, PruneUnconfirmed, LoopHead, TraverseCone,
       PruneMessage, PruneMilestone, GarbageCollect, SignalAbort, Crash,
       vars, store, engine
  <2>2. QED
    BY <2>1 DEF Indexes!absVars
<1>4. QED
  BY <1>1, <1>2, <1>3

-----------------------------------------------------------------------------
(***************************************************************************)
(* Theorems.                                                               *)
(***************************************************************************)

\* pruneDatabase implements PruningIndexes: through every call, abort and
\* crash, the persisted EntryPointIndex only moves forward to a target
\* that passed the guards of pruning.go:118-136 (the uint32
\* targetIndexMax of line 123 included), and PruningIndex only forward to
\* a milestone at most EntryPointIndex (pruning.go:164, 220-221).
THEOREM Refinement == Spec => ImplementsPruningIndexes
<1>1. Init => Indexes!Init
  BY DEF Init, Indexes!Init
<1>2. RInv /\ [Next]_vars => [Indexes!Next]_Indexes!absVars
  BY RefinementStep
<1>3. QED
  BY <1>1, <1>2, RInvInit, RInvStep, PTL
  DEF Spec, ImplementsPruningIndexes, Indexes!Spec

-----------------------------------------------------------------------------
(***************************************************************************)
(* What the refinement buys: an invariant of PruningIndexes, proved on the *)
(* abstract indexes alone, holds of the persisted SnapshotInfo.            *)
(***************************************************************************)

\* The initial indexes satisfy the abstract invariant.
LEMMA AbstractInvInit == Indexes!Init => Indexes!IndexesInv
BY DEF Indexes!Init, Indexes!IndexesInv, Indexes!EntryPointWindow

\* Every step of PruningIndexes keeps its invariant: a new EntryPointIndex
\* passed the window guard, a new PruningIndex stays below it.
LEMMA AbstractInvStep ==
  ASSUME Indexes!IndexesInv, [Indexes!Next]_Indexes!absVars
  PROVE  Indexes!IndexesInv'
<1> USE IndexFacts
<1>1. ASSUME NEW t \in 1 .. SnapshotIndex, Indexes!MoveEntryPoint(t)
      PROVE  Indexes!IndexesInv'
  BY <1>1 DEF Indexes!MoveEntryPoint, Indexes!IndexesInv,
              Indexes!EntryPointWindow
<1>2. ASSUME NEW i \in 1 .. SnapshotIndex, Indexes!MovePruningIndex(i)
      PROVE  Indexes!IndexesInv'
  BY <1>2 DEF Indexes!MovePruningIndex, Indexes!IndexesInv,
              Indexes!EntryPointWindow
<1>3. CASE UNCHANGED Indexes!absVars
  BY <1>3 DEF Indexes!absVars, Indexes!IndexesInv, Indexes!EntryPointWindow
<1>4. QED
  BY <1>1, <1>2, <1>3 DEF Indexes!Next

\* The invariant of PruningIndexes holds of the persisted SnapshotInfo in
\* every reachable state: PruningIndex <= EntryPointIndex, and
\* EntryPointIndex is 0 or at least ThresholdPast + AdditionalPruningThreshold
\* + 1 below SnapshotIndex, because only a target clamped to targetIndexMax
\* (pruning.go:123-126) is ever persisted as EntryPointIndex (line 158),
\* through every call, abort and crash.
THEOREM IndexesInvHolds == Spec => []Indexes!IndexesInv
<1>1. Spec => Indexes!Spec
  BY Refinement DEF ImplementsPruningIndexes
<1>2. Indexes!Spec => []Indexes!IndexesInv
  BY AbstractInvInit, AbstractInvStep, PTL DEF Indexes!Spec
<1>3. QED
  BY <1>1, <1>2, PTL

=============================================================================
