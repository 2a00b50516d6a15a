------------------------ MODULE PruningEngineProofs ------------------------
(***************************************************************************)
(* Proofs about pruneDatabase (PruningEngine), for every tangle, every     *)
(* threshold and every bound: the type invariant, and the order            *)
(* PruningIndex <= EntryPointIndex <= SnapshotIndex of the persisted       *)
(* SnapshotInfo through aborts and crashes.                                *)
(***************************************************************************)
EXTENDS PruningEngine, TLAPS

\* The pcs from SetEntryPointIndex to the return: EntryPointIndex has been
\* persisted for the current target.
AfterEpi == {"unconfOld", "loop", "cone", "prune", "milestone", "advance", "gc"}

\* The pcs of the body of the milestone loop.
InLoopBody == {"cone", "prune", "milestone", "advance"}

\* SnapshotIndexOrder is not inductive: SetEntryPointIndex needs the target
\* above PruningIndex, and AdvancePruningIndex needs milestoneIndex at most
\* the EntryPointIndex persisted for this call.
Progress ==
  /\ pc \in {"sep", "epi"} => snap.pruningIndex < target
  /\ pc \in AfterEpi => snap.entryPointIndex = target
  /\ pc \in InLoopBody \cup {"loop"} => 1 <= cur
  /\ pc \in InLoopBody => cur <= target
  /\ pc = "loop" => cur <= target + 1

IInv == TypeOK /\ SnapshotIndexOrder /\ Progress

\* TypeOK in three parts, small enough for the provers one at a time.
StoreTyped ==
  /\ stored \subseteq Msgs
  /\ childIdx \subseteq Msgs \X Msgs
  /\ milestones \subseteq Indices
  /\ ledgerDiffs \subseteq Indices
  /\ unconf \in [0 .. MaxIndex -> SUBSET Msgs]
  /\ seps \subseteq Msgs
  /\ sepIndex \in 0 .. SnapshotIndex
  /\ snap \in [pruningIndex : 0 .. SnapshotIndex,
               entryPointIndex : 0 .. SnapshotIndex]

EngineCounters ==
  /\ target \in 0 .. SnapshotIndex
  /\ cur \in 0 .. MaxIndex + 1
  /\ runs \in 0 .. MaxRuns
  /\ crashes \in 0 .. MaxCrashes

EngineFlags ==
  /\ pc \in Pcs
  /\ toDelete \subseteq Msgs
  /\ isPruning \in BOOLEAN
  /\ abort \in BOOLEAN

-----------------------------------------------------------------------------
(***************************************************************************)
(* Lemmas about the helpers.                                               *)
(***************************************************************************)

\* The cone TraverseParents collects from a message consists of messages.
LEMMA ParentConeType ==
  ASSUME NEW s \in Msgs, stored \subseteq Msgs
  PROVE  ParentCone(s) \subseteq Msgs
BY DEF ParentCone

\* The solid entry points for a milestone are messages.
LEMMA SolidEntryPointsType ==
  ASSUME NEW t \in Indices
  PROVE  SolidEntryPointsFor(t) \subseteq Msgs
BY ConstantsAssumption DEF SolidEntryPointsFor

\* Pruning the unconfirmed messages of an index keeps the store's types.
LEMMA PruneUnconfirmedType ==
  ASSUME TypeOK, NEW i \in 0 .. MaxIndex, PruneUnconfirmed(i)
  PROVE  /\ stored' \subseteq Msgs
         /\ childIdx' \subseteq Msgs \X Msgs
         /\ unconf' \in [0 .. MaxIndex -> SUBSET Msgs]
BY DEF PruneUnconfirmed, TypeOK

\* Return leaves the engine idle.
LEMMA ReturnType ==
  ASSUME Return
  PROVE  /\ pc' = "idle"
         /\ isPruning' \in BOOLEAN
         /\ toDelete' \subseteq Msgs
BY DEF Return

-----------------------------------------------------------------------------
(***************************************************************************)
(* The inductive invariant.                                                *)
(***************************************************************************)

LEMMA IInvInit == Init => IInv
<1> SUFFICES ASSUME Init PROVE IInv
  OBVIOUS
<1>1. SnapshotIndex \in Nat /\ 0 <= SnapshotIndex
  BY ConstantsAssumption DEF Indices
<1>2. snap \in [pruningIndex : 0 .. SnapshotIndex,
               entryPointIndex : 0 .. SnapshotIndex]
  BY <1>1 DEF Init
<1>3. /\ stored \subseteq Msgs
      /\ childIdx \subseteq Msgs \X Msgs
      /\ milestones \subseteq Indices
      /\ ledgerDiffs \subseteq Indices
      /\ unconf \in [0 .. MaxIndex -> SUBSET Msgs]
      /\ seps \subseteq Msgs
  BY ConstantsAssumption DEF Init
<1>4. /\ sepIndex \in 0 .. SnapshotIndex
      /\ target \in 0 .. SnapshotIndex
      /\ cur \in 0 .. MaxIndex + 1
      /\ runs \in 0 .. MaxRuns
      /\ crashes \in 0 .. MaxCrashes
  BY <1>1, ConstantsAssumption DEF Init
<1>9. /\ pc \in Pcs
      /\ toDelete \subseteq Msgs
      /\ isPruning \in BOOLEAN
      /\ abort \in BOOLEAN
  BY Zenon DEF Init, Pcs
<1>5. TypeOK
  BY <1>2, <1>3, <1>4, <1>9 DEF TypeOK
<1>6. SnapshotIndexOrder
  BY <1>1 DEF Init, SnapshotIndexOrder
<1>7. Progress
  BY DEF Init, Progress, AfterEpi, InLoopBody
<1>8. QED
  BY <1>5, <1>6, <1>7 DEF IInv


\* Facts about the constants the steps use.
LEMMA IndexFacts ==
  /\ MaxIndex \in Nat
  /\ IndexModulus \in Nat /\ MaxIndex < IndexModulus
  /\ SnapshotIndex \in 1 .. MaxIndex
  /\ ThresholdPast \in Nat
  /\ AdditionalThreshold \in Nat
  /\ MaxRuns \in Nat
  /\ MaxCrashes \in Nat
BY ConstantsAssumption DEF Indices

\* The uint32 subtraction of a smaller index from a larger one does not
\* wrap.
LEMMA IndexSubNoWrap ==
  ASSUME NEW x \in 0 .. MaxIndex, NEW y \in Nat, y <= x
  PROVE  IndexSub(x, y) = x - y
<1>1. x - y \in 0 .. IndexModulus - 1
  BY IndexFacts
<1>2. QED
  BY <1>1, IndexFacts DEF IndexSub

\* The invariant from its parts, in the next state.
LEMMA IInvFromParts ==
  ASSUME StoreTyped', EngineCounters', EngineFlags', SnapshotIndexOrder',
         Progress'
  PROVE  IInv'
BY DEF IInv, TypeOK, StoreTyped, EngineCounters, EngineFlags

\* The invariant in parts, in the current state.
LEMMA IInvParts ==
  ASSUME IInv
  PROVE  /\ StoreTyped /\ EngineCounters /\ EngineFlags
         /\ SnapshotIndexOrder /\ Progress
BY DEF IInv, TypeOK, StoreTyped, EngineCounters, EngineFlags


\* A call either fails a guard and changes nothing but the call count, or is
\* accepted with the clamped target above PruningIndex, at most
\* SnapshotIndex.
LEMMA RequestStep ==
  ASSUME IInv, NEW t \in Indices, Request(t)
  PROVE  IInv'
<1> USE IndexFacts
<1>1. /\ StoreTyped /\ EngineCounters /\ EngineFlags
      /\ SnapshotIndexOrder /\ Progress
  BY IInvParts
<1>2. /\ stored' = stored /\ childIdx' = childIdx
      /\ milestones' = milestones /\ ledgerDiffs' = ledgerDiffs
      /\ unconf' = unconf /\ seps' = seps /\ sepIndex' = sepIndex
      /\ snap' = snap /\ crashes' = crashes
      /\ cur' = cur /\ toDelete' = toDelete
      /\ runs' = runs + 1 /\ runs < MaxRuns /\ abort' = FALSE
      /\ pc = "idle"
  BY DEF Request, store
<1>3. StoreTyped'
  BY <1>1, <1>2 DEF StoreTyped
<1>4. SnapshotIndexOrder'
  BY <1>1, <1>2 DEF SnapshotIndexOrder
<1>5. CASE UNCHANGED <<pc, target, cur, toDelete, isPruning>>
  <2>1. EngineCounters'
    BY <1>1, <1>2, <1>5 DEF EngineCounters
  <2>2. EngineFlags'
    BY <1>1, <1>2, <1>5 DEF EngineFlags
  <2>3. Progress'
    BY <1>2, <1>5 DEF Progress, AfterEpi, InLoopBody
  <2>4. QED
    BY <1>3, <1>4, <2>1, <2>2, <2>3, IInvFromParts
<1>6. CASE pc' = "sep"
  <2>0. DEFINE tMax == IndexSub(SnapshotIndex, ThresholdPast + AdditionalThreshold + 1)
               tc == IF t > tMax THEN tMax ELSE t
  <2>a. /\ snap.pruningIndex < tc
        /\ target' = tc
        /\ isPruning' = TRUE
        /\ SnapshotIndex >= ThresholdPast + AdditionalThreshold + 1
    BY <1>2, <1>6, Zenon DEF Request
  <2>b. tMax = SnapshotIndex - (ThresholdPast + AdditionalThreshold + 1)
    BY <2>a, IndexSubNoWrap
  <2>1. /\ snap.pruningIndex < tc
        /\ target' = tc
        /\ isPruning' = TRUE
        /\ tMax = SnapshotIndex - (ThresholdPast + AdditionalThreshold + 1)
    BY <2>a, <2>b
  <2>2. /\ target' \in 0 .. SnapshotIndex
        /\ snap.pruningIndex < target'
        /\ isPruning' = TRUE
    BY <1>1, <2>1 DEF StoreTyped, Indices
  <2>3. EngineCounters'
    BY <1>1, <1>2, <2>2 DEF EngineCounters
  <2>4. EngineFlags'
    BY <1>1, <1>2, <1>6, <2>2 DEF EngineFlags, Pcs
  <2>5. Progress'
    BY <1>2, <1>6, <2>2 DEF Progress, AfterEpi, InLoopBody
  <2>6. QED
    BY <1>3, <1>4, <2>3, <2>4, <2>5, IInvFromParts
<1>7. QED
  BY <1>5, <1>6 DEF Request


\* A return (abort, crash, end of the call) makes the engine idle, where
\* Progress asks nothing.
LEMMA ReturnProgress ==
  ASSUME pc' = "idle"
  PROVE  Progress'
BY DEF Progress, AfterEpi, InLoopBody

\* getSolidEntryPoints either aborts or stores the entry points for target.
LEMMA ComputeSolidEntryPointsStep ==
  ASSUME IInv, ComputeSolidEntryPoints
  PROVE  IInv'
<1> USE IndexFacts
<1>1. /\ StoreTyped /\ EngineCounters /\ EngineFlags
      /\ SnapshotIndexOrder /\ Progress
  BY IInvParts
<1>2. /\ stored' = stored /\ childIdx' = childIdx
      /\ milestones' = milestones /\ ledgerDiffs' = ledgerDiffs
      /\ unconf' = unconf /\ snap' = snap
      /\ target' = target /\ cur' = cur /\ abort' = abort
      /\ runs' = runs /\ crashes' = crashes
      /\ pc = "sep"
  BY DEF ComputeSolidEntryPoints
<1>3. EngineCounters'
  BY <1>1, <1>2 DEF EngineCounters
<1>4. SnapshotIndexOrder'
  BY <1>1, <1>2 DEF SnapshotIndexOrder
<1>5. target \in Indices
  BY <1>1, <1>2 DEF Progress, EngineCounters, StoreTyped, Indices
<1>6. CASE abort /\ Return /\ UNCHANGED <<seps, sepIndex>>
  <2>1. StoreTyped'
    BY <1>1, <1>2, <1>6 DEF StoreTyped
  <2>2. EngineFlags'
    BY <1>1, <1>2, <1>6, ReturnType DEF EngineFlags, Pcs
  <2>3. QED
    BY <1>3, <1>4, <1>6, <2>1, <2>2, ReturnProgress, IInvFromParts DEF Return
<1>7. CASE /\ seps' = SolidEntryPointsFor(target)
           /\ sepIndex' = target
           /\ pc' = "epi"
           /\ UNCHANGED <<toDelete, isPruning>>
  <2>1. seps' \subseteq Msgs
    BY <1>5, <1>7, SolidEntryPointsType
  <2>2. StoreTyped'
    BY <1>1, <1>2, <1>7, <2>1 DEF StoreTyped, EngineCounters
  <2>3. EngineFlags'
    BY <1>1, <1>2, <1>7 DEF EngineFlags, Pcs
  <2>4. Progress'
    BY <1>1, <1>2, <1>7 DEF Progress, AfterEpi, InLoopBody
  <2>5. QED
    BY <1>3, <1>4, <2>2, <2>3, <2>4, IInvFromParts
<1>8. QED
  BY <1>6, <1>7 DEF ComputeSolidEntryPoints

\* SetEntryPointIndex persists EntryPointIndex = target, which is above
\* PruningIndex.
LEMMA SetEntryPointIndexStep ==
  ASSUME IInv, SetEntryPointIndex
  PROVE  IInv'
<1> USE IndexFacts
<1>1. /\ StoreTyped /\ EngineCounters /\ EngineFlags
      /\ SnapshotIndexOrder /\ Progress
  BY IInvParts
<1>2. /\ stored' = stored /\ childIdx' = childIdx
      /\ milestones' = milestones /\ ledgerDiffs' = ledgerDiffs
      /\ unconf' = unconf /\ seps' = seps /\ sepIndex' = sepIndex
      /\ target' = target /\ cur' = cur /\ toDelete' = toDelete
      /\ isPruning' = isPruning /\ abort' = abort
      /\ runs' = runs /\ crashes' = crashes
      /\ pc = "epi" /\ pc' = "unconfOld"
      /\ snap' = [snap EXCEPT !.entryPointIndex = target]
  BY DEF SetEntryPointIndex, store
<1>3. snap.pruningIndex < target
  BY <1>1, <1>2 DEF Progress
<1>4. StoreTyped'
  BY <1>1, <1>2 DEF StoreTyped, EngineCounters
<1>5. EngineCounters'
  BY <1>1, <1>2 DEF EngineCounters
<1>6. EngineFlags'
  BY <1>1, <1>2 DEF EngineFlags, Pcs
<1>7. SnapshotIndexOrder'
  <2>1. /\ snap'.entryPointIndex = target
        /\ snap'.pruningIndex = snap.pruningIndex
    BY <1>1, <1>2 DEF StoreTyped
  <2>2. target \in 0 .. SnapshotIndex /\ snap.pruningIndex \in Nat
    BY <1>1 DEF StoreTyped, EngineCounters
  <2>3. QED
    BY <1>3, <2>1, <2>2 DEF SnapshotIndexOrder
<1>8. Progress'
  BY <1>1, <1>2 DEF Progress, AfterEpi, InLoopBody, StoreTyped
<1>9. QED
  BY <1>4, <1>5, <1>6, <1>7, <1>8, IInvFromParts

\* pruneUnconfirmedTransactions(PruningIndex), and the loop starts at
\* PruningIndex + 1, at most target + 1.
LEMMA PruneUnconfirmedOldStep ==
  ASSUME IInv, PruneUnconfirmedOld
  PROVE  IInv'
<1> USE IndexFacts
<1>1. /\ StoreTyped /\ EngineCounters /\ EngineFlags
      /\ SnapshotIndexOrder /\ Progress /\ TypeOK
  BY IInvParts DEF IInv
<1>2. /\ milestones' = milestones /\ ledgerDiffs' = ledgerDiffs
      /\ seps' = seps /\ sepIndex' = sepIndex /\ snap' = snap
      /\ target' = target /\ toDelete' = toDelete
      /\ isPruning' = isPruning /\ abort' = abort
      /\ runs' = runs /\ crashes' = crashes
      /\ pc = "unconfOld" /\ pc' = "loop"
      /\ cur' = snap.pruningIndex + 1
      /\ PruneUnconfirmed(snap.pruningIndex)
  BY DEF PruneUnconfirmedOld
<1>3. snap.entryPointIndex = target
  BY <1>1, <1>2 DEF Progress, AfterEpi
<1>4. snap.pruningIndex \in 0 .. MaxIndex
  BY <1>1 DEF StoreTyped
<1>5. StoreTyped'
  BY <1>1, <1>2, <1>4, PruneUnconfirmedType DEF StoreTyped
<1>6. EngineCounters'
  BY <1>1, <1>2, <1>3 DEF EngineCounters, SnapshotIndexOrder, StoreTyped
<1>7. EngineFlags'
  BY <1>1, <1>2 DEF EngineFlags, Pcs
<1>8. SnapshotIndexOrder'
  BY <1>1, <1>2 DEF SnapshotIndexOrder
<1>9. Progress'
  BY <1>1, <1>2, <1>3 DEF Progress, AfterEpi, InLoopBody, SnapshotIndexOrder,
                         StoreTyped
<1>10. QED
  BY <1>5, <1>6, <1>7, <1>8, <1>9, IInvFromParts


\* The loop head leaves for the garbage collection, returns on abort, or
\* prunes the unconfirmed messages of a milestone at most target.
LEMMA LoopHeadStep ==
  ASSUME IInv, LoopHead
  PROVE  IInv'
<1> USE IndexFacts
<1>1. /\ StoreTyped /\ EngineCounters /\ EngineFlags
      /\ SnapshotIndexOrder /\ Progress /\ TypeOK
  BY IInvParts DEF IInv
<1>2. /\ milestones' = milestones /\ ledgerDiffs' = ledgerDiffs
      /\ seps' = seps /\ sepIndex' = sepIndex /\ snap' = snap
      /\ target' = target /\ cur' = cur /\ abort' = abort
      /\ runs' = runs /\ crashes' = crashes
      /\ pc = "loop"
  BY DEF LoopHead
<1>3. /\ snap.entryPointIndex = target
      /\ 1 <= cur /\ cur <= target + 1
  BY <1>1, <1>2 DEF Progress, AfterEpi, InLoopBody
<1>4. EngineCounters'
  BY <1>1, <1>2 DEF EngineCounters
<1>5. SnapshotIndexOrder'
  BY <1>1, <1>2 DEF SnapshotIndexOrder
<1>6. CASE /\ pc' = "gc"
           /\ UNCHANGED <<stored, childIdx, unconf, toDelete, isPruning>>
  <2>1. StoreTyped'
    BY <1>1, <1>2, <1>6 DEF StoreTyped
  <2>2. EngineFlags'
    BY <1>1, <1>2, <1>6 DEF EngineFlags, Pcs
  <2>3. Progress'
    BY <1>2, <1>3, <1>6 DEF Progress, AfterEpi, InLoopBody
  <2>4. QED
    BY <1>4, <1>5, <2>1, <2>2, <2>3, IInvFromParts
<1>7. CASE Return /\ UNCHANGED <<stored, childIdx, unconf>>
  <2>1. StoreTyped'
    BY <1>1, <1>2, <1>7 DEF StoreTyped
  <2>2. EngineFlags'
    BY <1>1, <1>2, <1>7, ReturnType DEF EngineFlags, Pcs
  <2>3. QED
    BY <1>4, <1>5, <1>7, <2>1, <2>2, ReturnProgress, IInvFromParts DEF Return
<1>8. CASE /\ cur <= target
           /\ PruneUnconfirmed(cur)
           /\ pc' = "cone"
           /\ UNCHANGED <<toDelete, isPruning>>
  <2>1. cur \in 0 .. MaxIndex
    BY <1>1, <1>8 DEF EngineCounters
  <2>2. StoreTyped'
    BY <1>1, <1>2, <1>8, <2>1, PruneUnconfirmedType DEF StoreTyped
  <2>3. EngineFlags'
    BY <1>1, <1>2, <1>8 DEF EngineFlags, Pcs
  <2>4. Progress'
    BY <1>2, <1>3, <1>8 DEF Progress, AfterEpi, InLoopBody
  <2>5. QED
    BY <1>4, <1>5, <2>2, <2>3, <2>4, IInvFromParts
<1>9. QED
  BY <1>6, <1>7, <1>8 DEF LoopHead

\* A missing milestone is skipped (milestoneIndex + 1, at most target + 1);
\* otherwise the cone of milestone cur, between 1 and target, is collected.
LEMMA TraverseConeStep ==
  ASSUME IInv, TraverseCone
  PROVE  IInv'
<1> USE IndexFacts
<1>1. /\ StoreTyped /\ EngineCounters /\ EngineFlags
      /\ SnapshotIndexOrder /\ Progress
  BY IInvParts
<1>2. /\ stored' = stored /\ childIdx' = childIdx
      /\ milestones' = milestones /\ ledgerDiffs' = ledgerDiffs
      /\ unconf' = unconf /\ seps' = seps /\ sepIndex' = sepIndex
      /\ snap' = snap /\ target' = target /\ isPruning' = isPruning
      /\ abort' = abort /\ runs' = runs /\ crashes' = crashes
      /\ pc = "cone"
  BY DEF TraverseCone, store
<1>3. /\ snap.entryPointIndex = target
      /\ 1 <= cur /\ cur <= target
  BY <1>1, <1>2 DEF Progress, AfterEpi, InLoopBody
<1>4. StoreTyped'
  BY <1>1, <1>2 DEF StoreTyped
<1>5. SnapshotIndexOrder'
  BY <1>1, <1>2 DEF SnapshotIndexOrder
<1>6. CASE /\ cur' = cur + 1
           /\ pc' = "loop"
           /\ toDelete' = toDelete
  <2>1. EngineCounters'
    BY <1>1, <1>2, <1>3, <1>6 DEF EngineCounters
  <2>2. EngineFlags'
    BY <1>1, <1>2, <1>6 DEF EngineFlags, Pcs
  <2>3. Progress'
    BY <1>1, <1>2, <1>3, <1>6 DEF Progress, AfterEpi, InLoopBody,
                                 EngineCounters
  <2>4. QED
    BY <1>4, <1>5, <2>1, <2>2, <2>3, IInvFromParts
<1>7. CASE /\ toDelete' = ParentCone(MsMsg[cur])
           /\ pc' = "prune"
           /\ cur' = cur
  <2>1. cur \in Indices
    BY <1>1, <1>3 DEF EngineCounters, Indices
  <2>2. MsMsg[cur] \in Msgs
    BY <2>1, ConstantsAssumption
  <2>3. toDelete' \subseteq Msgs
    BY <1>1, <1>7, <2>2, ParentConeType DEF StoreTyped
  <2>4. EngineCounters'
    BY <1>1, <1>2, <1>7 DEF EngineCounters
  <2>5. EngineFlags'
    BY <1>1, <1>2, <1>7, <2>3 DEF EngineFlags, Pcs
  <2>6. Progress'
    BY <1>2, <1>3, <1>7 DEF Progress, AfterEpi, InLoopBody
  <2>7. QED
    BY <1>4, <1>5, <2>4, <2>5, <2>6, IInvFromParts
<1>8. QED
  BY <1>6, <1>7 DEF TraverseCone

\* pruneMessages deletes one message of the cone at a time, then moves on
\* to the milestone.
LEMMA PruneMessageStep ==
  ASSUME IInv, PruneMessage
  PROVE  IInv'
<1> USE IndexFacts
<1>1. /\ StoreTyped /\ EngineCounters /\ EngineFlags
      /\ SnapshotIndexOrder /\ Progress
  BY IInvParts
<1>2. /\ milestones' = milestones /\ ledgerDiffs' = ledgerDiffs
      /\ unconf' = unconf /\ seps' = seps /\ sepIndex' = sepIndex
      /\ snap' = snap /\ target' = target /\ cur' = cur
      /\ isPruning' = isPruning /\ abort' = abort
      /\ runs' = runs /\ crashes' = crashes
      /\ pc = "prune"
      /\ stored' \subseteq stored /\ childIdx' \subseteq childIdx
      /\ toDelete' \subseteq toDelete
      /\ pc' \in {"prune", "milestone"}
  BY DEF PruneMessage
<1>3. StoreTyped'
  BY <1>1, <1>2 DEF StoreTyped
<1>4. EngineCounters'
  BY <1>1, <1>2 DEF EngineCounters
<1>5. EngineFlags'
  BY <1>1, <1>2 DEF EngineFlags, Pcs
<1>6. SnapshotIndexOrder'
  BY <1>1, <1>2 DEF SnapshotIndexOrder
<1>7. Progress'
  BY <1>1, <1>2 DEF Progress, AfterEpi, InLoopBody
<1>8. QED
  BY <1>3, <1>4, <1>5, <1>6, <1>7, IInvFromParts


\* pruneMilestone deletes the ledger diff and the milestone.
LEMMA PruneMilestoneStep ==
  ASSUME IInv, PruneMilestone
  PROVE  IInv'
<1> USE IndexFacts
<1>1. /\ StoreTyped /\ EngineCounters /\ EngineFlags
      /\ SnapshotIndexOrder /\ Progress
  BY IInvParts
<1>2. /\ stored' = stored /\ childIdx' = childIdx
      /\ unconf' = unconf /\ seps' = seps /\ sepIndex' = sepIndex
      /\ snap' = snap /\ target' = target /\ cur' = cur
      /\ toDelete' = toDelete /\ isPruning' = isPruning /\ abort' = abort
      /\ runs' = runs /\ crashes' = crashes
      /\ pc = "milestone" /\ pc' = "advance"
      /\ milestones' \subseteq milestones /\ ledgerDiffs' \subseteq ledgerDiffs
  BY DEF PruneMilestone
<1>3. StoreTyped'
  BY <1>1, <1>2 DEF StoreTyped
<1>4. EngineCounters'
  BY <1>1, <1>2 DEF EngineCounters
<1>5. EngineFlags'
  BY <1>1, <1>2 DEF EngineFlags, Pcs
<1>6. SnapshotIndexOrder'
  BY <1>1, <1>2 DEF SnapshotIndexOrder
<1>7. Progress'
  BY <1>1, <1>2 DEF Progress, AfterEpi, InLoopBody
<1>8. QED
  BY <1>3, <1>4, <1>5, <1>6, <1>7, IInvFromParts

\* PruningIndex = milestoneIndex is persisted; milestoneIndex is at most
\* target, which is the EntryPointIndex persisted for this call.
LEMMA AdvancePruningIndexStep ==
  ASSUME IInv, AdvancePruningIndex
  PROVE  IInv'
<1> USE IndexFacts
<1>1. /\ StoreTyped /\ EngineCounters /\ EngineFlags
      /\ SnapshotIndexOrder /\ Progress
  BY IInvParts
<1>2. /\ stored' = stored /\ childIdx' = childIdx
      /\ milestones' = milestones /\ ledgerDiffs' = ledgerDiffs
      /\ unconf' = unconf /\ seps' = seps /\ sepIndex' = sepIndex
      /\ target' = target /\ toDelete' = toDelete
      /\ isPruning' = isPruning /\ abort' = abort
      /\ runs' = runs /\ crashes' = crashes
      /\ pc = "advance" /\ pc' = "loop"
      /\ snap' = [snap EXCEPT !.pruningIndex = cur]
      /\ cur' = cur + 1
  BY DEF AdvancePruningIndex
<1>3. /\ snap.entryPointIndex = target
      /\ 1 <= cur /\ cur <= target
  BY <1>1, <1>2 DEF Progress, AfterEpi, InLoopBody
<1>4. cur \in 0 .. SnapshotIndex
  BY <1>1, <1>3 DEF EngineCounters
<1>5. StoreTyped'
  BY <1>1, <1>2, <1>4 DEF StoreTyped
<1>6. EngineCounters'
  BY <1>1, <1>2, <1>4 DEF EngineCounters
<1>7. EngineFlags'
  BY <1>1, <1>2 DEF EngineFlags, Pcs
<1>8. SnapshotIndexOrder'
  BY <1>1, <1>2, <1>3, <1>4 DEF SnapshotIndexOrder, StoreTyped
<1>9. Progress'
  BY <1>1, <1>2, <1>3, <1>4 DEF Progress, AfterEpi, InLoopBody, StoreTyped
<1>10. QED
  BY <1>5, <1>6, <1>7, <1>8, <1>9, IInvFromParts

\* The garbage collection ends the call.
LEMMA GarbageCollectStep ==
  ASSUME IInv, GarbageCollect
  PROVE  IInv'
<1>1. /\ StoreTyped /\ EngineCounters /\ EngineFlags
      /\ SnapshotIndexOrder /\ Progress
  BY IInvParts
<1>2. /\ Return
      /\ stored' = stored /\ childIdx' = childIdx
      /\ milestones' = milestones /\ ledgerDiffs' = ledgerDiffs
      /\ unconf' = unconf /\ seps' = seps /\ sepIndex' = sepIndex
      /\ snap' = snap /\ target' = target /\ cur' = cur /\ abort' = abort
      /\ runs' = runs /\ crashes' = crashes
  BY DEF GarbageCollect, store
<1>3. EngineFlags'
  BY <1>1, <1>2, ReturnType DEF EngineFlags, Pcs
<1>4. QED
  BY <1>1, <1>2, <1>3, ReturnType, ReturnProgress, IInvFromParts
  DEF StoreTyped, EngineCounters, SnapshotIndexOrder

\* The abort signal only sets the flag.
LEMMA SignalAbortStep ==
  ASSUME IInv, SignalAbort
  PROVE  IInv'
<1>1. /\ StoreTyped /\ EngineCounters /\ EngineFlags
      /\ SnapshotIndexOrder /\ Progress
  BY IInvParts
<1>2. /\ stored' = stored /\ childIdx' = childIdx
      /\ milestones' = milestones /\ ledgerDiffs' = ledgerDiffs
      /\ unconf' = unconf /\ seps' = seps /\ sepIndex' = sepIndex
      /\ snap' = snap /\ pc' = pc /\ target' = target /\ cur' = cur
      /\ toDelete' = toDelete /\ isPruning' = isPruning /\ abort' = TRUE
      /\ runs' = runs /\ crashes' = crashes
  BY DEF SignalAbort, store
<1>3. EngineFlags'
  BY <1>1, <1>2 DEF EngineFlags
<1>4. QED
  BY <1>1, <1>2, <1>3, IInvFromParts
  DEF StoreTyped, EngineCounters, SnapshotIndexOrder, Progress

\* A crash keeps the store and loses the engine's state.
LEMMA CrashStep ==
  ASSUME IInv, Crash
  PROVE  IInv'
<1> USE IndexFacts
<1>1. /\ StoreTyped /\ EngineCounters /\ EngineFlags
      /\ SnapshotIndexOrder /\ Progress
  BY IInvParts
<1>2. /\ Return
      /\ stored' = stored /\ childIdx' = childIdx
      /\ milestones' = milestones /\ ledgerDiffs' = ledgerDiffs
      /\ unconf' = unconf /\ seps' = seps /\ sepIndex' = sepIndex
      /\ snap' = snap /\ target' = target /\ cur' = cur /\ runs' = runs
      /\ crashes' = crashes + 1 /\ crashes < MaxCrashes /\ abort' = FALSE
  BY DEF Crash, store
<1>3. EngineCounters'
  BY <1>1, <1>2 DEF EngineCounters
<1>4. EngineFlags'
  BY <1>1, <1>2, ReturnType DEF EngineFlags, Pcs
<1>5. QED
  BY <1>1, <1>2, <1>3, <1>4, ReturnType, ReturnProgress, IInvFromParts
  DEF StoreTyped, SnapshotIndexOrder

\* A stuttering step keeps the invariant.
LEMMA StutterStep ==
  ASSUME IInv, UNCHANGED vars
  PROVE  IInv'
BY DEF IInv, TypeOK, SnapshotIndexOrder, Progress, vars, store, engine

LEMMA IInvStep == IInv /\ [Next]_vars => IInv'
<1> SUFFICES ASSUME IInv, [Next]_vars PROVE IInv'
  OBVIOUS
<1>1. CASE \E t \in Indices : Request(t)
  BY <1>1, RequestStep
<1>2. CASE Engine
  BY <1>2, ComputeSolidEntryPointsStep, SetEntryPointIndexStep,
     PruneUnconfirmedOldStep, LoopHeadStep, TraverseConeStep,
     PruneMessageStep, PruneMilestoneStep, AdvancePruningIndexStep,
     GarbageCollectStep DEF Engine
<1>3. CASE SignalAbort
  BY <1>3, SignalAbortStep
<1>4. CASE Crash
  BY <1>4, CrashStep
<1>5. CASE UNCHANGED vars
  BY <1>5, StutterStep
<1>6. QED
  BY <1>1, <1>2, <1>3, <1>4, <1>5 DEF Next

-----------------------------------------------------------------------------
(***************************************************************************)
(* Theorems.                                                               *)
(***************************************************************************)

\* Every state pruneDatabase reaches, through any calls, aborts and
\* crashes, is well typed: in particular the clamped target, the loop's
\* milestoneIndex and the indexes of SnapshotInfo stay within
\* 0 .. SnapshotIndex (MaxIndex + 1 for milestoneIndex past the loop).
THEOREM TypeCorrect == Spec => []TypeOK
<1>1. Init => IInv
  BY IInvInit
<1>2. IInv /\ [Next]_vars => IInv'
  BY IInvStep
<1>3. IInv => TypeOK
  BY DEF IInv
<1>4. QED
  BY <1>1, <1>2, <1>3, PTL DEF Spec

\* The persisted SnapshotInfo keeps PruningIndex <= EntryPointIndex <=
\* SnapshotIndex at every point of pruneDatabase, whatever crash or abort
\* interrupts it: EntryPointIndex is set to the target before any
\* milestone is pruned (pruning.go:157-158) and PruningIndex only to a
\* milestone at most that target (pruning.go:220-221).
THEOREM SnapshotIndexOrderHolds == Spec => []SnapshotIndexOrder
<1>1. IInv => SnapshotIndexOrder
  BY DEF IInv
<1>2. QED
  BY <1>1, IInvInit, IInvStep, PTL DEF Spec

=============================================================================
