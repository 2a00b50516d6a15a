------------------------ MODULE PruningStoreProofs -------------------------
(***************************************************************************)
(* Proof that pruneDatabase leaves the store consistent (NoDanglingParent) *)
(* through every call, abort and crash, for every well-formed tangle       *)
(* (TangleAssumption) and every threshold and bound.                       *)
(***************************************************************************)
EXTENDS PruningRefinementProofs

\* The solid entry points in the store are those of sepIndex (none before
\* the first call stored any).
SepsMatch ==
  \/ sepIndex = 0 /\ seps = {}
  \/ sepIndex \in 1 .. SnapshotIndex /\ seps = SolidEntryPointsFor(sepIndex)

\* NoDanglingParent is not inductive: the store must also remember that
\* the entry points were stored for an index at least EntryPointIndex, and
\* that nothing confirmed above EntryPointIndex was ever deleted or is
\* about to be.
StoreInv ==
  /\ SepsMatch
  /\ snap.entryPointIndex <= sepIndex
  /\ pc \in {"epi"} \cup AfterEpi => sepIndex = target
  /\ \A q \in Msgs \ stored : ConfIndex[q] <= snap.entryPointIndex
  /\ \A q \in toDelete : ConfIndex[q] <= snap.entryPointIndex

-----------------------------------------------------------------------------

\* The past cone TraverseParents collects from milestone i's message holds
\* only messages confirmed at or below i: the walk follows parents, and a
\* confirmed message's parents are confirmed no later than it.
LEMMA ParentConeConfirmed ==
  ASSUME NEW i \in Indices, stored \subseteq Msgs
  PROVE  \A q \in ParentCone(MsMsg[i]) : ConfIndex[q] \in 1 .. i
<1> DEFINE start == MsMsg[i]
           W == stored \ seps
           U == {n \in W : ConfIndex[n] \in 1 .. i}
<1>1. ConfIndex[start] = i /\ start \in Msgs
  BY TangleAssumption, ConstantsAssumption
<1>2. \A m \in U \cup {start} : Parents[m] \cap W \subseteq U \cup {start}
  <2> SUFFICES ASSUME NEW m \in U \cup {start}, NEW q \in Parents[m] \cap W
               PROVE  q \in U
    OBVIOUS
  <2>1. m \in Msgs /\ ConfIndex[m] \in 1 .. i
    BY <1>1, IndexFacts DEF Indices
  <2>2. ConfIndex[q] \in 1 .. ConfIndex[m]
    <3>1. ConfIndex[m] > 0
      BY <2>1
    <3>2. QED
      BY <2>1, <3>1, TangleAssumption, Zenon
  <2>3. QED
    BY <2>1, <2>2, ConstantsAssumption DEF Indices
<1>3. U \in SUBSET W
  OBVIOUS
<1>4. \A q \in ParentCone(start) : q \in U \cup {start}
  BY <1>2, <1>3, Zenon DEF ParentCone
<1>5. QED
  BY <1>1, <1>4, IndexFacts DEF Indices

\* The store invariant implies that no stored message confirmed above the
\* entry points' index misses a parent.
LEMMA StoreInvNoDangling ==
  ASSUME StoreInv, TypeOK
  PROVE  NoDanglingParent
<1> SUFFICES ASSUME NEW m \in stored, ConfIndex[m] > sepIndex,
                    NEW q \in Parents[m], q \notin stored
             PROVE  q \in seps
  BY DEF NoDanglingParent
<1>1. m \in Msgs /\ q \in Msgs
  BY ConstantsAssumption DEF TypeOK
<1>2. ConfIndex[q] \in 1 .. ConfIndex[m]
  <2>1. ConfIndex[m] > 0
    BY <1>1, ConstantsAssumption, IndexFacts DEF TypeOK
  <2>2. QED
    BY <1>1, <2>1, TangleAssumption, Zenon
<1>3. ConfIndex[q] <= snap.entryPointIndex /\ snap.entryPointIndex <= sepIndex
  BY <1>1 DEF StoreInv
<1>4. sepIndex \in 1 .. SnapshotIndex /\ seps = SolidEntryPointsFor(sepIndex)
  BY <1>2, <1>3, IndexFacts DEF StoreInv, SepsMatch, TypeOK
<1>5. ConfIndex[q] \in 1 .. sepIndex
  BY <1>2, <1>3, <1>4, IndexFacts DEF TypeOK
<1>6. QED
  BY <1>1, <1>4, <1>5 DEF SolidEntryPointsFor

LEMMA StoreInvInit == Init => StoreInv
BY DEF Init, StoreInv, SepsMatch, AfterEpi

\* Steps that change none of the store's parts StoreInv looks at, nor
\* toDelete, and leave pc out of the states that tie sepIndex to target
\* or keep target there.
LEMMA StoreInvFrame ==
  ASSUME StoreInv,
         seps' = seps, sepIndex' = sepIndex, snap' = snap,
         stored' = stored, toDelete' = toDelete,
         pc' \in {"epi"} \cup AfterEpi => pc \in {"epi"} \cup AfterEpi /\ target' = target
  PROVE  StoreInv'
BY DEF StoreInv, SepsMatch

\* pruneUnconfirmedTransactions deletes only unconfirmed messages.
LEMMA PruneUnconfirmedDeletes ==
  ASSUME NEW i \in 0 .. MaxIndex, PruneUnconfirmed(i), stored \subseteq Msgs
  PROVE  \A q \in Msgs \ stored' : q \notin stored \/ ConfIndex[q] = 0
BY DEF PruneUnconfirmed, UnconfirmedToPrune

\* Each step keeps StoreInv.
LEMMA StoreInvStep ==
  ASSUME RInv, StoreInv, [Next]_vars
  PROVE  StoreInv'
<1> USE IndexFacts
<1>0. /\ StoreTyped /\ EngineCounters /\ EngineFlags /\ Progress
      /\ IndexBounds /\ SnapshotIndexOrder
  BY IInvParts DEF RInv
<1>c. ConfIndex \in [Msgs -> 0 .. MaxIndex]
  BY ConstantsAssumption
<1>1. CASE \E t \in Indices : Request(t)
  <2>1. /\ store' = store /\ toDelete' = toDelete /\ pc = "idle"
        /\ pc' \in {"idle", "sep"}
    BY <1>1 DEF Request
  <2>2. QED
    BY <2>1, StoreInvFrame DEF store, AfterEpi
<1>2. CASE ComputeSolidEntryPoints
  <2>1. /\ stored' = stored /\ snap' = snap /\ pc = "sep"
        /\ target' = target
    BY <1>2 DEF ComputeSolidEntryPoints
  <2>2. CASE abort /\ Return /\ UNCHANGED <<seps, sepIndex>>
    <3>1. toDelete' = {} /\ pc' = "idle"
      BY <2>2 DEF Return
    <3>2. QED
      BY <2>1, <2>2, <3>1 DEF StoreInv, SepsMatch, AfterEpi
  <2>3. CASE /\ seps' = SolidEntryPointsFor(target)
             /\ sepIndex' = target
             /\ pc' = "epi"
             /\ UNCHANGED <<toDelete, isPruning>>
    <3>1. /\ target \in 1 .. SnapshotIndex
          /\ snap.entryPointIndex <= target
      BY <1>0, <2>1 DEF Progress, IndexBounds, EngineCounters, StoreTyped
    <3>2. SepsMatch'
      BY <2>3, <3>1 DEF SepsMatch
    <3>3. QED
      BY <2>1, <2>3, <3>1, <3>2 DEF StoreInv
  <2>0. \/ abort /\ Return /\ UNCHANGED <<seps, sepIndex>>
        \/ /\ seps' = SolidEntryPointsFor(target)
           /\ sepIndex' = target
           /\ pc' = "epi"
           /\ UNCHANGED <<toDelete, isPruning>>
    BY <1>2, Zenon DEF ComputeSolidEntryPoints
  <2>4. QED
    BY <2>0, <2>2, <2>3
<1>3. CASE SetEntryPointIndex
  <2>1. /\ stored' = stored /\ seps' = seps /\ sepIndex' = sepIndex
        /\ target' = target /\ toDelete' = toDelete
        /\ pc = "epi" /\ pc' = "unconfOld"
        /\ snap' = [snap EXCEPT !.entryPointIndex = target]
    BY <1>3 DEF SetEntryPointIndex
  <2>2. /\ sepIndex = target
        /\ snap.entryPointIndex <= target
        /\ snap'.entryPointIndex = target
    BY <1>0, <2>1 DEF StoreInv, IndexBounds, StoreTyped
  <2>3. /\ \A q \in Msgs \ stored : ConfIndex[q] <= target
        /\ \A q \in toDelete : ConfIndex[q] <= target
    BY <1>0, <1>c, <2>2 DEF StoreInv, StoreTyped, EngineCounters, EngineFlags
  <2>4. QED
    BY <2>1, <2>2, <2>3 DEF StoreInv, SepsMatch, AfterEpi
<1>4. CASE PruneUnconfirmedOld
  <2>1. /\ seps' = seps /\ sepIndex' = sepIndex /\ snap' = snap
        /\ target' = target /\ toDelete' = toDelete
        /\ pc = "unconfOld" /\ pc' = "loop"
        /\ PruneUnconfirmed(snap.pruningIndex)
    BY <1>4 DEF PruneUnconfirmedOld
  <2>2. \A q \in Msgs \ stored' : ConfIndex[q] <= snap.entryPointIndex
    <3>1. snap.pruningIndex \in 0 .. MaxIndex
      BY <1>0 DEF StoreTyped
    <3>2. \A q \in Msgs \ stored' : q \notin stored \/ ConfIndex[q] = 0
      BY <1>0, <2>1, <3>1, PruneUnconfirmedDeletes DEF StoreTyped
    <3>3. snap.entryPointIndex \in Nat
      BY <1>0 DEF StoreTyped
    <3>4. QED
      BY <3>2, <3>3 DEF StoreInv
  <2>3. QED
    BY <2>1, <2>2 DEF StoreInv, SepsMatch, AfterEpi
<1>5. CASE LoopHead
  <2>1. /\ seps' = seps /\ sepIndex' = sepIndex /\ snap' = snap
        /\ target' = target /\ cur' = cur /\ pc = "loop"
    BY <1>5 DEF LoopHead
  <2>2. CASE /\ pc' = "gc"
             /\ UNCHANGED <<stored, childIdx, unconf, toDelete, isPruning>>
    BY <2>1, <2>2, StoreInvFrame DEF AfterEpi
  <2>3. CASE Return /\ UNCHANGED <<stored, childIdx, unconf>>
    <3>1. toDelete' = {} /\ pc' = "idle"
      BY <2>3 DEF Return
    <3>2. QED
      BY <2>1, <2>3, <3>1 DEF StoreInv, SepsMatch, AfterEpi
  <2>4. CASE /\ cur <= target
             /\ PruneUnconfirmed(cur)
             /\ pc' = "cone"
             /\ UNCHANGED <<toDelete, isPruning>>
    <3>1. cur \in 0 .. MaxIndex /\ snap.entryPointIndex \in Nat
      BY <1>0, <2>4 DEF EngineCounters, StoreTyped
    <3>2. \A q \in Msgs \ stored' : q \notin stored \/ ConfIndex[q] = 0
      BY <1>0, <2>4, <3>1, PruneUnconfirmedDeletes DEF StoreTyped
    <3>3. \A q \in Msgs \ stored' : ConfIndex[q] <= snap.entryPointIndex
      BY <3>1, <3>2 DEF StoreInv
    <3>4. QED
      BY <2>1, <2>4, <3>3 DEF StoreInv, SepsMatch, AfterEpi
  <2>0. \/ /\ pc' = "gc"
           /\ UNCHANGED <<stored, childIdx, unconf, toDelete, isPruning>>
        \/ Return /\ UNCHANGED <<stored, childIdx, unconf>>
        \/ /\ cur <= target
           /\ PruneUnconfirmed(cur)
           /\ pc' = "cone"
           /\ UNCHANGED <<toDelete, isPruning>>
    BY <1>5, Zenon DEF LoopHead
  <2>5. QED
    BY <2>0, <2>2, <2>3, <2>4
<1>6. CASE TraverseCone
  <2>1. /\ store' = store /\ target' = target /\ pc = "cone"
        /\ pc' \in {"loop", "prune"}
    BY <1>6 DEF TraverseCone
  <2>2. /\ snap.entryPointIndex = target
        /\ 1 <= cur /\ cur <= target
    BY <1>0, <2>1 DEF Progress, AfterEpi, InLoopBody
  <2>3. CASE toDelete' = toDelete
    BY <2>1, <2>3, StoreInvFrame DEF store, AfterEpi
  <2>4. CASE toDelete' = ParentCone(MsMsg[cur])
    <3>1. cur \in Indices
      BY <1>0, <2>2 DEF EngineCounters, Indices
    <3>2. \A q \in toDelete' : ConfIndex[q] \in 1 .. cur
      BY <1>0, <2>4, <3>1, ParentConeConfirmed DEF StoreTyped
    <3>3. \A q \in toDelete' : ConfIndex[q] <= snap.entryPointIndex
      BY <1>0, <2>2, <3>1, <3>2 DEF Indices, EngineCounters
    <3>4. QED
      BY <2>1, <3>3 DEF StoreInv, SepsMatch, AfterEpi, store
  <2>5. QED
    BY <2>3, <2>4, <1>6 DEF TraverseCone
<1>7. CASE PruneMessage
  <2>1. /\ seps' = seps /\ sepIndex' = sepIndex /\ snap' = snap
        /\ target' = target /\ pc = "prune" /\ pc' \in {"prune", "milestone"}
    BY <1>7 DEF PruneMessage
  <2>2. CASE UNCHANGED <<stored, toDelete>>
    BY <2>1, <2>2, StoreInvFrame DEF AfterEpi
  <2>3. CASE \E m \in toDelete : stored' = stored \ {m}
                                /\ toDelete' = toDelete \ {m}
    <3>1. PICK m \in toDelete : stored' = stored \ {m}
                                /\ toDelete' = toDelete \ {m}
      BY <2>3
    <3>2. ConfIndex[m] <= snap.entryPointIndex
      BY <3>1 DEF StoreInv
    <3>3. \A q \in Msgs \ stored' : ConfIndex[q] <= snap.entryPointIndex
      BY <3>1, <3>2 DEF StoreInv
    <3>4. QED
      BY <2>1, <3>1, <3>3 DEF StoreInv, SepsMatch, AfterEpi
  <2>4. QED
    BY <2>2, <2>3, <1>7 DEF PruneMessage
<1>8. CASE PruneMilestone
  <2>1. /\ stored' = stored /\ seps' = seps /\ sepIndex' = sepIndex
        /\ snap' = snap /\ target' = target /\ toDelete' = toDelete
        /\ pc = "milestone" /\ pc' = "advance"
    BY <1>8 DEF PruneMilestone
  <2>2. QED
    BY <2>1, StoreInvFrame DEF AfterEpi
<1>9. CASE AdvancePruningIndex
  <2>1. /\ stored' = stored /\ seps' = seps /\ sepIndex' = sepIndex
        /\ target' = target /\ toDelete' = toDelete
        /\ pc' = "loop"
        /\ snap' = [snap EXCEPT !.pruningIndex = cur]
    BY <1>9 DEF AdvancePruningIndex
  <2>2. snap'.entryPointIndex = snap.entryPointIndex
    BY <1>0, <2>1 DEF StoreTyped
  <2>3. sepIndex = target
    BY <1>9 DEF StoreInv, AdvancePruningIndex, AfterEpi
  <2>4. QED
    BY <2>1, <2>2, <2>3 DEF StoreInv, SepsMatch, AfterEpi
<1>10. CASE GarbageCollect \/ Crash
  <2>1. /\ store' = store /\ toDelete' = {} /\ pc' = "idle"
    BY <1>10 DEF GarbageCollect, Crash, Return
  <2>2. QED
    BY <2>1 DEF StoreInv, SepsMatch, AfterEpi, store
<1>11. CASE SignalAbort
  <2>1. store' = store /\ toDelete' = toDelete /\ pc' = pc /\ target' = target
    BY <1>11 DEF SignalAbort
  <2>2. QED
    BY <2>1, StoreInvFrame DEF store
<1>12. CASE UNCHANGED vars
  <2>1. store' = store /\ toDelete' = toDelete /\ pc' = pc /\ target' = target
    BY <1>12 DEF vars, engine
  <2>2. QED
    BY <2>1, StoreInvFrame DEF store
<1>13. QED
  BY <1>1, <1>2, <1>3, <1>4, <1>5, <1>6, <1>7, <1>8, <1>9, <1>10, <1>11,
     <1>12 DEF Next, Engine

-----------------------------------------------------------------------------
(***************************************************************************)
(* Theorem.                                                                *)
(***************************************************************************)

\* Whatever crash, abort or missing milestone interrupts pruneDatabase, no
\* stored message confirmed above the solid entry points' index has a
\* parent that is neither stored nor a solid entry point.  It rests on the
\* entry points being stored for the target before any cone is deleted
\* (pruning.go:146-158), on TraverseParents collecting only messages
\* confirmed at or below the milestone (lines 186-211), and on
\* pruneUnconfirmedTransactions deleting only unconfirmed messages
\* (lines 40-44).
THEOREM NoDanglingParentHolds == Spec => []NoDanglingParent
<1>1. Init => RInv /\ StoreInv
  BY RInvInit, StoreInvInit
<1>2. RInv /\ StoreInv /\ [Next]_vars => RInv' /\ StoreInv'
  BY RInvStep, StoreInvStep
<1>3. RInv /\ StoreInv => NoDanglingParent
  BY StoreInvNoDangling DEF RInv, IInv
<1>4. QED
  BY <1>1, <1>2, <1>3, PTL DEF Spec

\* No message confirmed above the persisted EntryPointIndex is deleted,
\* crashes, aborts and stale unconfirmed-index entries included: a call
\* persists EntryPointIndex = target (pruning.go:157-158) before its first
\* deletion, deletes only cones of milestones at most the target (lines
\* 164, 186-211) and unconfirmed messages (lines 40-44), and
\* EntryPointIndex never goes down.  This is a conjunct of StoreInv.
THEOREM NothingPrunedAboveEntryPointHolds ==
  Spec => []NothingPrunedAboveEntryPoint
<1>1. Init => RInv /\ StoreInv
  BY RInvInit, StoreInvInit
<1>2. RInv /\ StoreInv /\ [Next]_vars => RInv' /\ StoreInv'
  BY RInvStep, StoreInvStep
<1>3. StoreInv => NothingPrunedAboveEntryPoint
  BY DEF StoreInv, NothingPrunedAboveEntryPoint
<1>4. QED
  BY <1>1, <1>2, <1>3, PTL DEF Spec

=============================================================================
