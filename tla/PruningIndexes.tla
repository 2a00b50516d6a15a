--------------------------- MODULE PruningIndexes ---------------------------
(***************************************************************************)
(* What pruning promises about the two indexes it persists in             *)
(* SnapshotInfo, with the store and the engine abstracted away.           *)
(* EntryPointIndex only moves forward, by more than AdditionalThreshold    *)
(* at a time and never closer than ThresholdPast + AdditionalThreshold + 1 *)
(* to SnapshotIndex; PruningIndex only moves forward, and never past       *)
(* EntryPointIndex.  A crash or an abort is a stutter: what was persisted  *)
(* stays.                                                                  *)
(***************************************************************************)
EXTENDS Naturals

CONSTANTS SnapshotIndex, ThresholdPast, AdditionalThreshold

VARIABLES pruningIndex, entryPointIndex

absVars == <<pruningIndex, entryPointIndex>>

Init ==
  /\ pruningIndex = 0
  /\ entryPointIndex = 0

\* The solid entry points are recomputed for a new target t and
\* EntryPointIndex = t is persisted.
MoveEntryPoint(t) ==
  /\ pruningIndex < t
  /\ entryPointIndex + AdditionalThreshold + 1 <= t
  /\ t + ThresholdPast + AdditionalThreshold + 1 <= SnapshotIndex
  /\ entryPointIndex' = t
  /\ UNCHANGED pruningIndex

\* The cone of milestone i, up to the entry points, has been deleted and
\* PruningIndex = i is persisted.
MovePruningIndex(i) ==
  /\ pruningIndex < i
  /\ i <= entryPointIndex
  /\ pruningIndex' = i
  /\ UNCHANGED entryPointIndex

Next ==
  \/ \E t \in 1 .. SnapshotIndex : MoveEntryPoint(t)
  \/ \E i \in 1 .. SnapshotIndex : MovePruningIndex(i)

Spec == Init /\ [][Next]_absVars

\* EntryPointIndex is 0 (never moved) or leaves the solid entry point
\* check window above it, ThresholdPast + AdditionalThreshold + 1
\* milestones, below SnapshotIndex.
EntryPointWindow ==
  \/ entryPointIndex = 0
  \/ entryPointIndex + ThresholdPast + AdditionalThreshold + 1 <= SnapshotIndex

\* The invariant of the abstract indexes.
IndexesInv ==
  /\ pruningIndex \in Nat /\ entryPointIndex \in Nat
  /\ pruningIndex <= entryPointIndex
  /\ EntryPointWindow

=============================================================================
