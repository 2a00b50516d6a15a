--------------------------- MODULE ConeRootIndex ---------------------------
(***************************************************************************)
(* The cone root index cache of the DAG helpers (src/unnamed/part_000,     *)
(* package dag).  Every stored message's metadata caches the youngest and  *)
(* the oldest "cone root index" (ycri, ocri) of its past cone together     *)
(* with the calculation index ci, the LSMI the pair was computed for.  A   *)
(* cone root is a message where the walk over parents stops: a confirmed   *)
(* message (its confirmation index) or a solid entry point (its entry      *)
(* point index).  GetConeRootIndexes walks the parents, stops at confirmed *)
(* messages, entry points and messages whose cache is fresh (ci = lsmi),   *)
(* collects the outdated messages it passes and recomputes them, nested,   *)
(* before it caches its own result.  UpdateConeRootIndexes runs it over    *)
(* the future cone of the messages a milestone has just confirmed.         *)
(*                                                                         *)
(* Each call is one atomic step over the metadata; the callers (tip        *)
(* selection and the milestone confirmation) run concurrently, and a call  *)
(* carries the LSMI its caller read, which may be stale when it runs.      *)
(***************************************************************************)
EXTENDS Naturals, FiniteSets, FiniteSetsExt, ConeIndexFold

CONSTANTS
  Msgs,       \* message IDs
  Parents,    \* Parents[m]: the parents of the stored message m
  Seps,       \* the solid entry points (pruned, not stored)
  SepIndex,   \* SolidEntryPointsIndex
  Missing,    \* referenced but not in the store (ErrMessageNotFound)
  ConfAt,     \* ConfAt[m]: the milestone confirming m, 0 if none does
  StartIndex, \* the LSMI when the node starts
  MaxIndex,   \* the last milestone of the model
  MaxCalls    \* bound on the tip-selection calls of a behaviour

Stored == Msgs \ (Seps \cup Missing)
Index == 0..MaxIndex

\* The past cone of m (m included) over parent edges, following only the
\* nodes that satisfy Cont.
RECURSIVE ConeFrom(_, _)
ConeFrom(S, Through) ==
  LET next == S \cup UNION {Parents[n] : n \in S \cap Through}
  IN  IF next = S THEN S ELSE ConeFrom(next, Through)

Cone(m, Cont(_)) == ConeFrom({m}, {n \in Msgs : Cont(n)})

Ancestors(m) == Cone(m, LAMBDA n : n \in Stored) \ {m}

ASSUME ConstantsAssumption ==
  /\ Seps \cap Missing = {}
  /\ Parents \in [Stored -> (SUBSET Msgs) \ {{}}]
  /\ SepIndex \in [Seps -> 1..MaxIndex]
  /\ ConfAt \in [Stored -> Index]
  /\ StartIndex \in 1..MaxIndex
  /\ MaxCalls \in Nat
  \* the tangle is a DAG
  /\ \A m \in Stored : m \notin Ancestors(m)
  \* a milestone confirms its whole past cone down to the entry points
  /\ \A m \in Stored : ConfAt[m] > 0 =>
       \A p \in Parents[m] : p \in Seps \/ (p \in Stored /\ ConfAt[p] \in 1..ConfAt[m])

VARIABLES
  lsmi,    \* the latest solid milestone index
  meta,    \* meta[m]: the cone root indexes cached in m's metadata
  gets,    \* pending GetConeRootIndexes(m, L) calls of tip selection
  updates, \* pending UpdateConeRootIndexes calls, by their LSMI
  ncalls   \* tip-selection calls made so far

vars == <<lsmi, meta, gets, updates, ncalls>>

Confirmed(n) == n \in Stored /\ ConfAt[n] \in 1..lsmi

(***************************************************************************)
(* The reference definition: the cone roots of m are the confirmed         *)
(* messages, entry points and missing messages reached through unconfirmed *)
(* stored messages; ycri and ocri are the largest and smallest index among *)
(* them, defined when no missing message is reached.                       *)
(***************************************************************************)
Walkable(n) == n \in Stored /\ ~Confirmed(n)
RootIndex(n) == IF n \in Seps THEN SepIndex[n] ELSE ConfAt[n]
RefRoots(m) == {n \in Cone(m, Walkable) : ~Walkable(n)}
RefValid(m) == RefRoots(m) \cap Missing = {}
RefYoungest(m) == Max({RootIndex(n) : n \in RefRoots(m)})
RefOldest(m) == Min({RootIndex(n) : n \in RefRoots(m)})

(***************************************************************************)
(* The implementation.                                                     *)
(***************************************************************************)
\* Mutant: a cached pair of any LSMI stops the walk (ci # 0 at line 75).
ContinueStaleCache(m, L, mt, n) ==
  /\ n \in Stored
  /\ ~Confirmed(n)
  /\ n = m \/ mt[n].ci = 0

\* The traversal condition: the walk goes on past n.
Continue(m, L, mt, n) ==
  /\ n \in Stored
  /\ ~Confirmed(n)
  /\ n = m \/ mt[n].ci # L

\* What a node where the walk stops passes to updateIndexes.
Contribution(mt, n) ==
  CASE n \in Seps    -> [y |-> SepIndex[n], o |-> SepIndex[n]]
    [] Confirmed(n)  -> [y |-> ConfAt[n], o |-> ConfAt[n]]
    [] OTHER         -> [y |-> mt[n].y, o |-> mt[n].o]

\* updateIndexes applied to the stops in the order the walk meets them.
RECURSIVE FoldIndexes(_, _, _)
FoldIndexes(mt, S, acc) ==
  IF S = {} THEN acc
  ELSE LET n == CHOOSE x \in S : TRUE
       IN  FoldIndexes(mt, S \ {n}, UpdateIndexes(Contribution(mt, n), acc))

\* Mutant: ErrMessageNotFound is dropped, so indexesValid stays true.
WalkIgnoringMissing(m, L, mt) ==
  LET visited == Cone(m, LAMBDA n : Continue(m, L, mt, n))
      stops == {n \in visited : ~Continue(m, L, mt, n)}
  IN  [valid    |-> TRUE,
       outdated |-> {n \in visited : Continue(m, L, mt, n)} \ {m},
       idx      |-> FoldIndexes(mt, stops \ Missing, Unset)]

\* The walk of GetConeRootIndexes(m) for LSMI L over the metadata mt.
Walk(m, L, mt) ==
  LET visited == Cone(m, LAMBDA n : Continue(m, L, mt, n))
      stops == {n \in visited : ~Continue(m, L, mt, n)}
  IN  [valid    |-> stops \cap Missing = {},
       outdated |-> {n \in visited : Continue(m, L, mt, n)} \ {m},
       idx      |-> FoldIndexes(mt, stops \ Missing, Unset)]

RECURSIVE GetConeRootIndexes(_, _, _), UpdateOutdatedConeRootIndexes(_, _, _)

\* Returns the metadata after the call and the pair it returns.
GetConeRootIndexes(m, L, mt) ==
  IF mt[m].ci = L THEN [meta |-> mt, y |-> mt[m].y, o |-> mt[m].o]
  ELSE
    LET w == Walk(m, L, mt)
        mt2 == UpdateOutdatedConeRootIndexes(w.outdated, L, mt)
    IN  IF ~w.valid THEN [meta |-> mt2, y |-> 0, o |-> 0]
        ELSE [meta |-> [mt2 EXCEPT ![m] = [y |-> w.idx.y, o |-> w.idx.o, ci |-> L]],
              y |-> w.idx.y, o |-> w.idx.o]

UpdateOutdatedConeRootIndexes(S, L, mt) ==
  IF S = {} THEN mt
  ELSE LET n == CHOOSE x \in S : TRUE
       IN  UpdateOutdatedConeRootIndexes(S \ {n}, L, GetConeRootIndexes(n, L, mt).meta)

\* The future cone TraverseChildren walks from the given messages: every
\* stored descendant, each once (the shared 'traversed' set).
FutureCone(ids) ==
  {n \in Stored : n \in ids \/ \E i \in ids : i \in Ancestors(n)}

UpdateConeRootIndexes(ids, L, mt) ==
  UpdateOutdatedConeRootIndexes(FutureCone(ids), L, mt)

(***************************************************************************)
(* The steps.                                                              *)
(***************************************************************************)
Init ==
  /\ lsmi = StartIndex
  /\ meta = [m \in Stored |-> [y |-> 0, o |-> 0, ci |-> 0]]
  /\ gets = {}
  /\ updates = {}
  /\ ncalls = 0

\* The milestone solidifier confirms the next milestone and schedules
\* UpdateConeRootIndexes over the messages it confirmed; it runs that update
\* before it confirms the next milestone.
ConfirmMilestone ==
  /\ updates = {}
  /\ lsmi < MaxIndex
  /\ lsmi' = lsmi + 1
  /\ updates' = updates \cup {lsmi + 1}
  /\ UNCHANGED <<meta, gets, ncalls>>

\* Tip selection reads the LSMI and asks for the indexes of m.
RequestConeRootIndexes(m) ==
  /\ ncalls < MaxCalls
  /\ gets' = gets \cup {<<m, lsmi>>}
  /\ ncalls' = ncalls + 1
  /\ UNCHANGED <<lsmi, meta, updates>>

GetConeRootIndexesCall(c) ==
  /\ meta' = GetConeRootIndexes(c[1], c[2], meta).meta
  /\ gets' = gets \ {c}
  /\ UNCHANGED <<lsmi, updates, ncalls>>

UpdateConeRootIndexesCall(L) ==
  /\ meta' = UpdateConeRootIndexes({n \in Stored : ConfAt[n] = L}, L, meta)
  /\ updates' = updates \ {L}
  /\ UNCHANGED <<lsmi, gets, ncalls>>

Next ==
  \/ ConfirmMilestone
  \/ \E m \in Stored : RequestConeRootIndexes(m)
  \/ \E c \in gets : GetConeRootIndexesCall(c)
  \/ \E L \in updates : UpdateConeRootIndexesCall(L)

Spec == Init /\ [][Next]_vars

(***************************************************************************)
(* Properties.                                                             *)
(***************************************************************************)
\* Whatever order the concurrent callers run in and however stale their
\* LSMI, a cache entry stamped with the current LSMI holds exactly the cone
\* root indexes of the message's past cone as it is now: a walk that meets
\* a missing parent never caches, and a fresh entry never rests on one
\* computed for an older LSMI (GetConeRootIndexes, lines 30 and 75).
CacheSound ==
  \A m \in Stored : meta[m].ci = lsmi =>
    /\ RefValid(m)
    /\ meta[m].y = RefYoungest(m)
    /\ meta[m].o = RefOldest(m)

\* Every pair cached in the metadata, for whichever LSMI, has a positive
\* oldest index at most its youngest: a walk that meets a missing parent
\* caches nothing, and the stops of every other walk pass positive root
\* indexes.  A call with a stale LSMI stops at entries cached for that
\* LSMI, which CacheSound says nothing of, and passes their pairs to
\* updateIndexes (lines 38-45): this is what keeps the fold independent of
\* the order the walk meets them in (ConeIndexFoldProofs).
CachedPairsOrdered ==
  \A m \in Stored : meta[m].ci # 0 => [y |-> meta[m].y, o |-> meta[m].o] \in PosPairs

\* Once UpdateConeRootIndexes has run for the current milestone, every
\* message of the future cone of the messages it confirmed whose cone is
\* complete holds indexes stamped with the current LSMI (the promise of
\* UpdateConeRootIndexes, lines 125-127), so tip selection finds them fresh.
FutureConeFresh ==
  lsmi > StartIndex /\ updates = {} =>
    \A m \in FutureCone({n \in Stored : ConfAt[n] = lsmi}) :
      RefValid(m) => meta[m].ci = lsmi
=============================================================================
