--------------------------- MODULE ConeIndexFold ----------------------------
(***************************************************************************)
(* updateIndexes, the closure of GetConeRootIndexes (src/unnamed/part_000) *)
(* that folds the cone root indexes of the stops a walk meets into the     *)
(* pair (youngest, oldest) it returns and caches.  The pair starts as      *)
(* (0, 0) and 0 stands for "not set yet".  The walk meets the stops in an  *)
(* order the traversal does not fix ("Caution: condition func is not in    *)
(* DFS order"), so the result must not depend on it.                       *)
(***************************************************************************)
EXTENDS Naturals

\* The pair before the first stop.
Unset == [y |-> 0, o |-> 0]

\* What a stop can pass: a root's index twice, or a cached pair, with the
\* oldest index positive and at most the youngest.
PosPairs == {r \in [y : Nat, o : Nat] : 1 <= r.o /\ r.o <= r.y}

\* Mutant of UpdateIndexes: the "not set" test of the oldest index left
\* out, so the oldest index never leaves 0.
UpdateIndexesNoUnsetOldest(v, acc) ==
  [y |-> IF acc.y = 0 \/ acc.y < v.y THEN v.y ELSE acc.y,
   o |-> IF acc.o > v.o THEN v.o ELSE acc.o]

\* updateIndexes(ycri, ocri) applied to the pair acc.
UpdateIndexes(v, acc) ==
  [y |-> IF acc.y = 0 \/ acc.y < v.y THEN v.y ELSE acc.y,
   o |-> IF acc.o = 0 \/ acc.o > v.o THEN v.o ELSE acc.o]

=============================================================================
