------------------------ MODULE ConeIndexFoldProofs ------------------------
(***************************************************************************)
(* Facts about updateIndexes (ConeIndexFold), for every milestone index:   *)
(* on positive, ordered pairs it computes the youngest of the youngest and *)
(* the oldest of the oldest indexes, so two stops give the same pair in    *)
(* either order; a root of index 0 breaks this.                            *)
(***************************************************************************)
EXTENDS ConeIndexFold, TLAPS

\* The pairs updateIndexes can be applied to: not set yet, or a pair an
\* earlier stop produced.
Accs == PosPairs \cup {Unset}

\* The first stop's pair is taken as it is.
LEMMA UpdateIndexesFromUnset ==
  ASSUME NEW v \in PosPairs
  PROVE  UpdateIndexes(v, Unset) = v
BY DEF PosPairs, UpdateIndexes, Unset

\* On two set pairs, updateIndexes takes the larger youngest and the
\* smaller oldest index, and the result is again a positive ordered pair.
LEMMA UpdateIndexesJoin ==
  ASSUME NEW v \in PosPairs, NEW acc \in PosPairs
  PROVE  /\ UpdateIndexes(v, acc)
              = [y |-> IF acc.y < v.y THEN v.y ELSE acc.y,
                 o |-> IF acc.o > v.o THEN v.o ELSE acc.o]
         /\ UpdateIndexes(v, acc) \in PosPairs
BY DEF PosPairs, UpdateIndexes

\* updateIndexes keeps the accumulated pair among the pairs it accepts.
LEMMA UpdateIndexesAccs ==
  ASSUME NEW v \in PosPairs, NEW acc \in Accs
  PROVE  UpdateIndexes(v, acc) \in PosPairs
<1>1. CASE acc = Unset
  BY <1>1, UpdateIndexesFromUnset
<1>2. CASE acc \in PosPairs
  BY <1>2, UpdateIndexesJoin
<1>3. QED
  BY <1>1, <1>2 DEF Accs

\* Two stops with positive root indexes give the same pair whichever the
\* walk meets first: the fold of GetConeRootIndexes (lines 38-45) does not
\* depend on the traversal order, from the unset pair or from any pair
\* already accumulated.
THEOREM UpdateIndexesCommute ==
  ASSUME NEW v1 \in PosPairs, NEW v2 \in PosPairs, NEW acc \in Accs
  PROVE  UpdateIndexes(v1, UpdateIndexes(v2, acc))
           = UpdateIndexes(v2, UpdateIndexes(v1, acc))
<1>1. CASE acc = Unset
  <2>1. /\ UpdateIndexes(v2, acc) = v2
        /\ UpdateIndexes(v1, acc) = v1
    BY <1>1, UpdateIndexesFromUnset
  <2>2. QED
    BY <2>1, UpdateIndexesJoin DEF PosPairs
<1>2. CASE acc \in PosPairs
  <2>1. /\ UpdateIndexes(v2, acc) \in PosPairs
        /\ UpdateIndexes(v1, acc) \in PosPairs
    BY <1>2, UpdateIndexesJoin
  <2>2. QED
    BY <1>2, <2>1, UpdateIndexesJoin DEF PosPairs
<1>3. QED
  BY <1>1, <1>2 DEF Accs

\* A root of index 0 makes the oldest index depend on the order: met first,
\* it leaves the pair unset and the next root sets it; met second, it
\* overwrites the oldest index with 0 (updateIndexes, lines 41-43, reads 0
\* as "not set").  This is why no root may have index 0.
THEOREM ZeroRootOrderDependent ==
  LET zero == [y |-> 0, o |-> 0]
      root == [y |-> 3, o |-> 3]
  IN  UpdateIndexes(zero, UpdateIndexes(root, Unset))
        # UpdateIndexes(root, UpdateIndexes(zero, Unset))
BY DEF UpdateIndexes, Unset

=============================================================================
