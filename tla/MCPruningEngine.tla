-------------------------- MODULE MCPruningEngine --------------------------
(* Model-checking instance of PruningEngine on a ten-message tangle with   *)
(* six milestones, the sixth newer than the snapshot:                      *)
(*   a (ms 1) <- b (ms 2), c (conf 2) <- d (ms 3);                         *)
(*   c <- x (conf 4);  d, x <- e (ms 4) <- g (ms 5) <- h (ms 6);           *)
(*   u (unconfirmed) references b; f is an unconfirmed message of a        *)
(*   milestone bundle.  The unconfirmed index lists x at 1 (x was seen     *)
(*   unconfirmed then and confirmed at 4), u and f at 2.  u may be a       *)
(*   milestone transaction but has no bundle, so it falls through.         *)
EXTENDS PruningEngine, TLC

CONSTANTS a, b, c, d, e, f, g, h, u, x

MCMsgs == {a, b, c, d, e, f, g, h, u, x}
MCParents == (a :> {} @@ b :> {a} @@ c :> {a} @@ d :> {b, c} @@ x :> {c}
              @@ e :> {d, x} @@ g :> {e} @@ h :> {g} @@ u :> {b} @@ f :> {a})
MCConfIndex == (a :> 1 @@ b :> 2 @@ c :> 2 @@ d :> 3 @@ x :> 4 @@ e :> 4
                @@ g :> 5 @@ h :> 6 @@ u :> 0 @@ f :> 0)
MCMsMsg == <<a, b, d, e, g, h>>
MCMilestoneTxs == {a, b, d, e, g, h, f}
MCMaybeMilestoneTxs == MCMilestoneTxs \cup {u}
MCBundledTxs == MCMsgs \ {u}
MCUnconfAt == [i \in 0 .. 6 |-> CASE i = 1 -> {x}
                                   [] i = 2 -> {u, f}
                                   [] OTHER -> {}]
=============================================================================
