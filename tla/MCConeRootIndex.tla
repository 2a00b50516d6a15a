-------------------------- MODULE MCConeRootIndex --------------------------
(* Model-checking instance of ConeRootIndex on a tangle of six stored      *)
(* messages over two solid entry points and one missing message:           *)
(*   s1 (index 1) <- a (ms 3);  s2 (index 2) <- b (ms 4);                  *)
(*   a, b <- c <- d;  d, mm <- e;  d, b <- f  (c, d, e, f unconfirmed).    *)
(* The node starts at LSMI 2, so milestone 3 moves the roots of c, d, f    *)
(* from the entry points to a and milestone 4 to a and b; e's cone always  *)
(* reaches the missing mm.                                                 *)
EXTENDS ConeRootIndex, TLC

CONSTANTS s1, s2, a, b, c, d, e, f, mm

MCMsgs == {s1, s2, a, b, c, d, e, f, mm}
MCParents == (a :> {s1} @@ b :> {s2} @@ c :> {a, b} @@ d :> {c}
              @@ e :> {d, mm} @@ f :> {d, b})
MCSepIndex == (s1 :> 1 @@ s2 :> 2)
MCConfAt == (a :> 3 @@ b :> 4 @@ c :> 0 @@ d :> 0 @@ e :> 0 @@ f :> 0)
=============================================================================
