----------------------------- MODULE MCSessions -----------------------------
(* Model values for the runs of Sessions: two connections of one identity. *)
EXTENDS Sessions, TLC
CONSTANTS a, b, c1, c2, c3
PairAndOther == c1 :> a @@ c2 :> a @@ c3 :> b
Pair == c1 :> a @@ c2 :> a
=============================================================================
