------------------------------- MODULE Hulls -------------------------------
(***************************************************************************)
(* What the life of a match needs to know of the battle fought in it: in   *)
(* one tick any ship afloat may lose or regain hull, sink, or fire one     *)
(* round; nothing floats again; the battle is decided when one ship is     *)
(* left, or none, or when the time is over.  Room assumes this of the      *)
(* simulation, and Battle implements it.                                   *)
(***************************************************************************)
EXTENDS Naturals, FiniteSets

CONSTANTS Ships, FullHull, Magazine

VARIABLES afloat, hull, rounds, decided

vars == <<afloat, hull, rounds, decided>>

Fresh ==
  /\ afloat = Ships /\ decided = FALSE
  /\ hull = [s \in Ships |-> FullHull] /\ rounds = [s \in Ships |-> Magazine]

SinkOnlyAtZero == afloat' = {s \in afloat : hull'[s] > 0}

Tick ==
  /\ ~decided
  /\ hull' \in [Ships -> 0..FullHull]
  /\ \A s \in Ships \ afloat : hull'[s] = hull[s]
  /\ SinkOnlyAtZero
  /\ \E shots \in SUBSET {s \in afloat : rounds[s] > 0} :
       rounds' = [s \in Ships |-> IF s \in shots THEN rounds[s] - 1 ELSE rounds[s]]
  /\ decided' \in BOOLEAN
  /\ Cardinality(Ships) >= 2 /\ Cardinality(afloat') <= 1 => decided'

Strike(s) ==
  /\ ~decided /\ s \in afloat
  /\ hull' = [hull EXCEPT ![s] = 0] /\ SinkOnlyAtZero
  /\ UNCHANGED <<rounds, decided>>

Again ==
  /\ decided
  /\ afloat' = Ships /\ decided' = FALSE
  /\ hull' = [s \in Ships |-> FullHull] /\ rounds' = [s \in Ships |-> Magazine]

Next == Tick \/ (\E s \in Ships : Strike(s)) \/ Again

Spec == Fresh /\ [][Next]_vars
=============================================================================
