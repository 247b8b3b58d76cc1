----------------------------- MODULE MCTraining -----------------------------
(* Model values for the runs of Training. *)
EXTENDS Training, TLC
CONSTANTS s1, s2, p1, p2, blank, notes, a, b
Symmetry == Permutations(Sessions) \cup Permutations(Clients) \cup Permutations(Scores)
=============================================================================
