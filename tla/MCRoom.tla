------------------------------ MODULE MCRoom ------------------------------
(* Model values for the runs of Room. *)
EXTENDS Room
CONSTANTS n1, n2, c1, c2, none
=============================================================================
