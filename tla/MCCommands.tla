---------------------------- MODULE MCCommands ----------------------------
(* Model values for the runs of Commands. *)
EXTENDS Commands
CONSTANTS x, y
=============================================================================
