------------------------------ MODULE MCReplay ------------------------------
(* Model values and a small simulation for the run of Replay.  The sea keeps all that *)
(* happened, so that two worlds are equal only if they had the same history; a ship   *)
(* sinks in the step after another one fired, so orders take effect late.             *)
EXTENDS Replay
CONSTANTS a, b, hold, fire, none, plain, ring, apart
FreeLaunch(rules, spawn) == <<<<rules, spawn>>>>
FreeSail(w, orders) == Append(w.sea, orders)
FreeAbandon(sea, ship) == Append(sea, ship)
Fired(sea) == LET last == sea[Len(sea)] IN
  IF Len(sea) > 1 /\ last \notin Bots THEN {s \in DOMAIN last : last[s] = fire} ELSE {}
ShotSunk(w, orders) == {s \in w.afloat : \E t \in Fired(w.sea) : t # s}
Quiet(w) == {s \in w.afloat : s \notin DOMAIN w.sea[Len(w.sea)]}
=============================================================================
