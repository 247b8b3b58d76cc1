----------------------------- MODULE MCBattle -----------------------------
(* A line of five places, two ships, small numbers in the place of the defaults. *)
EXTENDS Battle
CONSTANTS a, b

MCRoster == <<a, b>>

MCConfig ==
  [hull |-> 3, ammo |-> 2, cooldown |-> 2, speed |-> 1, hit |-> 0, bump |-> 1,
   shellSpeed |-> 1, shellRange |-> 2, splash |-> 2, damage |-> 2,
   radar |-> 2, hearActive |-> 4, hearNear |-> 1,
   speedMult |-> 200, cooldownMult |-> 50, empMult |-> 200, splashMult |-> 150,
   damageMult |-> 150, rangeMult |-> 200, shellSpeedMult |-> 200, awacsMult |-> 200,
   hullMult |-> 50, silentMult |-> 50, smokeRadius |-> 1, empRadius |-> 3,
   instantHp |-> 1, regen |-> 1, reveal |-> 2, decoyMin |-> 1, decoyMax |-> 1,
   duration |-> [p \in PowerupId |-> IF p = "counter_battery_trace" THEN 3 ELSE 2]]

At(p, h) == [place |-> p, heading |-> h]
MCLayouts == {[s \in Ships |-> IF s = a THEN At(1, 1) ELSE At(3, -1)]}

\* Each powerup once, next to those it interacts with.
MCLoadouts == {[s \in Ships |-> IF s = a THEN x[1] ELSE x[2]] : x \in
  {<<<<"emp_burst", "heavy_shell">>, <<"rapid_fire", "reinforced_hull">>>>,
   <<<<"silent_running", "smoke_screen">>, <<"awacs_scan", "decoy_flare">>>>,
   <<<<"overdrive", "long_range_salvo">>, <<"counter_battery_trace", "repair_drones">>>>}}

Order4(x) == [course |-> x[1], mode |-> x[2], fire |-> x[3], slot |-> x[4]]
MCOrders == [s \in Ships |-> {Order4(x) : x \in
  IF s = a
  THEN {<<0, "active", {2}, 1>>, <<1, "passive", {}, 2>>, <<0, "passive", {1}, 0>>, <<-1, "active", {}, 1>>}
  ELSE {<<0, "passive", {-2}, 1>>, <<0, "active", {-1}, 2>>, <<1, "passive", {}, 2>>}}]
=============================================================================
