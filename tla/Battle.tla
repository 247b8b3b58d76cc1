------------------------------- MODULE Battle -------------------------------
(***************************************************************************)
(* The battle of a running match: what Room::step_tick makes of the orders *)
(* of one tick (sim/powerups.rs, sim/combat.rs, sim/physics.rs), and the   *)
(* frames it then sends to the bots (sim/sensors.rs) and the spectators.   *)
(*                                                                         *)
(* The world is a record, and each phase of a tick is an operator from one *)
(* world to the next; an order is what a bot's accepted command asks for.  *)
(* The map is a line of places; courses, bearings and noise are abstracted *)
(* to steps along it.  Times are ticks, as in the code: an effect is in    *)
(* force at tick t iff the tick it names is later than t.                  *)
(***************************************************************************)
EXTENDS Integers, Sequences, FiniteSets, SequencesExt

CONSTANTS
  Roster,    \* the ships in the order of their bot ids
  Width,     \* places are 0..Width
  Config,    \* SimConfig and PowerupConfig
  Layouts,   \* where the ships of a match may start, and how they face
  Loadouts,  \* the loadouts they may have
  Orders,    \* what each ship may be ordered to do in a tick
  Timeout,   \* MATCH_TIMEOUT_TICKS
  Throttle,  \* spectator_throttle: 1, or that of the batch in progress
  Word       \* integers are stored modulo this (2^32)

\* Numbers.
Least(a, b) == IF a < b THEN a ELSE b
Greatest(a, b) == IF a > b THEN a ELSE b
Rounded(a, b) == (2 * a + b) \div (2 * b)
Scaled(x, percent) == Rounded(x * percent, 100)
UpTo(a, b) == (a + b - 1) \div b
AsU32(x) == x % Word

Dist(p, q) == IF p < q THEN q - p ELSE p - q
Inside(p) == Greatest(0, Least(Width, p))

Ships == {Roster[i] : i \in DOMAIN Roster}

InWorld == {"smoke_screen", "decoy_flare"}
PowerupId == InWorld \cup
  {"overdrive", "reinforced_hull", "repair_drones", "rapid_fire", "heavy_shell",
   "long_range_salvo", "awacs_scan", "silent_running", "counter_battery_trace", "emp_burst"}

Modes == {"active", "passive"}
Order == [course : -1..1, mode : Modes, fire : {f \in SUBSET Int : \A a, b \in f : a = b},
          slot : 0..2]

\* What SimConfig::validate and PowerupConfig::validate accept; multipliers are in percent,
\* and a hit radius smaller than a place is 0.
SimConfigValid ==
  /\ \A f \in {"hull", "ammo", "cooldown", "shellSpeed", "shellRange", "splash", "damage",
               "radar", "hearActive", "hearNear", "speed"} : Config[f] \in Nat \ {0}
  /\ Config.hit \in Nat /\ Config.bump \in Nat
PowerupConfigValid ==
  /\ \A f \in {"speedMult", "cooldownMult", "splashMult", "damageMult", "rangeMult",
               "shellSpeedMult", "awacsMult", "smokeRadius", "empRadius", "empMult",
               "reveal", "decoyMin", "decoyMax"} : Config[f] \in Nat \ {0}
  /\ \A f \in {"regen", "instantHp", "hullMult", "silentMult"} : Config[f] \in Nat
  /\ Config.duration \in [PowerupId -> Nat \ {0}]
  /\ Config.decoyMin <= Config.decoyMax
\* Multiplied lengths, rounded to places, are lengths still.
ScaleValid ==
  /\ Scaled(Config.splash, Config.splashMult) > 0
  /\ Scaled(Config.shellSpeed, Config.shellSpeedMult) > 0

\* Bot ids are distinct, and a match starts on the map.
FleetValid ==
  /\ Roster \in Seq(Ships) /\ \A i, j \in DOMAIN Roster : Roster[i] = Roster[j] => i = j
  /\ Width \in Nat
  /\ Layouts \subseteq [Ships -> [place : 0..Width, heading : {-1, 1}]]
  /\ Loadouts \subseteq [Ships -> Seq(PowerupId)]
  /\ \A s \in Ships : Orders[s] \subseteq Order

ASSUME ConfigAssumption == SimConfigValid /\ PowerupConfigValid /\ ScaleValid
ASSUME FleetAssumption == FleetValid
ASSUME BoundsAssumption == Word \in Nat \ {0} /\ Timeout \in Nat \ {0} /\ Throttle \in Nat

VARIABLES
  phase, world, modes, pingers, stats,
  frames,    \* the last tick frame sent to each bot
  screen,    \* the last world frame sent to the spectators
  orders,    \* the orders of the last tick, as its replay record has them
  began,     \* when each powerup was activated (history)
  lost,      \* how each ship was lost (history)
  blows      \* who hit whom, and when, in order (history)

history == <<began, lost, blows>>
vars == <<phase, world, modes, pingers, stats, frames, screen, orders, history>>

-----------------------------------------------------------------------------
(* Ships and their powerups. *)

Alive(w) == {s \in Ships : w.ships[s].alive}

\* PowerupState::is_active and ticks_remaining; smoke and decoys live in the world.
ActiveAt(ship, p, t) == ship.until[p] > t
TicksLeft_OfSweep(ship, p, t) == IF ship.until[p] >= t THEN ship.until[p] - t + 1 ELSE 0
TicksLeft(ship, p, t) == IF ship.until[p] > t THEN ship.until[p] - t ELSE 0

Unpowered(ship) ==
  [ship EXCEPT !.used = {}, !.until = [p \in PowerupId |-> 0], !.emp = 0,
               !.reveal = 0, !.attacker = {}]

ResetForRound(ship, start) ==
  [Unpowered(ship) EXCEPT
     !.place = start.place, !.heading = start.heading, !.course = 0, !.speed = 0,
     !.hp = Config.hull, !.ammo = Config.ammo, !.cooldown = 0, !.alive = TRUE]

NewShip ==
  [place |-> 0, heading |-> 1, course |-> 0, speed |-> 0, hp |-> Config.hull,
   ammo |-> Config.ammo, cooldown |-> 0, alive |-> TRUE, selected |-> <<>>, used |-> {},
   until |-> [p \in PowerupId |-> 0], emp |-> 0, reveal |-> 0, attacker |-> {}]

\* apply_match_layout: every hull fresh in its place, and nothing left in the world.
LaidOut(w, layout, loadout) ==
  [tick |-> 0, shells |-> <<>>, clouds |-> {}, decoys |-> {},
   ships |-> [s \in Ships |->
     [ResetForRound(w.ships[s], layout[s]) EXCEPT !.selected = loadout[s]]]]

NewWorld == [tick |-> 0, shells |-> <<>>, clouds |-> {}, decoys |-> {},
             ships |-> [s \in Ships |-> NewShip]]

-----------------------------------------------------------------------------
(* powerups.rs: activation and maintenance. *)

CanActivate(w, s, p) ==
  /\ w.ships[s].alive
  /\ \E i \in DOMAIN w.ships[s].selected : w.ships[s].selected[i] = p
  /\ p \notin w.ships[s].used

InBurst(w, s, x) ==
  x # s /\ w.ships[x].alive /\ Dist(w.ships[s].place, w.ships[x].place) <= Config.empRadius

\* The activator after its powerup took effect on it.
Powered(ship, p, t) ==
  [ship EXCEPT
     !.used = @ \cup {p},
     !.until = IF p \in InWorld THEN @ ELSE [@ EXCEPT ![p] = t + Config.duration[p]],
     !.hp = IF p = "repair_drones" THEN Least(@ + Config.instantHp, Config.hull) ELSE @,
     !.reveal = IF p = "counter_battery_trace" THEN 0 ELSE @,
     !.attacker = IF p = "counter_battery_trace" THEN {} ELSE @]

\* activate, where `ahead` is the one draw a decoy makes.
Activated(w, s, p, ahead) ==
  LET me  == w.ships[s]
      end == w.tick + Config.duration[p]
  IN [w EXCEPT
        !.ships = [x \in Ships |->
          IF x = s THEN Powered(me, p, w.tick)
          ELSE IF p = "emp_burst" /\ InBurst(w, s, x)
          THEN [w.ships[x] EXCEPT !.emp = Greatest(@, end)]
          ELSE w.ships[x]],
        !.clouds = IF p # "smoke_screen" THEN @
                   ELSE @ \cup {[owner |-> s, at |-> me.place, until |-> end]},
        !.decoys = IF p # "decoy_flare" THEN @
                   ELSE @ \cup {[owner |-> s, at |-> Inside(me.place + me.heading * ahead),
                                 drift |-> me.heading * me.speed, until |-> end]}]

Regenerated_Wrecks(ship, t) ==
  IF ActiveAt(ship, "repair_drones", t)
  THEN [ship EXCEPT !.hp = Least(@ + Config.regen, Config.hull)] ELSE ship
Regenerated(ship, t) ==
  IF ship.alive /\ ActiveAt(ship, "repair_drones", t)
  THEN [ship EXCEPT !.hp = Least(@ + Config.regen, Config.hull)] ELSE ship

\* step_tick_maintenance, before the tick counter is raised.
MaintainedAt(w, t) ==
  LET cruised(d) == [d EXCEPT !.at = Inside(@ + d.drift)]
  IN [w EXCEPT
        !.ships = [s \in Ships |-> Regenerated(w.ships[s], t)],
        !.clouds = {c \in @ : c.until > t},
        !.decoys = {d \in {cruised(e) : e \in @} : d.until > t}]
Maintained_AfterTick(w) == MaintainedAt(w, w.tick + 1)
Maintained(w) == MaintainedAt(w, w.tick)

-----------------------------------------------------------------------------
(* combat.rs and physics.rs. *)

TopSpeed(ship, t) ==
  IF ActiveAt(ship, "overdrive", t) THEN Scaled(Config.speed, Config.speedMult) ELSE Config.speed

\* effective_gun_cooldown_ticks: at least one tick, as a 64-bit number, then cut to 32 bits.
EffectiveCooldown(rapid, jammed) ==
  AsU32(Greatest(1, Rounded(Config.cooldown * (IF rapid THEN Config.cooldownMult ELSE 100)
                                            * (IF jammed THEN Config.empMult ELSE 100), 10000)))

CanFire(w, s) == w.ships[s].alive /\ w.ships[s].cooldown = 0 /\ w.ships[s].ammo > 0

\* fire: the buffs of the moment are baked into the shell, and silence is broken.
Shell(ship, s, aim, t) ==
  LET heavy == ActiveAt(ship, "heavy_shell", t)
      far   == ActiveAt(ship, "long_range_salvo", t)
      reach == IF far THEN Scaled(Config.shellRange, Config.rangeMult) ELSE Config.shellRange
      speed == IF far THEN Scaled(Config.shellSpeed, Config.shellSpeedMult) ELSE Config.shellSpeed
  IN [by |-> s, at |-> ship.place, step |-> IF aim < 0 THEN -speed ELSE speed,
      ttl |-> UpTo(Least(Dist(0, aim), reach), speed),
      splash |-> IF heavy THEN Scaled(Config.splash, Config.splashMult) ELSE Config.splash,
      damage |-> IF heavy THEN AsU32(Scaled(Config.damage, Config.damageMult)) ELSE Config.damage]

Recoiled(ship, t) ==
  [ship EXCEPT
     !.cooldown = EffectiveCooldown(ActiveAt(ship, "rapid_fire", t), ship.emp > t),
     !.ammo = @ - 1,
     !.until = [ship.until EXCEPT !["silent_running"] = Least(@, t)]]

Fired(w, s, aim) ==
  [w EXCEPT !.shells = Append(@, Shell(w.ships[s], s, aim, w.tick)),
            !.ships[s] = Recoiled(@, w.tick)]

Sailed_Afloat(ship, t) ==
  LET speed == IF ship.course = 0 THEN 0 ELSE TopSpeed(ship, t)
      way   == IF ship.course = 0 THEN ship.heading ELSE ship.course
      to    == ship.place + way * speed
      bump  == to # Inside(to)
  IN [ship EXCEPT !.heading = way, !.place = Inside(to), !.speed = IF bump THEN 0 ELSE speed,
        !.hp = IF bump THEN Greatest(0, @ - Config.bump) ELSE @, !.cooldown = Greatest(0, @ - 1)]

\* step_ship: a ship that runs into a wall stops and is damaged.
Sailed(ship, t) ==
  LET speed == IF ship.course = 0 THEN 0 ELSE TopSpeed(ship, t)
      way   == IF ship.course = 0 THEN ship.heading ELSE ship.course
      to    == ship.place + way * speed
      bump  == to # Inside(to)
      hp    == IF bump THEN Greatest(0, ship.hp - Config.bump) ELSE ship.hp
  IN [ship EXCEPT !.heading = way, !.place = Inside(to), !.speed = IF bump THEN 0 ELSE speed,
                  !.hp = hp, !.alive = hp > 0, !.cooldown = Greatest(0, @ - 1)]

Moved(w) ==
  [w EXCEPT !.ships = [s \in Ships |->
     IF w.ships[s].alive THEN Sailed(w.ships[s], w.tick) ELSE w.ships[s]]]

\* What a shell going off costs a ship.
SplashDamage(ship, shell, t) ==
  LET d   == Greatest(0, Dist(ship.place, shell.at) - Config.hit)
      raw == IF d > shell.splash THEN 0 ELSE Rounded(shell.damage * (shell.splash - d), shell.splash)
  IN IF ActiveAt(ship, "reinforced_hull", t) THEN AsU32(Scaled(raw, Config.hullMult)) ELSE raw

Struck_Once(ship, s, shell, t) ==
  LET hp     == Greatest(0, ship.hp - SplashDamage(ship, shell, t))
      traced == /\ ActiveAt(ship, "counter_battery_trace", t) /\ shell.by # s
                /\ ship.reveal = 0
  IN [ship EXCEPT !.hp = hp, !.alive = hp > 0,
        !.attacker = IF traced THEN {shell.by} ELSE @,
        !.reveal = IF traced THEN t + Config.reveal ELSE @]

Struck(ship, s, shell, t) ==
  LET dmg    == SplashDamage(ship, shell, t)
      hp     == Greatest(0, ship.hp - dmg)
      traced == ActiveAt(ship, "counter_battery_trace", t) /\ shell.by # s
  IN [ship EXCEPT !.hp = hp, !.alive = hp > 0,
        !.attacker = IF traced THEN {shell.by} ELSE @,
        !.reveal = IF traced THEN t + Config.reveal ELSE @]

Reached_Wrecks(ship, shell, t) == SplashDamage(ship, shell, t) > 0
Reached(ship, shell, t) == ship.alive /\ SplashDamage(ship, shell, t) > 0

\* What a shell that goes off does to one ship: `done` collects the shells still flying, the
\* ships, and the hits in order.
Splashed(done, s, shell, t) ==
  LET ship  == done.ships[s]
      after == Struck(ship, s, shell, t)
  IN IF ~Reached(ship, shell, t) THEN done
     ELSE [done EXCEPT !.ships[s] = after,
             !.hits = Append(@, [ship |-> s, by |-> shell.by, sunk |-> ~after.alive,
                                 amount |-> SplashDamage(ship, shell, t)])]

Flown(shell) == [shell EXCEPT !.at = @ + shell.step, !.ttl = Greatest(0, @ - 1)]

\* One shell of step_shells: it flies on, or goes off and hits every ship near enough.
Burst(done, shell, t) == FoldLeft(LAMBDA d, s : Splashed(d, s, shell, t), done, Roster)
ShellStepped(done, shell0, t) ==
  LET shell == Flown(shell0)
  IN IF shell.ttl > 0 THEN [done EXCEPT !.flying = Append(@, shell)] ELSE Burst(done, shell, t)

ShellsStepped(w) ==
  FoldLeft(LAMBDA done, shell : ShellStepped(done, shell, w.tick),
           [flying |-> <<>>, ships |-> w.ships, hits |-> <<>>], w.shells)

-----------------------------------------------------------------------------
(* The phases of a tick, up to the raised tick counter. *)

Steered(w, o) ==
  [w EXCEPT !.ships = [s \in Ships |->
     IF s \in DOMAIN o THEN [w.ships[s] EXCEPT !.course = o[s].course] ELSE w.ships[s]]]

\* The powerup an order asks for: one of the ship's own by position.
Wanted(w, s, o) ==
  IF s \in DOMAIN o /\ o[s].slot \in DOMAIN w.ships[s].selected
  THEN {w.ships[s].selected[o[s].slot]} ELSE {}

EmpoweredOne(w, s, o, ahead) ==
  IF \E p \in Wanted(w, s, o) : CanActivate(w, s, p)
  THEN Activated(w, s, CHOOSE p \in Wanted(w, s, o) : TRUE, ahead[s]) ELSE w

ShotOne(w, s, o) ==
  IF s \in DOMAIN o /\ o[s].fire # {} /\ CanFire(w, s)
  THEN Fired(w, s, CHOOSE a \in o[s].fire : TRUE) ELSE w

\* Every activation comes before every shot, each in the order of the bot ids.
Empowered(w, o, roster, ahead) ==
  FoldLeft(LAMBDA u, s : EmpoweredOne(u, s, o, ahead), w, roster)
Shot(w, o, roster) == FoldLeft(LAMBDA u, s : ShotOne(u, s, o), w, roster)

Ordered_ShipByShip(w, o, roster, ahead) ==
  LET one(u, s) == Shot(Empowered(u, o, <<s>>, ahead), o, <<s>>)
  IN FoldLeft(one, Steered(w, o), roster)
Ordered(w, o, roster, ahead) == Shot(Empowered(Steered(w, o), o, roster, ahead), o, roster)

Simulated(w, o, roster, ahead) ==
  LET moved == Moved(Ordered(w, o, roster, ahead))
      burst == ShellsStepped(moved)
      kept  == Maintained([moved EXCEPT !.shells = burst.flying, !.ships = burst.ships])
  IN [world |-> [kept EXCEPT !.tick = @ + 1], moved |-> moved, hits |-> burst.hits]

\* The random streams of the room's seed place the decoys.
Simulations(w, o, roster) ==
  {Simulated(w, o, roster, ahead) : ahead \in [Ships -> Config.decoyMin..Config.decoyMax]}

\* accumulate_combat_stats, and the shots counted when they were fired.
Shots(st, w, u) ==
  [s \in Ships |-> [st[s] EXCEPT !.shots = @ + w.ships[s].ammo - u.ships[s].ammo]]
Counted(st, h) ==
  [s \in Ships |-> [st[s] EXCEPT
     !.taken = IF s = h.ship THEN @ + h.amount ELSE @,
     !.dealt = IF s = h.by THEN @ + h.amount ELSE @,
     !.hits = IF s = h.by THEN @ + 1 ELSE @,
     !.kills = IF s = h.by /\ h.sunk THEN @ + 1 ELSE @]]
Credited(st, w, out) ==
  FoldLeft(LAMBDA a, h : Counted(a, h), Shots(st, w, out.world), out.hits)

-----------------------------------------------------------------------------
(* sensors.rs: the sweep of a frame is made with the effects of the tick   *)
(* just simulated.                                                         *)

\* smoke_blocks: the target is in a live cloud the viewer is not in.
SmokeBlocks(w, from, to, t) ==
  \E c \in w.clouds :
    c.until > t /\ Dist(to, c.at) <= Config.smokeRadius /\ Dist(from, c.at) > Config.smokeRadius

RadarContacts(w, s, t) ==
  LET me    == w.ships[s]
      awacs == ActiveAt(me, "awacs_scan", t)
      range == IF awacs THEN Scaled(Config.radar, Config.awacsMult) ELSE Config.radar
      quiet(x) == ActiveAt(w.ships[x], "silent_running", t)
      reach(x) == IF ~quiet(x) THEN range
                  ELSE IF awacs THEN Config.radar ELSE Scaled(range, Config.silentMult)
      seen(p, r) == Dist(me.place, p) <= r /\ ~SmokeBlocks(w, me.place, p, t)
  IN IF me.emp > t THEN {}
     ELSE {<<IF quiet(x) /\ awacs THEN "faint" ELSE "radar", x>> :
             x \in {y \in Alive(w) \ {s} : seen(w.ships[y].place, reach(y))}}
          \cup {<<"decoy", d.owner>> : d \in {e \in w.decoys : e.owner # s /\ seen(e.at, range)}}
          \cup {<<"shell", w.shells[i].by>> :
                 i \in {j \in DOMAIN w.shells : seen(w.shells[j].at, range)}}

HeardContacts(w, s, heard, t) ==
  LET near(p, r) == Dist(w.ships[s].place, p) <= r
  IN {<<"heard", x>> : x \in {y \in Alive(w) \ {s} :
         /\ ~ActiveAt(w.ships[y], "silent_running", t)
         /\ \/ near(w.ships[y].place, Config.hearNear)
            \/ y \in heard /\ near(w.ships[y].place, Config.hearActive)}}
     \cup {<<"decoy", d.owner>> :
              d \in {e \in w.decoys : e.owner # s /\ near(e.at, Config.hearNear)}}

\* consume_counter_battery_reveal.
TracedContacts(ship, t) == {<<"trace", a>> : a \in IF ship.reveal > t THEN ship.attacker ELSE {}}
Forgotten(ship, t) == IF ship.reveal <= t THEN [ship EXCEPT !.attacker = {}] ELSE ship

\* filter_events_for_bot: a bot is told of the hits it took.
HitsTold(s, hits) == FoldLeft(LAMBDA n, h : IF h.ship = s THEN n + h.amount ELSE n, 0, hits)

Frame(w, s, mode, heard, hits) ==
  LET me == w.ships[s]
      t  == w.tick - 1
  IN [tick |-> w.tick, mode |-> mode, hp |-> me.hp, ammo |-> me.ammo,
      cooldown |-> me.cooldown,
      left |-> [i \in DOMAIN me.selected |-> TicksLeft(me, me.selected[i], w.tick)],
      emp |-> Greatest(0, me.emp - w.tick),
      hit |-> HitsTold(s, hits),
      contacts |-> TracedContacts(me, t)
         \cup IF mode = "active" THEN RadarContacts(w, s, t) ELSE HeardContacts(w, s, heard, t)]

\* Whose radar was on when the frames were made: the next sweep hears them.
PingersAfter_Stale(w, m) == {s \in Alive(w) : modes[s] = "active"}
PingersAfter(w, m) == {s \in Alive(w) : m[s] = "active"}

Screen(w) == [tick |-> w.tick, alive |-> Alive(w)]

\* broadcast_spectator_world, with someone watching.
ScreenAfter(w, hits) ==
  LET death == \E i \in DOMAIN hits : hits[i].sunk
  IN IF death \/ Throttle = 1 \/ (Throttle > 1 /\ w.tick % Throttle = 0) THEN Screen(w) ELSE screen

-----------------------------------------------------------------------------
(* The match. *)

\* match_outcome: one ship or none is left of several, or the time is over.
Decided(w) ==
  \/ Cardinality(Ships) >= 2 /\ Cardinality(Alive(w)) <= 1
  \/ w.tick >= Timeout

NoStats == [s \in Ships |-> [shots |-> 0, hits |-> 0, dealt |-> 0, taken |-> 0, kills |-> 0]]

Started(w, layout, loadout) ==
  /\ phase' = "Running"
  /\ world' = LaidOut(w, layout, loadout)
  /\ modes' = [s \in Ships |-> "passive"]
  /\ pingers' = {}
  /\ stats' = NoStats
  /\ frames' = <<>> /\ orders' = <<>>
  /\ began' = [s \in Ships |-> <<>>]
  /\ lost' = [s \in Ships |-> "afloat"]
  /\ blows' = <<>>
  /\ UNCHANGED screen

Init ==
  /\ phase = "Running"
  /\ \E layout \in Layouts, loadout \in Loadouts : world = LaidOut(NewWorld, layout, loadout)
  /\ modes = [s \in Ships |-> "passive"] /\ pingers = {}
  /\ stats = NoStats
  /\ frames = <<>> /\ orders = <<>>
  /\ screen = [tick |-> 0, alive |-> Ships]
  /\ began = [s \in Ships |-> <<>>]
  /\ lost = [s \in Ships |-> "afloat"]
  /\ blows = <<>>

Recorded(out, o) ==
  /\ began' = [s \in Ships |-> [p \in out.world.ships[s].used |->
        IF p \in world.ships[s].used THEN began[s][p] ELSE world.tick]]
  /\ lost' = [s \in Ships |->
        IF lost[s] # "afloat" \/ out.world.ships[s].alive THEN lost[s]
        ELSE IF out.moved.ships[s].alive THEN "sunk" ELSE "wrecked"]
  /\ blows' = blows \o [i \in DOMAIN out.hits |->
        [ship |-> out.hits[i].ship, by |-> out.hits[i].by, at |-> world.tick]]
  /\ orders' = o

\* What the ships that are given orders may be ordered.
OrdersOf(some) == {o \in [some -> UNION {Orders[s] : s \in some}] : \A s \in some : o[s] \in Orders[s]}

\* Frames go to the bots still afloat.  Making them forgets attackers no longer revealed.
Seen(w) == [w EXCEPT !.ships = [s \in Ships |->
  IF w.ships[s].alive THEN Forgotten(w.ships[s], w.tick - 1) ELSE w.ships[s]]]

\* step_tick while Running.  The orders of ships that are lost are dropped; the deciding
\* tick has no frames for the bots.
StepTo(o, out) ==
  LET m   == [s \in Ships |-> IF s \in DOMAIN o THEN o[s].mode ELSE modes[s]]
      w   == out.world
  IN /\ modes' = m
     /\ stats' = Credited(stats, world, out)
     /\ screen' = ScreenAfter(w, out.hits)
     /\ Recorded(out, o)
     /\ IF Decided(w)
        THEN phase' = "Ended" /\ world' = w /\ UNCHANGED <<frames, pingers>>
        ELSE /\ world' = Seen(w)
             /\ frames' = [s \in Alive(w) |-> Frame(w, s, m[s], pingers, out.hits)]
             /\ pingers' = PingersAfter(w, m)
             /\ UNCHANGED phase

Step ==
  /\ phase = "Running"
  /\ \E some \in SUBSET Alive(world) : \E o \in OrdersOf(some) :
       \E out \in Simulations(world, o, Roster) : StepTo(o, out)

\* forfeit_bot, between two ticks: the hull stays, sunk, and nobody is credited.  (In a
\* batch a disconnect ends the match instead: Room.)
Forfeit(s) ==
  /\ Throttle = 1 /\ phase = "Running" /\ world.ships[s].alive
  /\ world' = [world EXCEPT !.ships[s].alive = FALSE, !.ships[s].hp = 0, !.ships[s].course = 0]
  /\ lost' = [lost EXCEPT ![s] = "forfeited"]
  /\ UNCHANGED <<phase, modes, pingers, stats, frames, screen, orders, began, blows>>

\* The next match of the same ships, on the world the last one left.
Rematch ==
  /\ phase = "Ended"
  /\ \E layout \in Layouts, loadout \in Loadouts : Started(world, layout, loadout)

Next == Step \/ (\E s \in Ships : Forfeit(s)) \/ Rematch

Spec == Init /\ [][Next]_vars

-----------------------------------------------------------------------------
(* Properties. *)

\* The state has its shape: hulls stay within the configured hull, a ship is afloat
\* exactly as long as it has hull, and only live shells, clouds and decoys are kept.
TypeOK ==
  /\ phase \in {"Running", "Ended"}
  /\ modes \in [Ships -> Modes] /\ pingers \subseteq Ships
  /\ world.tick \in 0..Timeout
  /\ \A s \in Ships : LET h == world.ships[s] IN
       /\ h.hp \in 0..Config.hull /\ h.alive = (h.hp > 0)
       /\ h.place \in 0..Width /\ h.course \in -1..1 /\ h.heading \in {-1, 1}
       /\ h.ammo \in 0..Config.ammo /\ h.cooldown \in 0..(Word - 1)
       /\ h.attacker \subseteq Ships \ {s}
  /\ \A i \in DOMAIN world.shells : world.shells[i].ttl > 0
  /\ DOMAIN frames \subseteq Ships /\ \A s \in DOMAIN frames : frames[s].tick <= world.tick

\* An effect of duration N begun at tick b is in force in the N sweeps from that of tick b
\* on, whichever of the places that hold it one asks (docs/POWERUPS.md): the ship, the
\* world's clouds and decoys, which maintenance collects, or the ships an EMP burst caught.
EffectsLastTheirDuration == world.tick > 0 =>
  LET t == world.tick - 1
      live(s, p) == p \in DOMAIN began[s] /\ t \in began[s][p]..(began[s][p] + Config.duration[p] - 1)
      holders(p) == {s \in Ships : live(s, p)}
  IN /\ {c.owner : c \in world.clouds} = holders("smoke_screen")
     /\ {d.owner : d \in world.decoys} = holders("decoy_flare")
     /\ \A e \in world.clouds \cup world.decoys : e.until > t
     /\ \A s \in Ships, p \in PowerupId \ InWorld :
          IF p = "silent_running"
          THEN ActiveAt(world.ships[s], p, t) => live(s, p)
          ELSE ActiveAt(world.ships[s], p, t) <=> live(s, p)
     /\ \A s \in Ships : world.ships[s].emp > t => holders("emp_burst") \ {s} # {}

LeftOf(s, p) ==
  LET own == world.ships[s].selected
  IN IF \E i \in DOMAIN own : own[i] = p
     THEN frames[s].left[CHOOSE i \in DOMAIN own : own[i] = p] ELSE 0

\* What a tick frame tells a bot is what its next tick will do (unless someone activates a
\* powerup in between): the gun fires if the frame shows no cooldown and some ammunition,
\* and is then blocked for as long as the multipliers announced make it; a jammed radar
\* shows nothing; repairs go on exactly while the frame says so.
FramesKeepTheirWord ==
  [][ \A s \in DOMAIN frames :
        (world'.tick = world.tick + 1 /\ frames[s].tick = world.tick
           /\ s \in DOMAIN frames' /\ frames'[s].tick = world'.tick /\ began' = began)
        => LET f == frames[s]
               g == frames'[s]
               shot == stats'[s].shots > stats[s].shots
           IN /\ shot <=> /\ s \in DOMAIN orders' /\ orders'[s].fire # {}
                          /\ f.cooldown = 0 /\ f.ammo > 0
              /\ g.cooldown = IF shot
                   THEN Greatest(0, EffectiveCooldown(LeftOf(s, "rapid_fire") > 0, f.emp > 0) - 1)
                   ELSE Greatest(0, f.cooldown - 1)
              /\ f.emp > 0 /\ g.mode = "active" => \A c \in g.contacts : c[1] = "trace"
              /\ g.hit = 0 /\ world'.ships[s].course = 0
                   => g.hp = IF LeftOf(s, "repair_drones") > 0
                             THEN Least(f.hp + Config.regen, Config.hull) ELSE f.hp
    ]_vars

\* While a counter-battery trace reveals a ship, it is the one whose shell last hit the
\* bot while the trace was armed; it is shown for `reveal` sweeps after that hit, and no
\* longer, and a bot never traces itself.
TraceIsTrue ==
  \A s \in DOMAIN frames : frames[s].tick = world.tick =>
    LET t == world.tick - 1
        p == "counter_battery_trace"
        armed == {i \in DOMAIN blows :
                    /\ blows[i].ship = s /\ blows[i].by # s /\ p \in DOMAIN began[s]
                    /\ blows[i].at \in began[s][p]..(began[s][p] + Config.duration[p] - 1)}
        last  == {blows[i] : i \in {j \in armed : \A k \in armed : k <= j}}
    IN {c \in frames[s].contacts : c[1] = "trace"}
         = {<<"trace", h.by>> : h \in {x \in last : t < x.at + Config.reveal}}

\* A ship out of engine range is heard exactly when its radar was on in the frame before,
\* and it is not silent: not when it is switched on now, and not when it was on in an
\* earlier match.
HeardIsPinged ==
  [][ \A s \in DOMAIN frames' : \A x \in Ships \ {s} :
        (/\ phase' = "Running" /\ frames'[s].tick = world'.tick /\ frames'[s].mode = "passive"
         /\ world'.tick = world.tick + 1
         /\ Dist(world'.ships[s].place, world'.ships[x].place) > Config.hearNear)
        => (<<"heard", x>> \in frames'[s].contacts
              <=> /\ x \in DOMAIN frames /\ frames[x].tick = world.tick
                  /\ frames[x].mode = "active" /\ world'.ships[x].alive
                  /\ ~ActiveAt(world'.ships[x], "silent_running", world.tick)
                  /\ Dist(world'.ships[s].place, world'.ships[x].place) <= Config.hearActive)
    ]_vars

Elements(q) == {q[i] : i \in DOMAIN q}
Outcome(w) ==
  <<[s \in Ships |-> IF w.ships[s].alive THEN [w.ships[s] EXCEPT !.attacker = {}] ELSE NewShip],
    Elements(w.shells), w.clouds, w.decoys>>

\* The orders of one tick have the same outcome whatever the bot ids: handled the other way
\* round they leave the same ships afloat in the same state, and the same shells, clouds
\* and decoys.
OrderDoesNotDecide ==
  [][ world'.tick = world.tick + 1
        => \E out \in Simulations(world, orders', Reverse(Roster)) :
             Outcome(out.world) = Outcome(world')
    ]_vars

Total(f) == FoldLeft(LAMBDA n, s : n + f[s], 0, Roster)

\* Kills are credited once for every ship sunk by a shell, and for no other loss; every
\* shell fired is in flight or has gone off once, hitting each ship at most once; damage
\* dealt is damage taken.
KillsMatchSinkings ==
  LET kills == [s \in Ships |-> stats[s].kills]
      hits  == [s \in Ships |-> stats[s].hits]
      shots == [s \in Ships |-> stats[s].shots]
      dealt == [s \in Ships |-> stats[s].dealt]
      taken == [s \in Ships |-> stats[s].taken]
  IN /\ Total(kills) = Cardinality({s \in Ships : lost[s] = "sunk"})
     /\ Total(hits) <= Cardinality(Ships) * (Total(shots) - Len(world.shells))
     /\ Total(dealt) = Total(taken)

Abstract == INSTANCE Hulls WITH
  FullHull <- Config.hull, Magazine <- Config.ammo,
  afloat <- Alive(world), hull <- [s \in Ships |-> world.ships[s].hp],
  rounds <- [s \in Ships |-> world.ships[s].ammo], decided <- (phase = "Ended")

\* The simulation is what the room takes it for.
BattleIsHulls == Abstract!Spec

\* broadcast_spectator_world's comment: the frame of the tick that ends a match is sent
\* regardless of the throttle.
FinalFrameIsShown == phase = "Ended" => screen.tick = world.tick
=============================================================================
