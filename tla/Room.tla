------------------------------- MODULE Room -------------------------------
(***************************************************************************)
(* The life of the room (server/src/room.rs): the roster of bots, their    *)
(* acknowledgement of the configuration, the match that starts, runs, ends *)
(* and gives way to the lobby, the Monte Carlo batch that chains matches,  *)
(* the round of the training history and the replay log that follow each   *)
(* match.                                                                  *)
(*                                                                         *)
(* The room is one task: every RoomEvent is handled, and every tick is     *)
(* stepped, to its end before the next.  One action is therefore one event *)
(* or one call of step_tick.  The concurrency is in the order of the       *)
(* events: what a connection task or the operator sent is handled at any   *)
(* later time, so an event may name a bot that has left or a configuration *)
(* that has been replaced.  Events the room refuses change nothing here    *)
(* and are left out.                                                       *)
(*                                                                         *)
(* The simulation is abstracted to what a match is decided on: a step      *)
(* leaves each ship afloat with some hull and ammunition, or sinks it.     *)
(***************************************************************************)
EXTENDS Integers, FiniteSets, Sequences

CONSTANTS
  Names,         \* names bots may register under
  MaxBots,       \* room capacity
  Configs,       \* balance parameter sets (SimConfig values)
  InitialConfig, \* the one the server starts with
  Loadouts,      \* powerup selections a bot may commit to
  NoLoadout,     \* the empty selection
  HullHp,        \* hull points of a fresh ship
  Magazine,      \* ammunition of a fresh ship
  MatchTimeout,  \* MATCH_TIMEOUT_TICKS
  PostGame,      \* POST_GAME_LOBBY_TICKS
  Tournament,    \* tournament mode
  \* Bounds of the model:
  MaxIndex,      \* registrations ever made
  MaxRevision,   \* configuration revisions
  MaxMatches,    \* matches ever started
  MaxBatch,      \* n_matches of a Monte Carlo run
  IdleTicks      \* ticks counted in the lobby

ASSUME RoomAssumption ==
  /\ MaxBots \in Nat \ {0}
  /\ InitialConfig \in Configs
  /\ NoLoadout \in Loadouts
  /\ HullHp \in Nat \ {0}
  /\ Magazine \in Nat
  /\ MatchTimeout \in Nat \ {0}
  /\ PostGame \in Nat \ {0}
  /\ Tournament \in BOOLEAN
  /\ {MaxIndex, MaxRevision, MaxMatches, MaxBatch, IdleTicks} \subseteq Nat

\* Bot b_n is the number n; its ship s_n is the same number in the ship table.
Ids == 1..MaxIndex
NoBot == 0

VARIABLES
  state, tick,
  roster,      \* keys of `bots`
  name,        \* BotEntry.name
  gone,        \* bots whose BotEntry.disconnected is set
  ready,       \* bots whose BotEntry.ready is set
  acked,       \* the configuration each ready bot acknowledged (history, kept while ready)
  selected,    \* BotEntry.selected_powerups
  nextIndex,
  ships,       \* keys of world.ships
  alive,       \* ships afloat
  hp, ammo,
  fitted,      \* Ship.powerups.selected
  played,      \* ticks of its match each ship took part in (history)
  config, revision, seed,
  matchId,     \* the number of the current match, 0 before the first
  starters,    \* keys of match_stats
  startCount,  \* starting_bot_count
  endTick, lastWinner, report,
  mc, mcStop, mcSaved, mcStatus,
  round,       \* current_round
  openRounds,  \* matches whose round is "running" in the training store
  writer,      \* the open replay log
  replayId,    \* the match `replay_id` was generated for, 0 before the first log
  lastLog,     \* the replay log of the match reported last, if it had one
  configured,  \* the parameters the operator chose last (history)
  gameOvers    \* calls of broadcast_game_over (history)

rosterVars == <<roster, name, gone, ready, acked, selected, nextIndex>>
shipVars   == <<ships, alive, hp, ammo, fitted, played>>
setupVars  == <<config, revision, seed, configured>>
matchVars  == <<matchId, starters, startCount, endTick, lastWinner, report>>
batchVars  == <<mc, mcStop, mcSaved, mcStatus>>
logVars    == <<round, openRounds, writer, replayId, lastLog, gameOvers>>
vars == <<state, tick, rosterVars, shipVars, setupVars, matchVars, batchVars, logVars>>

NoTick   == -1
NoName   == "none"
NoReport == [match |-> 0]
NoRun    == [n |-> 0]
NoSave   == [saved |-> FALSE]
NoStatus == [reason |-> "none"]
NoRound  == 0
NoLog    == [match |-> 0]

OperatorSeed == [kind |-> "operator", n |-> 0]
FreshSeed    == [kind |-> "tournament", n |-> 0]
BatchSeed(i) == [kind |-> "batch", n |-> i]

Unanswered == <<0, InitialConfig>>

\* config_hash: what a bot echoes in `ready`.
ConfigHash == <<revision, config>>

Init ==
  /\ state = "Lobby" /\ tick = 0
  /\ roster = {} /\ gone = {} /\ ready = {} /\ nextIndex = 1
  /\ name = [b \in Ids |-> NoName]
  /\ acked = [b \in Ids |-> Unanswered]
  /\ selected = [b \in Ids |-> NoLoadout]
  /\ ships = {} /\ alive = {}
  /\ hp = [b \in Ids |-> 0] /\ ammo = [b \in Ids |-> 0]
  /\ fitted = [b \in Ids |-> NoLoadout] /\ played = [b \in Ids |-> 0]
  /\ config = InitialConfig /\ configured = InitialConfig
  /\ revision = 1 /\ seed = OperatorSeed
  /\ matchId = 0 /\ starters = {} /\ startCount = 0
  /\ endTick = NoTick /\ lastWinner = NoBot /\ report = NoReport
  /\ mc = NoRun /\ mcStop = FALSE /\ mcSaved = NoSave /\ mcStatus = NoStatus
  /\ round = NoRound /\ openRounds = {}
  /\ writer = NoLog /\ replayId = 0 /\ lastLog = NoLog /\ gameOvers = 0

-----------------------------------------------------------------------------
(* The outcome of a match, decided on the ships as a tick left them. *)

Outranks(a, b, h, am) == h[a] > h[b] \/ (h[a] = h[b] /\ am[a] > am[b])

\* The ships whose (hp, ammo) is the best of those afloat.
Leaders(al, h, am) == {b \in al : \A c \in al : ~Outranks(c, b, h, am)}

LastStanding(al) == startCount >= 2 /\ Cardinality(al) <= 1

MatchOver(al, t) == LastStanding(al) \/ t >= MatchTimeout

\* match_outcome: the sole survivor, or at the timeout the leader if there is but one.
Winner_Latest(al, h, am) ==
  LET first == IF LastStanding(al) THEN al ELSE Leaders(al, h, am)
  IN  IF first = {} THEN NoBot ELSE CHOOSE b \in first : \A c \in first : c <= b
Winner(al, h, am) ==
  LET first == IF LastStanding(al) THEN al ELSE Leaders(al, h, am)
  IN  IF \E b \in first : first = {b} THEN CHOOSE b \in first : TRUE ELSE NoBot

EndReason(aborted, al, winner) ==
  IF aborted THEN "operator_abort"
  ELSE IF LastStanding(al)
       THEN IF winner # NoBot THEN "last_survivor" ELSE "no_survivors"
       ELSE "timeout"

\* Every participant has a row, connected or not.
ReportRows_Connected == roster \ gone
ReportRows == roster

\* build_match_report at tick t, with the bots in gn forfeited and al afloat.
BuildReport(winner, aborted, al, h, am, gn, t) ==
  [match |-> matchId, winner |-> winner, ticks |-> t,
   outcome |-> IF aborted THEN "aborted" ELSE IF winner # NoBot THEN "winner" ELSE "draw",
   reason |-> EndReason(aborted, al, winner),
   bots |-> ReportRows, survivors |-> al, forfeited |-> gn,
   hp |-> [b \in roster |-> h[b]], ammo |-> [b \in roster |-> am[b]],
   round |-> round, replay |-> replayId]

\* training.finish: the report's round, if it is tagged and was begun.
FinishRound_Lost(rep) == UNCHANGED openRounds
FinishRound(rep) ==
  openRounds' = IF rep.round = NoRound THEN openRounds ELSE openRounds \ {rep.match}

\* The replay log of a match: the header's fields, the forfeits in order, the end.
Header == [match |-> matchId', seed |-> seed', config |-> config',
           roster |-> roster, loadouts |-> selected,
           drops |-> <<>>]

\* write_replay_disconnect: the bot and the tick the world stands at.
Drop_NextTick(log, b) ==
  IF log = NoLog THEN log ELSE [log EXCEPT !.drops = Append(@, [bot |-> b, tick |-> tick + 1])]
Drop(log, b) ==
  IF log = NoLog THEN log ELSE [log EXCEPT !.drops = Append(@, [bot |-> b, tick |-> tick])]

\* The log is sealed with the result.
Sealed(log, rep) ==
  IF log = NoLog THEN NoLog
  ELSE [log |-> log, tick |-> rep.ticks, winner |-> rep.winner,
        outcome |-> rep.outcome, reason |-> rep.reason]

\* broadcast_game_over, with the report just built.
BroadcastGameOver(rep, log) ==
  /\ report' = rep
  /\ FinishRound(rep)
  /\ gameOvers' = gameOvers + 1
  /\ lastLog' = Sealed(log, rep)

(* abort_match, reached with the bots in gn forfeited and al afloat. *)
AbortMatch(al, h, gn, log) ==
  /\ state' = "Ended"
  /\ endTick' = tick
  /\ lastWinner' = NoBot
  /\ BroadcastGameOver(BuildReport(NoBot, TRUE, al, h, ammo, gn, tick), log)
  /\ writer' = NoLog
  /\ UNCHANGED <<matchId, starters, startCount, round, replayId, tick>>

-----------------------------------------------------------------------------
(* The Monte Carlo controller. *)

\* restore_after_monte_carlo
RestoreAfterMonteCarlo_SeedOnly ==
  /\ seed' = IF mcSaved = NoSave THEN seed ELSE mcSaved.seed
  /\ UNCHANGED config
  /\ mcSaved' = NoSave
  /\ mcStop' = FALSE
RestoreAfterMonteCarlo ==
  /\ seed' = IF mcSaved = NoSave THEN seed ELSE mcSaved.seed
  /\ config' = IF mcSaved = NoSave THEN config ELSE mcSaved.config
  /\ mcSaved' = NoSave
  /\ mcStop' = FALSE

Status(run, why) == [reason |-> why, completed |-> run.index, total |-> run.n,
                     wins |-> run.wins, draws |-> run.draws]

\* mc_finalize and the end of mc_abort: publish the status and drop the run.
DropRun_Kept(run, why) ==
  /\ mc' = run
  /\ mcStatus' = Status(run, why)
  /\ RestoreAfterMonteCarlo
DropRun(run, why) ==
  /\ mc' = NoRun
  /\ mcStatus' = Status(run, why)
  /\ RestoreAfterMonteCarlo

\* mc_record_match_end
Recorded_WinsOnly(run, winner) ==
  [run EXCEPT !.index = @ + 1, !.wins = @ + 1,
              !.draws = IF winner = NoBot THEN @ + 1 ELSE @]
Recorded(run, winner) ==
  [run EXCEPT !.index = @ + 1,
              !.wins  = IF winner # NoBot THEN @ + 1 ELSE @,
              !.draws = IF winner = NoBot THEN @ + 1 ELSE @]

\* mc_advance_after_match
Continues(run) == ~mcStop /\ run.index < run.n /\ Cardinality(roster) >= 2
EndedBecause(run) == IF mcStop THEN "stopped"
                     ELSE IF run.index < run.n THEN "bot_disconnected" ELSE "completed"

-----------------------------------------------------------------------------
(* Starting a match. *)

\* apply_match_layout: fresh hulls, fresh statistics, a new replay log (which may
\* fail to open; the match then runs without one).
ApplyMatchLayout(logOpens) ==
  /\ UNCHANGED <<ships, rosterVars>>
  /\ matchId' = matchId + 1
  /\ tick' = 0 /\ state' = "Running"
  /\ LET crewed == roster \cap ships  \* reset_for_round on the ship of every bot
     IN  /\ alive' = alive \cup crewed
         /\ hp' = [b \in Ids |-> IF b \in crewed THEN HullHp ELSE hp[b]]
         /\ ammo' = [b \in Ids |-> IF b \in crewed THEN Magazine ELSE ammo[b]]
         /\ fitted' = [b \in Ids |-> IF b \in crewed THEN selected[b] ELSE fitted[b]]
  /\ played' = [b \in Ids |-> 0]
  /\ startCount' = Cardinality(roster)
  /\ starters' = roster
  /\ lastWinner' = NoBot /\ endTick' = NoTick
  /\ writer' = IF logOpens THEN Header ELSE NoLog
  /\ lastLog' = NoLog
  /\ replayId' = IF logOpens THEN matchId' ELSE replayId

\* training.begin: no round without an active session, or a refusal (storage or limits).
TrainingBegin == {"untagged", "tagged", "refused"}

OperatorStart(begin, logOpens) ==
  /\ matchId < MaxMatches
  /\ state = "Lobby"
  /\ roster # {} /\ roster \subseteq ready
  /\ seed' = IF Tournament THEN FreshSeed ELSE seed
  /\ UNCHANGED <<config, revision, configured, batchVars>>
  /\ \/ /\ begin = "refused"
        /\ UNCHANGED <<state, tick, rosterVars, shipVars, matchVars, logVars>>
     \/ /\ begin # "refused"
        /\ ApplyMatchLayout(logOpens)
        /\ round' = IF begin = "tagged" THEN matchId' ELSE NoRound
        /\ openRounds' = IF begin = "tagged" THEN openRounds \cup {matchId'} ELSE openRounds
        /\ report' = NoReport
        /\ UNCHANGED gameOvers

\* start_monte_carlo; `override` is the optional sim_config of the request.
StartMonteCarlo(n, override, logOpens) ==
  /\ matchId + n <= MaxMatches
  /\ ~Tournament
  /\ state = "Lobby"
  /\ mc = NoRun
  /\ Cardinality(ready) >= 2 /\ ready = roster
  /\ mcSaved' = [saved |-> TRUE, seed |-> seed, config |-> config]
  /\ mcStop' = FALSE
  /\ config' = override
  /\ mc' = [n |-> n, index |-> 0, wins |-> 0, draws |-> 0]
  /\ mcStatus' = NoStatus
  /\ seed' = BatchSeed(0)
  /\ ApplyMatchLayout(logOpens)
  /\ round' = NoRound
  /\ report' = NoReport
  /\ UNCHANGED <<revision, configured, openRounds, gameOvers>>

-----------------------------------------------------------------------------
(* step_tick *)

\* What the simulation may make of the ships in one tick: hulls are damaged or
\* repaired, at most one shot is fired by a ship, and the dead stay dead.
Damage == [alive -> 0..HullHp]
Shots  == SUBSET {b \in alive : ammo[b] > 0}

HpAfter(dmg)     == [b \in Ids |-> IF b \in alive THEN dmg[b] ELSE hp[b]]
AmmoAfter(shots) == [b \in Ids |-> IF b \in shots THEN ammo[b] - 1 ELSE ammo[b]]
Afloat(dmg)      == {b \in alive : dmg[b] > 0}
PlayedAfter      == [b \in Ids |-> IF b \in roster \ gone THEN played[b] + 1 ELSE played[b]]

\* The bots that stay when a match is over: those still connected.
Remaining_All == roster
Remaining == roster \ gone

\* transition_to_lobby, leaving the tick counter at t.
TransitionToLobby(t) ==
  /\ state' = "Lobby" /\ tick' = t
  /\ roster' = Remaining /\ ships' = ships \ gone
  /\ gone' = {} /\ ready' = {} /\ acked' = [b \in Ids |-> Unanswered]
  /\ name' = [b \in Ids |-> IF b \in gone THEN NoName ELSE name[b]]
  /\ selected' = [b \in Ids |-> NoLoadout]
  /\ alive' = (roster' \cap ships') \cup ((alive \cap ships') \ roster')
  /\ hp' = [b \in Ids |-> IF b \in gone THEN 0 ELSE IF b \in roster THEN HullHp ELSE hp[b]]
  /\ ammo' = [b \in Ids |-> IF b \in gone THEN 0 ELSE IF b \in roster THEN Magazine ELSE ammo[b]]
  /\ fitted' = [b \in Ids |-> NoLoadout] /\ played' = [b \in Ids |-> 0]
  /\ startCount' = 0 /\ endTick' = NoTick
  /\ mc' = NoRun
  /\ RestoreAfterMonteCarlo
  /\ UNCHANGED <<nextIndex, revision, configured, matchId, starters, lastWinner, report, mcStatus, logVars>>

\* The tick counter is unbounded in the code.  In the lobby nothing reads it, and
\* after a match only the end of the pause; here it stays at a bound beyond that.
IdleBound == IF state = "Lobby" THEN IdleTicks ELSE MatchTimeout + PostGame

\* step_tick while no match runs: the post-game pause, then an idle tick.
StepIdle_Decided ==
  /\ state # "Running"
  /\ IF state = "Ended" /\ lastWinner # NoBot /\ tick - endTick >= PostGame
     THEN TransitionToLobby(1)
     ELSE /\ tick' = IF tick < IdleBound THEN tick + 1 ELSE tick
          /\ UNCHANGED <<state, rosterVars, shipVars, setupVars, matchVars, batchVars, logVars>>
StepIdle ==
  /\ state # "Running"
  /\ IF state = "Ended" /\ mc = NoRun /\ endTick # NoTick /\ tick - endTick >= PostGame
     THEN TransitionToLobby(1)
     ELSE /\ tick' = IF tick < IdleBound THEN tick + 1 ELSE tick
          /\ UNCHANGED <<state, rosterVars, shipVars, setupVars, matchVars, batchVars, logVars>>

\* The tick that decides nothing: everyone alive gets a tick frame.
StepContinue(dmg, shots) ==
  /\ state = "Running"
  /\ ~MatchOver(Afloat(dmg), tick + 1)
  /\ tick' = tick + 1
  /\ hp' = HpAfter(dmg) /\ ammo' = AmmoAfter(shots) /\ alive' = Afloat(dmg)
  /\ played' = PlayedAfter
  /\ UNCHANGED <<state, rosterVars, ships, fitted, setupVars, matchVars, batchVars, logVars>>

\* The tick that ends the match, up to the end of broadcast_game_over.
DecidedBy(dmg, shots) == Winner(Afloat(dmg), HpAfter(dmg), AmmoAfter(shots))

FinalReport(dmg, shots) ==
  BuildReport(DecidedBy(dmg, shots), FALSE, Afloat(dmg), HpAfter(dmg), AmmoAfter(shots),
              gone, tick + 1)

\* The deciding tick of a match that is not followed by another.
StepFinish(dmg, shots) ==
  /\ state = "Running"
  /\ MatchOver(Afloat(dmg), tick + 1)
  /\ tick' = tick + 1
  /\ hp' = HpAfter(dmg) /\ ammo' = AmmoAfter(shots) /\ alive' = Afloat(dmg)
  /\ played' = PlayedAfter
  /\ state' = "Ended" /\ endTick' = tick + 1
  /\ lastWinner' = DecidedBy(dmg, shots)
  /\ BroadcastGameOver(FinalReport(dmg, shots), writer)
  /\ writer' = NoLog
  /\ \/ /\ mc = NoRun
        /\ UNCHANGED <<batchVars, config, seed>>
     \/ /\ mc # NoRun
        /\ LET run == Recorded(mc, DecidedBy(dmg, shots))
           IN  ~Continues(run) /\ DropRun(run, EndedBecause(run))
  /\ UNCHANGED <<rosterVars, ships, fitted, revision, configured,
                 matchId, starters, startCount, round, replayId>>

\* The deciding tick of a batch match that chains to the next: the report is
\* published, the log closed, and mc_begin_next_match starts over in one step.
StepChain(dmg, shots, logOpens) ==
  LET rep == FinalReport(dmg, shots)
      run == Recorded(mc, rep.winner)
  IN  /\ state = "Running"
      /\ mc # NoRun /\ Continues(run)
      /\ MatchOver(Afloat(dmg), tick + 1)
      /\ mc' = run
      /\ seed' = BatchSeed(run.index)
      /\ UNCHANGED <<config, revision, configured, mcStop, mcSaved, mcStatus>>
      /\ FinishRound(rep)
      /\ gameOvers' = gameOvers + 1
      /\ ApplyMatchLayout(logOpens)
      /\ round' = NoRound
      /\ report' = NoReport

-----------------------------------------------------------------------------
(* Events of the connections and of the operator. *)

\* insert_registered_bot, for a request whose sender still waits for the reply.
\* Otherwise the new bot is removed again; only its id is spent.
BotConnect(n, awaited) ==
  /\ nextIndex <= MaxIndex
  /\ state = "Lobby"
  /\ Cardinality(roster) < MaxBots
  /\ \A b \in roster : name[b] # n
  /\ nextIndex' = nextIndex + 1
  /\ IF awaited
     THEN /\ roster' = roster \cup {nextIndex} /\ ships' = ships \cup {nextIndex}
          /\ name' = [name EXCEPT ![nextIndex] = n]
          /\ alive' = alive \cup {nextIndex}
          /\ hp' = [hp EXCEPT ![nextIndex] = HullHp]
          /\ ammo' = [ammo EXCEPT ![nextIndex] = Magazine]
     ELSE UNCHANGED <<roster, ships, name, alive, hp, ammo>>
  /\ UNCHANGED <<state, tick, gone, ready, acked, selected, fitted, played,
                 setupVars, matchVars, batchVars, logVars>>

Acknowledges_SameValues(hash) == hash[2] = config
Acknowledges(hash) == hash = ConfigHash

\* BotReadyChecked: only the current configuration may be acknowledged.
BotReadyChecked(b, hash) ==
  /\ state = "Lobby"
  /\ Acknowledges(hash)
  /\ b \in roster
  /\ ready' = ready \cup {b}
  /\ acked' = [acked EXCEPT ![b] = hash]
  /\ UNCHANGED <<state, tick, roster, name, gone, selected, nextIndex,
                 shipVars, setupVars, matchVars, batchVars, logVars>>

\* handle_select_powerups
SelectPowerups(b, loadout) ==
  /\ b \in roster
  /\ state = "Lobby"
  /\ selected' = [selected EXCEPT ![b] = loadout]
  /\ UNCHANGED <<state, tick, roster, name, gone, ready, acked, nextIndex,
                 shipVars, setupVars, matchVars, batchVars, logVars>>

\* remove_bot_and_ship
RemoveBotAndShip(b) ==
  /\ roster' = roster \ {b} /\ gone' = gone \ {b} /\ ready' = ready \ {b}
  /\ acked' = [acked EXCEPT ![b] = Unanswered]
  /\ selected' = [selected EXCEPT ![b] = NoLoadout]
  /\ ships' = ships \ {b} /\ alive' = alive \ {b}
  /\ hp' = [hp EXCEPT ![b] = 0] /\ ammo' = [ammo EXCEPT ![b] = 0]
  /\ fitted' = [fitted EXCEPT ![b] = NoLoadout]
  /\ name' = [name EXCEPT ![b] = NoName]
  /\ UNCHANGED <<nextIndex, played>>

\* forfeit_bot: the hull stays in the world, sunk.
ForfeitBot_Afloat(b) ==
  /\ gone' = gone \cup {b} /\ ready' = ready \ {b} /\ acked' = [acked EXCEPT ![b] = Unanswered]
  /\ UNCHANGED <<roster, name, selected, nextIndex, shipVars>>
ForfeitBot(b) ==
  /\ gone' = gone \cup {b} /\ ready' = ready \ {b} /\ acked' = [acked EXCEPT ![b] = Unanswered]
  /\ alive' = alive \ {b} /\ hp' = [hp EXCEPT ![b] = 0]
  /\ UNCHANGED <<roster, name, selected, nextIndex, ships, ammo, fitted, played>>

\* handle_bot_disconnect, for a closed connection and for OperatorKick.
BotDisconnect(b) ==
  /\ b \in roster \ gone
  /\ \/ /\ state # "Running"
        /\ RemoveBotAndShip(b)
        /\ IF mc = NoRun
           THEN UNCHANGED <<batchVars, config, seed>>
           ELSE DropRun(mc, "bot_disconnected")
        /\ UNCHANGED <<state, tick, matchVars, logVars>>
     \/ /\ state = "Running" /\ mc = NoRun
        /\ ForfeitBot(b)
        /\ writer' = Drop(writer, b)
        /\ UNCHANGED <<state, tick, matchVars, batchVars, config, seed,
                       round, openRounds, replayId, lastLog, gameOvers>>
     \/ /\ state = "Running" /\ mc # NoRun
        /\ ForfeitBot(b)
        /\ AbortMatch(alive \ {b}, [hp EXCEPT ![b] = 0], gone \cup {b}, Drop(writer, b))
        /\ DropRun(mc, "bot_disconnected")
  /\ UNCHANGED <<revision, configured>>

\* configure
Configure(c) ==
  /\ revision < MaxRevision
  /\ state = "Lobby"
  /\ config' = c /\ configured' = c
  /\ revision' = revision + 1
  /\ ready' = {} /\ acked' = [b \in Ids |-> Unanswered]
  /\ UNCHANGED <<state, tick, roster, name, gone, selected, nextIndex, seed,
                 shipVars, matchVars, batchVars, logVars>>

\* OperatorAbort: outside a batch abort_match, within one mc_abort.
OperatorAbort ==
  /\ state = "Running" \/ mc # NoRun
  /\ IF state = "Running"
     THEN AbortMatch(alive, hp, gone, writer)
     ELSE UNCHANGED <<state, tick, matchVars, logVars>>
  /\ IF mc = NoRun
     THEN UNCHANGED <<batchVars, config, seed>>
     ELSE DropRun(mc, "operator_abort")
  /\ UNCHANGED <<rosterVars, shipVars, revision, configured>>

\* reset_to_lobby
OperatorReset ==
  /\ state = "Ended"
  /\ TransitionToLobby(0)

\* stop_monte_carlo
StopMonteCarlo(force) ==
  /\ mc # NoRun
  /\ \/ /\ ~force
        /\ mcStop' = TRUE
        /\ UNCHANGED <<state, tick, mc, mcSaved, mcStatus, config, seed, matchVars, logVars>>
     \/ /\ force
        /\ IF state = "Running"
           THEN AbortMatch(alive, hp, gone, writer)
           ELSE UNCHANGED <<state, tick, matchVars, logVars>>
        /\ DropRun(mc, "stopped")
  /\ UNCHANGED <<rosterVars, shipVars, revision, configured>>

StepTick ==
  \/ StepIdle
  \/ \E dmg \in Damage, shots \in Shots :
       \/ StepContinue(dmg, shots)
       \/ StepFinish(dmg, shots)
       \/ \E logOpens \in BOOLEAN : StepChain(dmg, shots, logOpens)

HandleEvent ==
  \/ \E n \in Names, awaited \in BOOLEAN : BotConnect(n, awaited)
  \/ \E b \in Ids, r \in 1..MaxRevision, c \in Configs : BotReadyChecked(b, <<r, c>>)
  \/ \E b \in Ids, l \in Loadouts : SelectPowerups(b, l)
  \/ \E b \in Ids : BotDisconnect(b)
  \/ \E c \in Configs : Configure(c)
  \/ \E begin \in TrainingBegin, logOpens \in BOOLEAN : OperatorStart(begin, logOpens)
  \/ OperatorAbort
  \/ OperatorReset
  \/ \E n \in 1..MaxBatch, c \in Configs, logOpens \in BOOLEAN : StartMonteCarlo(n, c, logOpens)
  \/ \E force \in BOOLEAN : StopMonteCarlo(force)

Next == StepTick \/ HandleEvent

Spec == Init /\ [][Next]_vars

\* run_room steps the room for ever: by the ticker, or in a batch as soon as every
\* command is in and at the latest at the per-tick deadline.
FairSpec == Spec /\ WF_vars(StepTick)
-----------------------------------------------------------------------------
(* Properties *)

Seeds == [kind : {"operator", "tournament", "batch"}, n : Nat]

Runs  == [n : Nat, index : Nat, wins : Nat, draws : Nat]
Saves == [saved : {TRUE}, seed : Seeds, config : Configs]
Drops == [bot : Ids, tick : Nat]
Logs  == [match : Nat, seed : Seeds, config : Configs, roster : SUBSET Ids,
          loadouts : [Ids -> Loadouts], drops : Seq(Drops)]

RosterTyped ==
  /\ roster \subseteq Ids /\ gone \subseteq Ids /\ ready \subseteq Ids
  /\ name \in [Ids -> Names \cup {NoName}]
  /\ acked \in [Ids -> Nat \X Configs]
  /\ selected \in [Ids -> Loadouts]
  /\ nextIndex \in Nat \ {0}

ShipsTyped ==
  /\ ships \subseteq Ids /\ alive \subseteq Ids
  /\ hp \in [Ids -> 0..HullHp] /\ ammo \in [Ids -> 0..Magazine]
  /\ fitted \in [Ids -> Loadouts] /\ played \in [Ids -> Nat]

SetupTyped ==
  config \in Configs /\ configured \in Configs /\ revision \in Nat /\ seed \in Seeds

MatchTyped ==
  /\ matchId \in Nat /\ starters \subseteq Ids /\ startCount \in Nat
  /\ endTick \in Nat \cup {NoTick} /\ lastWinner \in Ids \cup {NoBot}

BatchTyped == mc \in {NoRun} \cup Runs /\ mcStop \in BOOLEAN /\ mcSaved \in {NoSave} \cup Saves

LogTyped ==
  /\ round \in Nat /\ openRounds \subseteq Nat /\ replayId \in Nat /\ gameOvers \in Nat
  /\ writer \in {NoLog} \cup Logs

TypeOK ==
  /\ state \in {"Lobby", "Running", "Ended"} /\ tick \in Nat
  /\ RosterTyped /\ ShipsTyped /\ SetupTyped /\ MatchTyped /\ BatchTyped /\ LogTyped

\* A bot counts as ready in the lobby only for the configuration in force: whatever
\* the order of ready frames, configuration changes, matches and batches, no start
\* can involve a bot that accepted other rules (BotReadyChecked, configure).
ReadyAcknowledged ==
  state = "Lobby" => \A b \in ready : acked[b] = ConfigHash

\* A batch exists only while one of its matches runs, so that the post-game return
\* to the lobby, which waits for the batch to be gone, cannot be blocked, and no
\* ordinary match is captured by a batch (the debug_assert of transition_to_lobby).
BatchOnlyWhileRunning == mc # NoRun => state = "Running"

\* However a batch ends (completed, stopped, aborted, a bot lost), the operator's
\* parameters and seed are back in force; while it runs they are kept aside, and
\* the seed in force is the one the result of the current match will be filed under.
OperatorSettingsRestored ==
  IF mc = NoRun
  THEN config = configured /\ (seed = OperatorSeed \/ Tournament) /\ ~mcStop
  ELSE /\ mcSaved = [saved |-> TRUE, seed |-> OperatorSeed, config |-> configured]
       /\ seed = BatchSeed(mc.index)

\* While a match runs its participants are exactly the bots it started with, each
\* with its ship and with the loadout it chose: nobody joins, leaves the tables or
\* rebinds powerups before the match is over.
RosterFrozen ==
  state = "Running" =>
    /\ roster = starters /\ ships = starters
    /\ startCount = Cardinality(starters)
    /\ \A b \in starters : fitted[b] = selected[b]

\* The report is about the latest match and has a row for every bot that started
\* it, the forfeited ones included.
ReportCoversStarters ==
  report # NoReport =>
    /\ report.match = matchId
    /\ report.bots = starters
    /\ report.survivors \cup report.forfeited \subseteq starters

\* A bot that disconnected or was kicked neither survives nor wins the match it
\* forfeited, and a winner is always among the survivors.
ForfeitNeverWins ==
  report # NoReport =>
    /\ report.forfeited \cap (report.survivors \cup {report.winner}) = {}
    /\ report.winner # NoBot => report.winner \in report.survivors

\* The clock decides at its very tick, and only between two or more ships afloat or
\* over a bot that plays alone; it gives the match to the ship that beats every other
\* one afloat, by hull or on equal hull by ammunition, and to nobody if no ship does.
ClockVerdict ==
  LET beats(a, b) == Outranks(a, b, report.hp, report.ammo)
      rivals(a)   == report.survivors \ {a}
  IN  /\ report.ticks = MatchTimeout
      /\ Cardinality(report.bots) >= 2 => Cardinality(report.survivors) >= 2
      /\ IF report.winner = NoBot
         THEN \A a \in report.survivors : \E b \in rivals(a) : ~beats(a, b)
         ELSE \A b \in rivals(report.winner) : beats(report.winner, b)

\* What decides a match is what its report says, however many ships sink, forfeit or
\* run out of time in the same tick: the clock by ClockVerdict, otherwise the last of
\* several ships wins as soon as it is alone, none if none is left, and nobody wins a
\* match that was aborted (match_outcome, build_match_report).
VerdictIsFair ==
  report # NoReport =>
    /\ report.ticks <= MatchTimeout
    /\ report.reason = "timeout" => ClockVerdict
    /\ report.reason = "last_survivor" => report.survivors = {report.winner}
    /\ report.reason = "no_survivors" => report.survivors = {} /\ report.winner = NoBot
    /\ report.reason = "operator_abort" => report.winner = NoBot
    /\ report.reason \in {"last_survivor", "no_survivors"} => Cardinality(report.bots) >= 2

\* The disconnect records of a log: one for every lost bot, in the order of their ticks,
\* none later than the tick the log has come to.  (validate_records refuses any other.)
RecordsLosses(drops, lost, upTo) ==
  /\ {drops[i].bot : i \in DOMAIN drops} = lost
  /\ \A i, j \in DOMAIN drops : i < j => /\ drops[i].bot # drops[j].bot
                                        /\ drops[i].tick <= drops[j].tick
  /\ \A i \in DOMAIN drops : drops[i].tick <= upTo

\* Each of them names the last tick its bot took part in.
RecordsLastTicks(drops) == \A i \in DOMAIN drops : drops[i].tick = played[drops[i].bot]

\* An open replay log belongs to the running match and carries what the match is
\* played with, and one disconnect record for every bot lost so far, at its last tick.
LogFollowsMatch ==
  writer # NoLog =>
    /\ state = "Running" /\ writer.match = matchId
    /\ writer.seed = seed /\ writer.config = config /\ writer.roster = roster
    /\ \A b \in roster : writer.loadouts[b] = fitted[b]
    /\ RecordsLosses(writer.drops, gone, tick) /\ RecordsLastTicks(writer.drops)

\* The replay log of the match just reported ends where and how the report says the
\* match ended, and has one record of each forfeit it reports, at the last tick the
\* forfeited bot took part in, whatever disconnects and kicks came twice or late.
LogAgreesWithReport ==
  report # NoReport /\ lastLog # NoLog =>
    /\ lastLog.log.match = report.match
    /\ lastLog.tick = report.ticks /\ lastLog.winner = report.winner
    /\ lastLog.outcome = report.outcome /\ lastLog.reason = report.reason
    /\ RecordsLosses(lastLog.log.drops, report.forfeited, lastLog.tick)
    /\ state = "Ended" => RecordsLastTicks(lastLog.log.drops)

\* The room implements the life of a match its participants are promised: fixed
\* players, one at a time, each match ended once with a winner still in it.
Life == INSTANCE MatchLife WITH
  Players <- Ids, Nobody <- NoBot, phase <- state,
  playing <- IF state = "Running" THEN roster ELSE {},
  lost    <- IF state = "Running" THEN gone ELSE {},
  begun   <- matchId, ended <- gameOvers, winner <- lastWinner
Lifecycle == Life!Spec

\* Every match is ended exactly once: game_over is broadcast, the training round
\* closed and the log sealed one time per match, on every path out of it.
OneGameOverPerMatch == gameOvers = IF state = "Running" THEN matchId - 1 ELSE matchId

\* A training round is "running" in the store exactly while its match runs.
NoOrphanRound ==
  openRounds = IF state = "Running" /\ round # NoRound THEN {matchId} ELSE {}

\* The lobby never holds a bot whose connection is lost, nor a damaged ship: every
\* path back removes the forfeited bots and refits the others.
LobbyIsClean ==
  state = "Lobby" =>
    /\ gone = {} /\ endTick = NoTick
    /\ ships = roster /\ alive = roster
    /\ \A b \in roster : hp[b] = HullHp /\ ammo[b] = Magazine

\* The published figures of a batch add up, and only a batch that played all its
\* matches is called completed.
BatchAccounting ==
  /\ mcStatus # NoStatus =>
       /\ mcStatus.wins + mcStatus.draws = mcStatus.completed
       /\ mcStatus.completed <= mcStatus.total
       /\ mcStatus.reason = "completed" => mcStatus.completed = mcStatus.total
  /\ mc # NoRun => mc.index < mc.n

\* The parameters and the seed of a match do not change while it runs.
ConfigFrozen ==
  [][state = "Running" /\ state' = "Running" /\ matchId' = matchId
     => UNCHANGED <<config, seed, revision>>]_vars

\* Nothing wedges: every batch comes to an end, and after a match the room comes back to
\* the lobby by itself, whatever ended the match.
NothingWedges == /\ (state = "Ended") ~> (state = "Lobby")
                 /\ (mc # NoRun) ~> (mc = NoRun)

\* The comment on MatchReport.replay_id: the identifier of the replay log for this
\* match, if one was written.
ReportNamesItsLog == report # NoReport => report.replay \in {0, report.match}

\* The comment in match_outcome: further ties are resolved by BotId order, the later wins.
TiesGoToLaterBot ==
  report # NoReport /\ report.reason = "timeout" =>
    LET best == {a \in report.survivors :
                  \A b \in report.survivors : ~Outranks(b, a, report.hp, report.ammo)}
    IN  best # {} => report.winner \in best /\ \A b \in best : b <= report.winner
=============================================================================
