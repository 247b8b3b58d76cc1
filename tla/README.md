# Formal models of battle-sim

battle-sim is a naval battle server: bots connect over WebSocket, an operator starts
matches, a fixed-rate simulation decides them, spectators watch, and a training history
records the results. This directory holds TLA+ models of the server (`src/server/src`),
the TLC configurations that check them, and proofs checked by TLAPS. Each definition that
models code is listed with its lines in `PROJECT.json` ("map").

## 1. Inventory

One Tokio task owns the **room** and everything about matches; one task per connection
reads frames; HTTP handlers turn requests into room events and wait for an answer. The
only state shared outside messages is the command slot of each bot (a mutex), the session
table of participants, the per-address counter, the permits, and the files.

| Component | State | Operations | Talks to | What is hard | What makes it correct |
|---|---|---|---|---|---|
| Room (`room.rs`) | lobby/running/ended, roster, ships, configuration and revision, match id, report, post-game countdown | connect, ready, select powerups, disconnect, kick, configure, start, abort, reset, `step_tick` | every other part | events arrive in any order, late or about bots that have left | matches are frozen, ended once, and leave a clean lobby |
| Monte Carlo controller (`monte_carlo.rs`, `room.rs`) | the run, its figures, saved seed and configuration | start, chain, stop, abort | room | many ways out of a batch | operator settings come back; figures add up |
| Simulation (`sim/`) | ships, shells, powerup effects, clouds, decoys, traces, who pinged | orders, movement, shells and splash, effects, contacts and frames | room, bots | expiry at a boundary, simultaneous deaths, order of the bots, state left by an earlier match | effects last as announced; frames are true; bot ids do not decide |
| Command ingress (`ingress.rs`) and pacing (`run_room`) | one window per bot, counters, the wake-up permit, the per-tick deadline | submit, open, sent, close; ticker and lockstep | connection tasks and the room task, at the same time | interleaving, lost wake-ups, time | a tick applies only commands for that tick, in time, once |
| Connections (`net.rs`) | permits, per-address counters, budgets, allowance, violations, silence, outbound channel, credential | upgrade, handshake, one biased select per message, heartbeat, shutdown | room, participants, clients | what is ready first, peers that go silent, revoked credentials, slots on every way out | slots come back; a bot that obeys is kept; a revoked one is cut |
| Participants (`participants.rs`) | session table | acquire, register, disconnect, release | room queue | time-outs racing answers, a full queue | one live connection per identity; the roster follows it |
| Training history (`training.rs`) | sessions, rounds, reports, debriefs, a revision, `dirty`/`blocked`/`error`, a JSON file | update, begin, finish, flush, load | room, operator pages, file system | failed writes, restarts, concurrent edits | what was acknowledged survives; no edit undoes another unseen |
| Replay log (`room.rs`, `replay.rs`) | the open log, its identifier | header, tick, disconnect, end; read, rebuild, drive | room, files | what must be recorded, and in which order | the replayed match is the recorded one |
| Spectator broadcast (`room.rs`, `net.rs`) | throttle, broadcast ring | one frame per tick, thinned in batches; lag | spectators | the frame that decides a match | final frames arrive |
| Diagnostics (`diagnostics.rs`) | counters per team | count, reset | ingress | counted at two ends | figures add up |
| Protocol, HTTP plane, auth, start-up | message types, tokens, arguments | parse, validate, route, shut down | all | - | - |
| Spectator web application, deployment | browser stores; scripts | - | HTTP, WebSocket | - | - |

`PROJECT.json` lists every component with what is modelled of it, and under "hazards"
each place in the code where something could go wrong that a test hardly reaches.

## 2. The models

**`Room`** - one action per `RoomEvent` and one per outcome of `step_tick`, since the room
task handles each to its end before the next. Concurrency is in the order of the events:
a `ready` may carry a configuration that was replaced since, a disconnect may follow a
kick. Variables are named after the fields: `roster`/`name`/`gone`/`ready`/`selected` are
`bots` and fields of `BotEntry`; `ships`/`alive`/`hp`/`ammo`/`fitted` are `world.ships`;
`mc`, `mcStop`, `mcSaved`, `mcStatus` are the batch; `writer` and `lastLog` are the replay
log being written, with its disconnect records (bot and tick) in order, and the one closed
last; `openRounds` is what the training store would hold as running. `acked`, `configured`,
`gameOvers` and `played` (how many ticks a bot has taken part in, which its disconnect
record is compared with) are history. The simulation is
abstracted to what decides a match: a tick leaves each ship some hull and ammunition, or
sinks it (`Damage`, `Shots`); everything the real physics can do to the hulls is included,
which `Battle` shows through `Hulls`. `StepTick` is the branches of `step_tick`: idle, a
tick that goes on, one that ends the match, and one that chains to the next of a batch.

**`MatchLife`** - what participants are promised: fixed players, one match at a time, each
ended exactly once with a winner still in it. `Room` implements it (`Lifecycle`).

**`Battle`** - the simulated tick. The world is a record and each phase of `step_tick` an
operator from one world to the next: `Ordered` (activations in the order of the bots, then
shots), `Moved`, `ShellsStepped`, `Maintained`; then the frames of the bots (contacts by
radar, by ear and by trace, remaining effects) and the one the spectators are shown. All
twelve powerups are there, with what they do to speed, cooldown, damage, range and
sensing, and the conversion of a long cooldown (`Word` stands for 2^32). Clouds and decoys
are sets of what they are, with their owners. The map is a
line of places: a bearing is a distance ahead or astern, a course a step left or right, and
floating point, noise and confidence are gone. Where the code may find a decoy at any of
several distances the outcome is a set (`Simulations`). `began`, `lost` and `blows` are
history: when each powerup was activated, how each ship was lost, and a log of the hits:
who hit whom, when, in the order in which the shells went off.
The actions are `Step`, `Forfeit` and `Rematch`, which is
`transition_to_lobby` and `apply_match_layout` together: ships, sensor modes and the list
of pingers are those of a new match, and the loadouts may change in between.

**`Hulls`** - what `Room` assumes of the simulation: hull and ammunition never grow beyond
what a ship starts with, the sunk stay sunk, nothing moves once a match is decided.
`Battle` implements it (`BattleIsHulls`).

**`Commands`** - the path of a command. The slot is a mutex, so each operation on it is a
step; the room closes and opens the windows one by one while connections submit. The room
task is a small program counter: `check`, `look` (scanning the slots), `select` (waiting),
`closing`, `opening`. Time is a flag per window (the cutoff passed or not); a frame keeps
what the clock said when it was read, which may be before the window it is submitted to
was opened. `permit` is the stored permit of `Notify`.

**`Gateway`** - each connection from its upgrade request to its end (`step`: `idle`,
`first`, `upgrading`, `hello`, `joining`, `joined`, `live`, `token`, `watching`, `leaving`,
`closing`), with the permit and the address count it holds. `handle_bot` and `handle_spectator` loop over a
*biased* select: `Order` is the order of its branches, `Ready` what is ready, and `Turn`
takes the first ready one, so a branch can be starved exactly as in the code. The client
may send well- or ill-formed messages, stop for good, or only answer what it gets. Budgets
are renewed every second (`SecondPasses`) and heartbeats come every five (`Beat`), two
clocks that are not related; a silent peer is closed at the first heartbeat after its
limit. A write succeeds or fails within its two seconds and is one step; the exception is
the close frame of a spectator at shutdown, which the code writes without a time-out
(`net.rs:1229`), so that a spectator that reads no more may stay in `closing`.
The room is there as the entries it keeps, the windows it opens and closes and the frames
it sends. An entry begins before the loop of its connection (`Enlist`, when the room
registers the bot: the connection is `joined`) and outlives it: the loop closes its ingress
(`Breaks`), sends its disconnect or gives it up (`SendDisconnect`), and only when the room
handles it (`Disconnected`), or a kick came before, is the bot no longer `listed`. Until
then every tick opens a window for it, whether or not anybody is left to answer, and its
channel takes frames as long as its task has the receiver (`Receiving`). The outbound channel
and the broadcast ring are bounded, and shutdown reaches each connection by a message of its
own.

**`Sessions`** - a connection's task (`step`: acquire the identity's session, ask for
registration, wait for the answer or time out, live, leave, send or give up the disconnect,
release the session) in parallel with the room's task, which handles one queued event at a
time. They share the bounded queue, one reply channel per registration and the session
table. The reply that arrives between a time-out and the drop of its channel is a state of
its own (`expiring`), because nobody reads it and the room does not notice. Everything that
ends a live connection, which `Gateway` details, is `Leave`. `orphans` is history: bots
whose registration or disconnect was given up.

**`Training`** - the store with its file. `copies` is the set of contents a restart may
find: a write that fails before the rename leaves it, one that fails after the rename (the
directory sync) leaves either the old or the new content, a successful one leaves only the
new. Pages (`view`) edit what they last read. A restart picks one copy and settles it on
disk, marks running rounds interrupted and flushes; an unreadable file blocks the store.

**`Replay`** - the log from both ends. The match writes a header, a record per tick that
had commands, forfeits and an end through a `BufWriter` whose flush may fail anywhere
(`disk`: the file, the buffer, whether the file ends inside a record, whether a record was
lost); the server may crash. A reader takes the file as it is at some moment, validates it,
rebuilds the room and drives it, in one go (`Capture`) or tick by tick (`Play`). The
simulation is uninterpreted (`Launch`, `Sail`, `Sunk`, `Abandon`, `Leaders`): both ends step
the same code, and what can differ is which orders and forfeits reach which step.

**MC modules** (`MCRoom`, `MCBattle`, `MCCommands`, `MCGateway`, `MCTraining`, `MCSessions`,
`MCReplay`) add model values, symmetry, small configurations, and in `MCReplay` a small
simulation that remembers everything, so that two worlds are equal only if they had the
same history. Definitions whose name ends in `_Something` next to a modelled one are slips
of the kind a change to the code could introduce; each property notices one of them.

## 3. What the runs check

| Run | Question | Properties |
|---|---|---|
| `MCRoomMatch` | ordinary matches and batches, the room being stepped for ever: late events, forfeits, aborts, refused starts, reconfiguration, logs that do not open, matches decided by hulls and by the clock | `ReportCoversStarters`, `ForfeitNeverWins`, `VerdictIsFair`, `LogAgreesWithReport`, `NoOrphanRound`, `LobbyIsClean`, `OperatorSettingsRestored`, `BatchAccounting`, `ReadyAcknowledged`, `Lifecycle`, `NothingWedges` |
| `MCBattle` | two ships, every powerup, every phase of a tick | `TypeOK`, `EffectsLastTheirDuration`, `TraceIsTrue`, `KillsMatchSinkings`, `FramesKeepTheirWord`, `HeardIsPinged`, `OrderDoesNotDecide`, `BattleIsHulls` |
| `MCCommandsPair` | two connections against the room, ordinary and batch, two matches | `AppliedIsCurrent`, `CountersAddUp`, `NoLostWakeup` |
| `MCCommandsLive` | commands that differ; a silent bot does not stop a batch | `FirstCommandWins`, `BatchMoves` |
| `MCGateway` | a bot and a spectator at one address, from upgrade to end, two matches, revocation, silence, shutdown | `TypeOK`, `SlotsAreReturned`, `PromptBotIsKept`, `RevokedIsCut`, `SilentIsLetGo` |
| `MCSessions` | three connections of two identities, time-outs, kicks, reconnects, a full queue | `OneSessionPerIdentity`, `RosterIsBacked`, `DuplicateIsOrphan`, `DepartedIsDropped` |
| `MCTraining` | two pages, any write failing, restarts at any moment | `AcknowledgedSurvives`, `ReportSurvives`, `EditSawData`, `RunningRoundIsPlayed` |
| `MCReplay` | every log a short match can leave, whole or cut, driven both ways | `TypeOK`, `ReplayIsFaithful`, `ReplayCompletes` |

All of these hold. Four more runs record where the code does not do what is written of it
(`PROJECT.json` "findings"):

- `MCRoomReplayId` - the report's `replay_id` is documented as this match's log; when the
  log cannot be opened it is the previous match's.
- `MCRoomTie` - a comment says that ships equal on hull and ammunition at the time limit
  are told apart by `BotId`, the later winning; the code names no winner, as
  `docs/PROTOCOL.md` has it ("equal best scores draw").
- `MCTrainingStale` - after a finished round could not be saved and the server restarted,
  the interrupted round gets the revision the unsaved report was shown under, so an edit
  from a page opened before the restart is accepted on data it never showed.
- `MCBattleFinal` - a comment says the tick that ends a match always reaches the
  spectators; the throttle lets only ticks with a death through, so the last frame of a
  throttled match that the clock decides is not sent.

The models also show what no property of theirs contradicts but a reader should know:

- After 8 KiB of records that could not be flushed, the log's writer drops the next record
  and goes on, and if the disk recovers the log replays as another match without an error.
  `ReplayIsFaithful` and `ReplayCompletes` except such logs (`disk.hole`).
- A command that is late because its window was closed in the meantime, between two matches
  or after the last, is answered `not_active` or `wrong_match` and counted as a violation,
  and violations add up over the whole connection. `PromptBotIsKept` is therefore about
  bots whose answers arrive while the window is open.
- A disconnect during a batch aborts the batch and the match in progress with it
  (`mc_abort`); the comment at `room.rs:1449` says that the match is not aborted and ends
  naturally. `Room` follows the code.
- A bot whose registration timed out while it was being answered (an orphan) sends no
  disconnect, and its entry keeps the name taken until it is kicked.
- `docs/PROTOCOL.md:247` says that WebSocket writes time out after two seconds. A
  spectator's close frame at shutdown does not (`net.rs:1229`); the process ends soon after.
  `SilentIsLetGo` excepts a spectator that waits there. (The close frame a client gets
  during its hello is written without a time-out of its own too, but inside that of the
  hello.)
- A replay may name 256 bots (`MAX_REPLAY_BOTS`) while nothing bounds `max_bots`: a server
  started with more places writes logs of full matches that it refuses to read.
  `ReplayAssumption` excludes such a server.

**Bounds.** Two bots are the least that fight, disagree and answer in either order. Two
matches show what one leaves to the next; two revisions, a stale acknowledgement; batches
of up to two matches, both chaining and completing. In `MCRoomMatch` two hull points and
two ticks let one ship be ahead, behind, tied or sunk with the other, before the time limit
and at it. It has no ammunition and one loadout: the tie-break on ammunition, a tie at the
top with a third ship behind, and loadouts chosen and cleared are left to the proofs
(`FairVerdict`, `Frozen`, `LogFaithful`), which cover every roster, magazine and loadout.
`MaxIndex` admits two registrations; a third bot, after one of two has left, is left to the
proofs too. `MCRoomTie` has two ships of two hull points and one round, and one tick.

In `MCBattle` a line of five places holds a ship in and out of range of shell, splash,
engine noise, radar and amplified radar; the three pairs of loadouts put each powerup next
to those it interacts with; four ticks contain the beginning, the last tick and the end of
every effect, and a rematch. Silent running ends when its ship fires, and a burst jams only
the ships within its radius, so of these two `EffectsLastTheirDuration` says only that they
do not outlast what caused them. With two ships a trace has one possible attacker and no
conversion of a cooldown leaves `Word`: who of several hit last is the matter of
`BattleTracesAreTrue`, and a wrapped cooldown only of the proofs, for every `Word`.
`MCBattleFinal` ends a match in a tick that a throttle of two skips.

In `MCCommandsPair` a window is closed and opened again only from one match to the next,
since the second tick of a match is its last: the overlaps of a submission with the closing
of one window and the opening of the next are those across two matches. The proofs of
`CommandsProofs` have no bound on ticks and cover the overlap inside a match.
`MCCommandsLive` has one match but two different commands. `MCGateway` has one permit, one
connection per address, budgets, buffers and silence of one and two violations, so each
limit is reached and passed, and two matches of one tick. That is 323,784 states; with a
second tick it is too large, so that the next window of the same match comes only in
`PromptKept`, `TypeCorrect` and `RevokedCut`, which hold of matches of any length.

In `MCTraining` one session, two matches and two pages up to revision five let every
operation, reconfiguring a session that has a round included, meet a stale page and a
restart. In `MCSessions` two connections of one identity show a reconnect and the third
keeps the queue and the room occupied; a queue of two stands for the 256 of
`ROOM_EVENT_BUFFER`, since only empty, full and what overtakes what matter. In `MCReplay`
three ticks hold a gap between two records and a forfeit on either side of it, and a buffer
of two records can be partly flushed and overflow.

`MaxIndex`, `MaxRevision`, `MaxMatches`, `MaxBatch`, `IdleTicks`, `MaxTick`, `MaxMatch` and
`MatchTicks` bound counters that only grow; each appears in a guard. Deadlock checking is
on except in `MCReplay`, where a match that is over and a finished reader have nothing left
to do, and `MCGateway`, where nothing is left after shutdown.

**Fairness.** `Room!FairSpec` steps the room for ever: outside lockstep `run_room` waits on
an interval, in lockstep on a deadline armed before each wait. `Commands!FairSpec` assumes
that the room task is scheduled and that the clock reaches an armed deadline.
`Gateway!FairSpec` assumes that each connection's task is scheduled (which includes that its
own time-outs end a handshake or a write) and that its heartbeat interval ticks.
`Sessions!FairSpec` assumes that the room keeps reading its queue and that a connection
that leaves sends its disconnect or gives it up, for which the code has a time-out.
Nothing else is assumed of connections, bots or operators.

## 4. What is proved

For all values of the constants, under the named assumptions (`RoomAssumption`,
`TrainingAssumption`, `SessionsAssumption`, `CommandsAssumption`, `GatewayAssumption`,
`ReplayAssumption`, and for `Battle` `ConfigAssumption`, `FleetAssumption` and
`BoundsAssumption`, which TLC evaluates too). The assumptions on a configuration are those
its validation makes (`SimConfig::validate`, `PowerupConfig::validate`), and `ScaleValid`:
lengths that a powerup multiplies stay positive.

- `RoomProofs`: `TypeCorrect`; `BatchBounded` and `SettingsRestored`
  (`OperatorSettingsRestored`). Neither is inductive alone: whether the settings are back
  depends on the batch being gone, and whether it is gone on the state the match is in, so
  `BatchInv` conjoins them with the type invariant. One step per action; `DropRunRestores`
  is the fact every way out of a batch shares.
- `RoomMatchProofs`: every other safety property of `Room`, among them that the roster and
  the configuration of a running match do not change (`Frozen`, `FrozenConfig`), that the log
  follows the match and it is announced over once (`LogFaithful`, `EndedOnce`), and the
  refinement of `MatchLife`. The invariant grows in layers. `CrewInv` adds `Crews`: the
  ships are those of the roster, what is afloat has not left, and a batch never has a lost
  bot (`BotDisconnect` ends it in the same step), without which a chained match could start
  with a forfeited one. `MatchInv` adds `Records`: report, log, training round and
  announcements are about the match in progress, and the log closed last belongs to an
  earlier one (`LastLogIsOld`), without which a report could agree with the wrong log.
  `FiguresInv` adds that the figures of a running batch add up, from which the published
  ones do. `WinnerOutranks` is the arithmetic of the timeout for any number of ships, on
  which `FairVerdict` rests. `LogSealed` rests on the ticks: each disconnect record of the
  open log is at the last tick its bot has `played`, and a later disconnect or kick of the
  same bot finds it in `gone` and adds none.
- `CommandsProofs`, for any number of bots, ticks and matches: `TypeCorrect`, `Current`
  (`AppliedIsCurrent`), `AddUp` (`CountersAddUp`), `FirstWins`, `WakeupKept`
  (`NoLostWakeup`) and `FrameFindsWindow`. `Good` says of one slot that what its window
  holds was answered for that window and that its counters agree with it; every operation of
  the slot keeps it, and `SlotsInv` is `Good` of every slot with its place in the room's scan.
  `NoLostWakeup` needs that a permit is stored or a bot unanswered whenever the room is about
  to wait.
- `GatewayProofs`, for any number of connections, addresses and limits: `TypeCorrect`,
  `SlotsReturned`, `RevokedCut` and `PromptKept`. `SlotsInv` ties permits and address counts
  to the steps of the connections that hold them; `CutInv` says that a heartbeat that came
  due after the revocation is still waiting to be handled, before any message. `PromptKept`
  rests on four layers: `PaceInv` (what has been spent and when), `WindowInv` (which window
  may be open, only for a bot the room lists, and for which frame), `ChannelInv` (no more is
  in the channel than it can hold) and `FramesInv` (what is between the room and the bot is
  in order and sent once).
- `SessionsProofs`: `Invariance` and from it `TypeCorrect`, `Exclusion`, `Backing` and
  `NoSelfCollision`, for any number of connections and any queue. The invariant says where
  each message about a bot is: a registration is asked for and answered at most once
  (`AsksOnce`, `Numbered`), ids do not run out (`Budget`), a bot is named after its
  connection's identity (`Named`), and a disconnect stands in the queue before any
  registration of the same identity (`ByeFirst`), which is why a reconnecting bot does not
  meet its predecessor.
- `TrainingProofs`: `Invariance` and from it `Durability`, `ReportsDurable`, `NoOrphan`,
  `NoLostEdit`, `TypeCorrect`, `Growth` (the history only grows) and `Preserved` (a file that
  could not be read is left alone). The invariant orders memory, the copies of the file and
  the pages by revision (`Newer`): a copy is never behind what memory acknowledged unless the
  store is dirty, and a page without a storage error is never ahead of memory. Without it a
  page could hold a revision memory reaches again with other content, which is exactly what
  `MCTrainingStale` shows once an error was shown.
- `ReplayProofs`, for any simulation, length of match and size of buffer: `TypeCorrect`,
  `Faithful` (`ReplayIsFaithful`) and `Complete` (`ReplayCompletes`). `DiskInv`: the file
  and the buffer together are the tape of what was recorded, unless a record was lost.
  `TapeInv`: what is recorded passes validation. `CourseInv`: each point of the course
  follows from the one before by a step, or by a forfeit that is on the tape at its place,
  and no later record is about an earlier tick. `ReaderInv` and `FollowInv`: what a reader
  holds is a part of the tape, and its world is that of some point of the course. The crux
  is `StepReader`: from a point of the course, the next record that is due and the ticks
  without one lead the reader to the next point.

- `BattleProofs`, for any number of ships, any map, layouts, loadouts and orders: all eight
  properties of `Battle`.
  - *Folds.* The phases are folds over the roster, the shells and the hits. `FoldLeft` is
    unfolded (`FoldExists`, `FoldGoes`) into the sequence of what the fold has after each
    element, and what a phase does is proved by induction over the positions of that
    sequence; the principle, `Induction`, is drawn from the well-foundedness of `<`, so that
    no theorem with an operator parameter is needed. Each operation is first described on
    one ship (as in `SailedType`), then each phase on the world, and `ShipTick` is what a whole
    tick makes of one ship.
  - *Invariants.* `Shape` (`BattleTypes`) are the types with what they rest on: hull and
    life go together, only live shells are kept. `BattleRefinesHulls` needs no more than it.
    `Pinged` says that the pingers the room keeps are those of the last frames
    (`BattleHearsPings`). `Effects` dates each cloud, decoy, effect and jamming from the
    activation it comes from (`BattleEffectsLast`): a single ship's record does not tell,
    because a burst jams ships that did nothing, and an effect outlives its ship. `Noted`
    finds for each armed trace the last hit in the log (`BattleTracesAreTrue`). `Tallied`
    counts: kills are the ships recorded as sunk, hits are bounded by the shells that have
    gone off, dealt is taken; it is an invariant of sums over the roster, whose laws
    (`Total...`) are proved by induction as well (`BattleKillsAreSinkings`). `Worded` says
    that the last frame still shows the ship as it is (`BattleFramesKeepWord`).
  - *Order.* `BattleOrderDoesNotDecide` compares two ways through the same ships.
    Activations give one world in any order, because none changes what another tests (who is
    afloat, and where) and what they add is a union and a maximum (`EmpoweredAgrees`). Shots
    give the same ships and the same shells but for their order (`ShotsAgree`). A barrage
    depends on its shells only through their set and a sum of their damages: a ship is down
    if the damage reaches its hull, in whatever order it comes (`BarrageAgrees`). The
    attacker a trace remembers and who is credited with a kill do depend on the order, and
    `Outcome` leaves them out.

Only model-checked: liveness (`NothingWedges`, `BatchMoves`, `SilentIsLetGo`,
`DepartedIsDropped`), since the provers have no rules for fairness. Every other property of
the runs that pass is a theorem.

## 5. Not modelled

- Simulation: geometry, floating point, sensor noise and confidence; ship placement and the
  mixing of seeds. Places on a line stand for positions.
- Connections: byte budgets, the HTTP budget and the requests it refuses, and that
  `game_start` and `game_over` share the outbound channel with the tick frames. Identities
  are valid names.
- Replay: the 64 MiB a log may have and the size limits of captures, the per-bot
  perspective, the directory listing, a record torn by its newline. Of the limits of
  validation the number of bots is modelled (`MaxReplayBots`); the tick rate and the number
  of records cannot be exceeded by a log the server wrote, as a comment at `WellFormed`
  explains.
- Training: names, expected teams and texts, with their size limits.
- Room: `BotReady` without a hash, which replay rebuilding and tests use; the variance
  figures of a batch and its list of last results.
- Diagnostics: latency samples.
- The wire protocol (data without state), HTTP routing and token signing (stateless), the
  parsing of arguments, the web application (a viewer) and deployment (scripts) have no
  model; see the notes in `PROJECT.json`.

## 6. Plan

Built so far: `Room` with `MatchLife`, `Commands`, `Training`, `Sessions`, `Replay`,
`Battle` with `Hulls` below `Room`, `Gateway` between the clients and `Sessions` and
`Commands`; the proofs of every safety and action property and of the two refinements. What
is left:

1. The delay of an operator's event under the room's biased select: the deadline
   and the wake-ups of a batch, or else the ticker, go before the event queue.
2. `Battle` with three ships: two that hit one in the same tick, one shell that sinks two,
   and a trace that passes from one attacker to the next.
3. The perspective of one bot in a replay, which re-computes the frames of `Battle` from the
   world `Replay` rebuilds.
4. Byte budgets of connections, and the size limits of a capture.
