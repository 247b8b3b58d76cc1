------------------------------- MODULE Replay -------------------------------
(***************************************************************************)
(* The replay log: what a running match writes (room.rs), how it reaches   *)
(* the disk (replay.rs, ReplayWriter over a BufWriter), and how a reader   *)
(* validates it, rebuilds the room and drives it again, in one go          *)
(* (capture_replay) or tick by tick (run_replay_with_events).              *)
(*                                                                         *)
(* Both the match and the reader step the same deterministic simulation,   *)
(* which is left uninterpreted: what matters is which orders reach which   *)
(* step, when a forfeited ship stops taking part, and what was recorded.   *)
(* A reader works on what it read of the file at one moment; the match may *)
(* still be running, be over, or have gone down with the server.           *)
(***************************************************************************)
EXTENDS Integers, Sequences, FiniteSets

CONSTANTS
  Bots, Orders,   \* participants and the commands they may send
  NoBot,          \* the winner of a draw
  Rules, Spawns,  \* parameters and seed of a match; starting layouts
  MatchTimeout,   \* MATCH_TIMEOUT_TICKS
  MaxReplayBots,  \* MAX_REPLAY_BOTS
  BufferSize,     \* records the BufWriter can hold back
  Launch(_, _),   \* sea at tick 0, from the rules and the layout
  Sail(_, _),     \* sea after a step of a world under the orders given
  Sunk(_, _),     \* ships that step sinks
  Abandon(_, _),  \* sea after a ship is forfeited
  Leaders(_)      \* ships ahead of all others, or tied with them, on hull and ammunition

\* The room has no more places than a log may name bots, which the server does not check.
ASSUME ReplayAssumption ==
  /\ IsFiniteSet(Bots) /\ NoBot \notin Bots
  /\ MaxReplayBots \in Nat /\ Cardinality(Bots) <= MaxReplayBots
  /\ MatchTimeout \in Nat \ {0} /\ BufferSize \in Nat \ {0}

VARIABLES
  state,   \* of the match: "Running", "Ended", or "Crashed" with the server
  world,
  frames,  \* frames[t+1] is what spectators were shown at tick t (history)
  gone,    \* bots that were forfeited
  batch,   \* the match belongs to a Monte Carlo run
  disk,    \* the log file and the writer's buffer
  result,  \* the end of the match as announced (history)
  mode,    \* the reader: "idle", "capture", "play", "done" or "refused"
  log,     \* records the reader works on
  pos,     \* the next one
  room,    \* world of the rebuilt room
  over,    \* the rebuilt room is in Ended
  shown,   \* frames the reader has produced
  tape,    \* all records in the order they were to be written (history)
  course   \* the worlds the match went through (history)

history == <<frames, result, tape, course>>
matchVars == <<state, world, gone, batch, disk, history>>
readerVars == <<mode, log, pos, room, over, shown>>
vars == <<matchVars, readerVars>>

-----------------------------------------------------------------------------
(* The simulation, as far as a replay depends on it. *)

StartOf(bots, rules, spawn) ==
  [bots |-> bots, tick |-> 0, afloat |-> bots, sea |-> Launch(rules, spawn)]

\* Orders for a ship that is not afloat are consumed without effect or record.
Obeyed(w, orders) == [b \in DOMAIN orders \cap w.afloat |-> orders[b]]

Stepped(w, orders) ==
  LET done == Obeyed(w, orders)
  IN  [bots |-> w.bots, tick |-> w.tick + 1,
       afloat |-> w.afloat \ Sunk(w, done), sea |-> Sail(w, done)]

Forfeited_Adrift(w, b) ==
  [bots |-> w.bots, tick |-> w.tick, afloat |-> w.afloat, sea |-> Abandon(w.sea, b)]
\* forfeit_bot: the hull stays in the world, dead.
Forfeited(w, b) ==
  [bots |-> w.bots, tick |-> w.tick, afloat |-> w.afloat \ {b}, sea |-> Abandon(w.sea, b)]

\* match_outcome
LastStanding(w) == Cardinality(w.bots) >= 2 /\ Cardinality(w.afloat) <= 1
Decided(w) == LastStanding(w) \/ w.tick >= MatchTimeout
Winner(w) ==
  LET best == IF LastStanding(w) THEN w.afloat ELSE w.afloat \cap Leaders(w)
  IN  IF \E b \in best : best = {b} THEN CHOOSE b \in best : TRUE ELSE NoBot

Silence == [b \in {} |-> NoBot]
OrdersGiven(ships) == UNION {[S -> Orders] : S \in SUBSET ships}

-----------------------------------------------------------------------------
(* The log and the way to the disk.  A flush that fails has written any part of *)
(* the buffer; `torn` says the file ends inside a record, the first of the buffer.*)

HeaderRecord(bots, rules, spawn) ==
  [type |-> "header", bots |-> bots, rules |-> rules, spawn |-> spawn]
TickRecord(t, orders) == [type |-> "tick", tick |-> t, orders |-> orders]
DropRecord(t, b)      == [type |-> "disconnect", tick |-> t, bot |-> b]
EndRecord(t, w)       == [type |-> "end", tick |-> t, winner |-> w]

Unwritten == [file |-> <<>>, buf |-> <<>>, torn |-> FALSE, hole |-> FALSE]

Cut(d, n, torn) ==
  [file |-> d.file \o SubSeq(d.buf, 1, n), buf |-> SubSeq(d.buf, n + 1, Len(d.buf)),
   torn |-> torn, hole |-> d.hole]
CanCut(d, n, torn) ==
  (n = Len(d.buf) => ~torn) /\ (n = 0 /\ d.torn /\ d.buf # <<>> => torn)
Flushes(d) ==
  {Cut(d, c[1], c[2]) : c \in {x \in (0..Len(d.buf)) \X BOOLEAN : CanCut(d, x[1], x[2])}}

\* ReplayWriter::write.  A record the buffer has no room for is written only if the
\* buffer can be flushed; else it is lost, and the log goes on without it.
Held(d, r) == [file |-> d.file, buf |-> Append(d.buf, r), torn |-> d.torn, hole |-> d.hole]
Lost(d) == [file |-> d.file, buf |-> d.buf, torn |-> d.torn, hole |-> TRUE]
Written(d, r) ==
  IF Len(d.buf) < BufferSize THEN Flushes(Held(d, r))
  ELSE UNION {IF e.buf = <<>> THEN Flushes(Held(e, r)) ELSE {Lost(e)} : e \in Flushes(d)}

\* Dropping the writer flushes once more and gives up what does not go out.
Dropped(d) == [file |-> d.file, buf |-> <<>>, torn |-> d.torn, hole |-> d.hole]
Closed(d) == {Dropped(e) : e \in Flushes(d)}
Sealed(d, r) == UNION {Closed(e) : e \in Written(d, r)}

-----------------------------------------------------------------------------
(* The match. *)

\* A point of the course: the world, the records written so far, whether a step led
\* there (and its frame was shown), and whether that step decided the match.
Point(w, recs, stepped, decided) ==
  [world |-> w, recs |-> recs, stepped |-> stepped, decided |-> decided]

Init ==
  /\ \E bots \in (SUBSET Bots) \ {{}}, rules \in Rules, spawn \in Spawns :
       /\ world = StartOf(bots, rules, spawn)
       /\ disk \in Written(Unwritten, HeaderRecord(bots, rules, spawn))
       /\ tape = <<HeaderRecord(bots, rules, spawn)>>
  /\ state = "Running" /\ frames = <<world>> /\ gone = {} /\ batch \in BOOLEAN
  /\ result = [tick |-> 0, winner |-> NoBot, natural |-> FALSE]
  /\ course = <<Point(world, 1, TRUE, FALSE)>>
  /\ mode = "idle" /\ log = <<>> /\ pos = 1
  /\ room = world /\ over = FALSE /\ shown = <<>>

\* broadcast_game_over
GameOver(d, t, w, winner, natural) ==
  /\ state' = "Ended"
  /\ result' = [tick |-> w.tick, winner |-> winner, natural |-> natural]
  /\ disk' \in Sealed(d, EndRecord(w.tick, winner))
  /\ tape' = Append(t, EndRecord(w.tick, winner))

GoesOn(d, t) == disk' = d /\ tape' = t /\ UNCHANGED <<state, result>>

\* write_replay_tick: after the counter is bumped, and only if a command was applied.
TickRecords_PreBump(w, done) == IF DOMAIN done = {} THEN <<>> ELSE <<TickRecord(w.tick, done)>>
TickRecords(w, done) == IF DOMAIN done = {} THEN <<>> ELSE <<TickRecord(w.tick + 1, done)>>

StepTick(orders) ==
  /\ state = "Running"
  /\ world' = Stepped(world, orders)
  /\ frames' = Append(frames, world')
  /\ LET new == TickRecords(world, Obeyed(world, orders))
         t == tape \o new
     IN  /\ \E d \in IF new = <<>> THEN {disk} ELSE Written(disk, new[1]) :
              IF Decided(world') THEN GameOver(d, t, world', Winner(world'), TRUE)
              ELSE GoesOn(d, t)
         /\ course' = Append(course, Point(world', Len(t), TRUE, Decided(world')))
  /\ UNCHANGED <<gone, batch, readerVars>>

\* handle_bot_disconnect, of a lost connection or a kick; a batch is aborted with it.
HandleBotDisconnect(b) ==
  /\ state = "Running" /\ b \in world.bots \ gone
  /\ gone' = gone \cup {b}
  /\ world' = Forfeited(world, b)
  /\ LET r == DropRecord(world.tick, b)
         t == Append(tape, r)
     IN  /\ \E d \in Written(disk, r) :
              IF batch THEN GameOver(d, t, world, NoBot, FALSE) ELSE GoesOn(d, t)
         /\ course' = Append(course, Point(world', Len(t), FALSE, FALSE))
  /\ UNCHANGED <<frames, batch, readerVars>>

AbortMatch ==
  /\ state = "Running"
  /\ GameOver(disk, tape, world, NoBot, FALSE)
  /\ UNCHANGED <<world, frames, gone, batch, course, readerVars>>

\* The process dies: the file stays as it is, the buffer is lost.
Crash ==
  /\ state = "Running" /\ state' = "Crashed"
  /\ disk' = Dropped(disk)
  /\ UNCHANGED <<world, gone, batch, history, readerVars>>

-----------------------------------------------------------------------------
(* The reader. *)

DroppedBefore(records, i) ==
  {records[j].bot : j \in {k \in 2..i - 1 : records[k].type = "disconnect"}}

LastTick(records, i) == IF i = 2 THEN 0 ELSE records[i - 1].tick

\* validate_records.  The tick rate needs no test: a server starts only with a deadline
\* shorter than its tick, so with fewer than 1000 ticks a second.  Nor does the number of
\* records that read_records admits: a log with one record for each tick and each lost bot
\* has no more.  The 64 MiB that a log may have are left out.
WellFormed(records) ==
  /\ records # <<>> /\ records[1].type = "header" /\ records[1].bots # {}
  /\ Cardinality(records[1].bots) <= MaxReplayBots
  /\ \A i \in 2..Len(records) :
       LET r == records[i]
           present == records[1].bots \ DroppedBefore(records, i)
       IN  /\ r.type # "header"
           /\ r.type = "tick" => r.tick > LastTick(records, i) /\ DOMAIN r.orders \subseteq present
           /\ r.type = "disconnect" => r.bot \in present
           /\ r.type = "end" => i = Len(records)
           /\ r.tick >= LastTick(records, i) /\ r.tick <= MatchTimeout

\* rebuild_room_from_header: a new match of the recorded bots, moved to the recorded
\* starting layout.
Rebuilt(header) == StartOf(header.bots, header.rules, header.spawn)

\* read_records, validation and rebuilding, of the file as it is now.
OpenLog(how) ==
  /\ mode = "idle"
  /\ IF disk.torn \/ ~WellFormed(disk.file)
     THEN /\ mode' = "refused" /\ log' = IF disk.torn THEN <<>> ELSE disk.file
          /\ UNCHANGED <<pos, room, over, shown>>
     ELSE /\ mode' = how /\ log' = disk.file /\ pos' = 2
          /\ room' = Rebuilt(disk.file[1]) /\ over' = FALSE /\ shown' = <<room'>>
  /\ UNCHANGED matchVars

AtEnd == pos > Len(log)
Is(type) == ~AtEnd /\ log[pos].type = type

\* The orders the next step of the rebuilt room consumes: those of a tick record, in
\* the step that produces its tick and none before.
Injected_Early == IF Is("tick") THEN log[pos].orders ELSE Silence
Injected == IF Is("tick") /\ room.tick + 1 = log[pos].tick THEN log[pos].orders ELSE Silence

\* One step of the rebuilt room, refused if its match is already over.
StepRoom ==
  IF over THEN mode' = "refused" /\ UNCHANGED <<pos, room, over, shown>>
  ELSE /\ room' = Stepped(room, Injected)
       /\ over' = Decided(room')
       /\ shown' = Append(shown, room')
       /\ pos' = IF Is("tick") /\ room'.tick = log[pos].tick THEN pos + 1 ELSE pos
       /\ UNCHANGED mode

ForfeitRoom ==
  /\ room' = Forfeited(room, log[pos].bot) /\ pos' = pos + 1
  /\ UNCHANGED <<mode, over, shown>>

Finish(next) == mode' = "done" /\ pos' = next /\ UNCHANGED <<room, over, shown>>

\* capture_replay: record by record; advance_and_inject and advance_to step up to the
\* tick of the record, its effect follows.  (Validation leaves no tick record whose
\* tick is already past.)
Capture ==
  /\ mode = "capture"
  /\ \/ AtEnd /\ Finish(pos)
     \/ ~AtEnd /\ room.tick < log[pos].tick /\ StepRoom
     \/ Is("disconnect") /\ room.tick >= log[pos].tick /\ ForfeitRoom
     \/ Is("end") /\ room.tick >= log[pos].tick /\ Finish(pos + 1)
  /\ UNCHANGED <<log, matchVars>>

\* run_replay_with_events: tick by tick; forfeits and the end are applied when the room
\* has reached their tick, before the next step.
Play ==
  /\ mode = "play"
  /\ \/ Is("disconnect") /\ log[pos].tick = room.tick /\ ForfeitRoom
     \/ Is("end") /\ log[pos].tick = room.tick /\ Finish(pos + 1)
     \/ AtEnd /\ Finish(pos)
     \/ /\ ~AtEnd /\ (Is("tick") \/ log[pos].tick # room.tick)
        /\ StepRoom
  /\ UNCHANGED <<log, matchVars>>

Next ==
  \/ \E orders \in OrdersGiven(world.afloat) : StepTick(orders)
  \/ \E b \in Bots : HandleBotDisconnect(b)
  \/ AbortMatch \/ Crash
  \/ \E how \in {"capture", "play"} : OpenLog(how)
  \/ Capture \/ Play

Spec == Init /\ [][Next]_vars

-----------------------------------------------------------------------------
(* Properties *)

Records ==
  [type : {"header"}, bots : SUBSET Bots, rules : Rules, spawn : Spawns]
  \cup [type : {"tick"}, tick : 1..MatchTimeout, orders : OrdersGiven(Bots)]
  \cup [type : {"disconnect"}, tick : 0..MatchTimeout, bot : Bots]
  \cup [type : {"end"}, tick : 0..MatchTimeout, winner : Bots \cup {NoBot}]

IsWorld(w) ==
  w.bots \subseteq Bots /\ w.tick \in 0..MatchTimeout /\ w.afloat \subseteq w.bots

TypeOK ==
  /\ state \in {"Running", "Ended", "Crashed"} /\ batch \in BOOLEAN
  /\ IsWorld(world) /\ gone \subseteq world.bots \ world.afloat
  /\ Len(frames) = world.tick + 1
  /\ disk.file \in Seq(Records) /\ disk.buf \in Seq(Records) /\ Len(disk.buf) <= BufferSize
  /\ disk.torn \in BOOLEAN /\ disk.hole \in BOOLEAN
  /\ mode \in {"idle", "capture", "play", "done", "refused"}
  /\ IsWorld(room) /\ over \in BOOLEAN
  /\ log \in Seq(Records) /\ pos \in 1..Len(log) + 1

\* Every frame of a replay, also of a match still running or cut short by a crash, is
\* the one spectators were shown at that tick; unless the log lost a record to a
\* writer that could not flush.
ReplayIsFaithful ==
  ~disk.hole /\ shown # <<>> =>
    /\ Len(shown) = room.tick + 1
    /\ \A i \in DOMAIN shown : i \in DOMAIN frames /\ shown[i] = frames[i]

\* A log that has its header and every record is never refused, wherever it stops, and
\* is replayed to its last record: a sealed one to the recorded tick, with the recorded
\* winner if the match was decided and with no decision if it was aborted.
ReplayCompletes ==
  ~disk.hole =>
    /\ mode = "refused" => log = <<>>
    /\ mode = "done" => AtEnd
    /\ mode = "done" /\ log[Len(log)].type = "end" =>
         /\ room.tick = log[Len(log)].tick /\ over = result.natural
         /\ result.natural => log[Len(log)].winner = Winner(room)
=============================================================================
