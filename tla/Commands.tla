----------------------------- MODULE Commands -----------------------------
(***************************************************************************)
(* How a command gets from a connection into the tick it is meant for:     *)
(* the command slot each connection shares with the room (ingress.rs), the *)
(* points of step_tick that close and open its window, and the room's loop *)
(* (run_room), which steps a batch match as soon as every command is in.   *)
(*                                                                         *)
(* The slot is a mutex: one operation on it is one step.  The room holds   *)
(* no lock across bots, so a tick closes and opens the windows one after   *)
(* another while the connection tasks go on submitting.  Time is a flag: a *)
(* window's cutoff has passed or not, and a frame carries what the clock   *)
(* said when it was read off the socket, which may be before the window it *)
(* is finally submitted to was opened.                                     *)
(***************************************************************************)
EXTENDS Integers, FiniteSets, FiniteSetsExt

CONSTANTS
  NBots,       \* bots in the match
  Orders,      \* what a command may ask for
  \* Bounds of the model:
  MaxTick,     \* the tick a match ends at
  MaxMatch     \* matches

ASSUME CommandsAssumption == {NBots, MaxTick, MaxMatch} \subseteq Nat \ {0}

Bots == 1..NBots

VARIABLES
  \* The room task.
  pc,          \* where run_room and step_tick are
  todo,        \* bots the current loop over the roster has not reached
  running,     \* state = Running
  batch,       \* a Monte Carlo run is active
  match, tick,
  afloat, gone,
  taken,       \* the commands the closing windows gave up
  applied,     \* the commands the tick just stepped applied (history)
  due,         \* the lockstep deadline has passed
  permit,      \* the stored permit of ingress_notify
  \* The slots.
  win, cnt,
  opened,      \* windows opened in this match (history)
  \* The connections.
  conn,        \* "up", "left" (its disconnect event is queued) or "down"
  told,        \* the tick frame the bot was sent last
  frame        \* the command frame being processed

roomVars == <<running, batch, match, tick, afloat, gone>>
loopVars == <<pc, todo, due>>
slotVars == <<win, cnt, opened>>
connVars == <<conn, told, frame>>
vars == <<roomVars, loopVars, taken, applied, permit, slotVars, connVars>>

NoCommand == [match |-> 0]
NoFrame   == [match |-> 0]

ClosedWindow == [open |-> FALSE, match |-> 0, tick |-> 0, expired |-> FALSE, sent |-> FALSE,
                 sampled |-> FALSE, late |-> FALSE, command |-> NoCommand]
\* Of the diagnostics, the counters that are kept per window; those that only count
\* refused frames (late, wrong_tick, other_rejected) are left out.
NoCounts == [accepted |-> 0, completed |-> 0, missed |-> 0, lateWindows |-> 0, samples |-> 0]

Init ==
  /\ pc = "check" /\ todo = {}
  /\ running = FALSE /\ batch = FALSE /\ match = 0 /\ tick = 0
  /\ afloat = {} /\ gone = {}
  /\ taken = [b \in Bots |-> NoCommand] /\ applied = {}
  /\ due = FALSE /\ permit = FALSE
  /\ win = [b \in Bots |-> ClosedWindow] /\ cnt = [b \in Bots |-> NoCounts]
  /\ opened = [b \in Bots |-> 0]
  /\ conn = [b \in Bots |-> "up"] /\ told = [b \in Bots |-> <<0, 0>>]
  /\ frame = [b \in Bots |-> NoFrame]

-----------------------------------------------------------------------------
(* The command slot: what each operation makes of a window w and counters c. *)

\* `received` is compared with the cutoff of the window found at submission: a frame
\* read before that window was opened (f.seen is an earlier one) is not late for it.
Late(w, f) == f.seen = <<w.match, w.tick>> /\ f.late

SameMatch_Unchecked(w, f) == TRUE
SameMatch(w, f) == f.match = w.match

Vacant_Unchecked(w) == TRUE
Vacant(w) == w.command = NoCommand

Verdict(w, f) ==
  IF ~w.open THEN "not_active"
  ELSE IF ~SameMatch(w, f) THEN "wrong_match"
  ELSE IF f.tick # w.tick THEN "wrong_tick"
  ELSE IF Late(w, f) THEN "late_command"
  ELSE IF ~Vacant(w) THEN "duplicate_command" ELSE "accepted"

\* The first frame for an open window whose tick frame went out is a response sample.
Sampled(w, f) == w.open /\ f.match = w.match /\ f.tick = w.tick /\ ~w.sampled /\ w.sent

\* The PendingCommand, tagged with the match it named and whether it was in time.
Pending(w, f) == [match |-> f.match, tick |-> f.tick, order |-> f.order, inTime |-> ~Late(w, f)]

AfterSubmit(w, f) ==
  [w EXCEPT !.sampled = @ \/ Sampled(w, f),
            !.late    = @ \/ (Verdict(w, f) = "late_command" /\ w.command = NoCommand),
            !.command = IF Verdict(w, f) = "accepted"
                        THEN Pending(w, f) ELSE @]

Counted(c, w, f) ==
  [c EXCEPT !.accepted = IF Verdict(w, f) = "accepted" THEN @ + 1 ELSE @,
            !.samples  = IF Sampled(w, f) THEN @ + 1 ELSE @]

OpenWindow(m, t) == [ClosedWindow EXCEPT !.open = TRUE, !.match = m, !.tick = t]

\* What close leaves in a window beside the cutoff and the command is not read again
\* before the next open overwrites it.
CloseWindow_Keeps(w) == [w EXCEPT !.open = FALSE]
CloseWindow(w) == ClosedWindow

Completed_Uncounted(c, w) == IF w.open THEN [c EXCEPT !.completed = @ + 1] ELSE c
Completed(c, w) ==
  IF ~w.open THEN c
  ELSE [c EXCEPT !.completed   = @ + 1,
                 !.missed      = IF w.command = NoCommand THEN @ + 1 ELSE @,
                 !.lateWindows = IF w.late /\ w.command = NoCommand THEN @ + 1 ELSE @]

CloseAll ==
  /\ win' = [b \in Bots |-> CloseWindow(win[b])]
  /\ cnt' = [b \in Bots |-> Completed(cnt[b], win[b])]
  /\ UNCHANGED opened

-----------------------------------------------------------------------------
(* The connection tasks. *)

\* A command frame is read off the socket; the clock is read with it.
Receive(b, m, t, o) ==
  /\ conn[b] = "up" /\ frame[b] = NoFrame
  /\ frame' = [frame EXCEPT ![b] = [match |-> m, tick |-> t, order |-> o,
                                    seen |-> <<win[b].match, win[b].tick>>, late |-> win[b].expired]]
  /\ UNCHANGED <<roomVars, loopVars, taken, applied, permit, slotVars, conn, told>>

\* CommandSlot::submit
Notifies_Never(v) == permit
Notifies(v) == permit \/ v = "accepted"

Submit(b) ==
  /\ conn[b] = "up" /\ frame[b] # NoFrame
  /\ win' = [win EXCEPT ![b] = AfterSubmit(@, frame[b])]
  /\ cnt' = [cnt EXCEPT ![b] = Counted(@, win[b], frame[b])]
  /\ permit' = Notifies(Verdict(win[b], frame[b]))
  /\ frame' = [frame EXCEPT ![b] = NoFrame]
  /\ UNCHANGED <<roomVars, loopVars, taken, applied, opened, conn, told>>

\* CommandSlot::sent: a tick frame with the window's number is written to the socket.
\* Only the number is compared, so it may be one still queued from an earlier match.
Sent(b) ==
  /\ conn[b] = "up"
  /\ win[b].open /\ ~win[b].sent
  /\ told[b] = <<win[b].match, win[b].tick>> \/ win[b].match > 1
  /\ win' = [win EXCEPT ![b].sent = TRUE]
  /\ UNCHANGED <<roomVars, loopVars, taken, applied, permit, cnt, opened, connVars>>

\* The cutoff of an open window passes.
Expire(b) ==
  /\ win[b].open /\ ~win[b].expired
  /\ win' = [win EXCEPT ![b].expired = TRUE]
  /\ UNCHANGED <<roomVars, loopVars, taken, applied, permit, cnt, opened, connVars>>

\* The connection ends: its slot is closed and its disconnect event queued.
ConnectionEnds(b) ==
  /\ conn[b] = "up"
  /\ conn' = [conn EXCEPT ![b] = "left"]
  /\ frame' = [frame EXCEPT ![b] = NoFrame]
  /\ win' = [win EXCEPT ![b] = CloseWindow(@)]
  /\ cnt' = [cnt EXCEPT ![b] = Completed(@, win[b])]
  /\ UNCHANGED <<roomVars, loopVars, taken, applied, permit, opened, told>>

-----------------------------------------------------------------------------
(* run_room *)

Lockstep == batch /\ running

\* all_pending_commands_ready looks at one bot after another and gives up at the
\* first that is afloat and has not answered.
Answered(b) == b \notin afloat \/ win[b].command # NoCommand

First(S) == Min(S)

StepTick ==
  /\ due' = FALSE
  /\ IF running THEN pc' = "closing" /\ todo' = Bots ELSE pc' = "check" /\ todo' = {}

\* The top of the loop: outside lockstep, and at tick 0 of a batch match, no look at
\* the slots is needed.
Check ==
  /\ pc = "check"
  /\ IF Lockstep /\ tick = 0 THEN StepTick
     ELSE /\ pc' = IF Lockstep THEN "look" ELSE "select"
          /\ todo' = IF Lockstep THEN Bots ELSE {}
          /\ due' = (due /\ Lockstep)
  /\ applied' = {}
  /\ UNCHANGED <<roomVars, taken, permit, slotVars, connVars>>

Look ==
  /\ pc = "look"
  /\ IF todo = {} THEN StepTick
     ELSE LET b == First(todo)
          IN  /\ UNCHANGED due
              /\ IF Answered(b) THEN todo' = todo \ {b} /\ UNCHANGED pc
                 ELSE todo' = {} /\ pc' = "select"
  /\ UNCHANGED <<roomVars, taken, applied, permit, slotVars, connVars>>

\* The per-tick deadline, armed while a batch match waits.
DeadlinePasses_Unarmed == FALSE
DeadlinePasses ==
  /\ Lockstep /\ pc = "select" /\ ~due
  /\ due' = TRUE
  /\ UNCHANGED <<roomVars, pc, todo, taken, applied, permit, slotVars, connVars>>

\* select!: the deadline, or the ticker outside lockstep.
Tick ==
  /\ pc = "select"
  /\ Lockstep => due
  /\ StepTick
  /\ UNCHANGED <<roomVars, taken, applied, permit, slotVars, connVars>>

\* select!: ingress_notify.notified(), which consumes the permit.
Notified ==
  /\ pc = "select" /\ Lockstep /\ ~due
  /\ permit /\ permit' = FALSE
  /\ pc' = "check"
  /\ UNCHANGED <<roomVars, todo, due, taken, applied, slotVars, connVars>>

-----------------------------------------------------------------------------
(* step_tick, while a match runs *)

\* One window after another is closed and its command taken.
Closing ==
  /\ pc = "closing" /\ todo # {}
  /\ LET b == First(todo)
     IN  /\ todo' = todo \ {b}
         /\ taken' = [taken EXCEPT ![b] = win[b].command]
         /\ win' = [win EXCEPT ![b] = CloseWindow(@)]
         /\ cnt' = [cnt EXCEPT ![b] = Completed(@, win[b])]
  /\ UNCHANGED <<roomVars, pc, due, applied, permit, opened, connVars>>

\* apply_match_layout: every window is closed before the counters are reset.
Layout(m) ==
  /\ match' = m /\ tick' = 0 /\ running' = TRUE
  /\ win' = [b \in Bots |-> CloseWindow(win[b])]
  /\ cnt' = [b \in Bots |-> NoCounts]
  /\ opened' = [b \in Bots |-> 0]
  /\ afloat' = Bots \ gone

\* The tick itself: the commands of the ships afloat are applied, ships may sink, and
\* the match goes on, ends, or in a batch gives way to the next.
Simulate(sunk) ==
  /\ pc = "closing" /\ todo = {}
  /\ applied' = {[bot |-> b, command |-> taken[b], match |-> match, tick |-> tick,
                  afloat |-> b \in afloat, gone |-> b \in gone] :
                   b \in {a \in afloat : taken[a] # NoCommand}}
  /\ taken' = [b \in Bots |-> NoCommand]
  /\ \/ /\ tick + 1 < MaxTick
        /\ tick' = tick + 1 /\ afloat' = afloat \ sunk
        /\ pc' = "opening" /\ todo' = afloat' \ gone
        /\ UNCHANGED <<running, batch, match, gone, slotVars>>
     \/ /\ ~batch \/ match = MaxMatch
        /\ tick' = tick + 1 /\ afloat' = afloat \ sunk
        /\ running' = FALSE /\ batch' = FALSE
        /\ pc' = "check" /\ todo' = {}
        /\ CloseAll
        /\ UNCHANGED <<match, gone>>
     \/ /\ batch /\ match < MaxMatch
        /\ Layout(match + 1)
        /\ pc' = "check" /\ todo' = {}
        /\ UNCHANGED <<batch, gone>>
  /\ UNCHANGED <<due, permit, connVars>>

\* The windows of the ships afloat are opened for the new tick, and only when all of
\* them are open do the tick frames go out.
Opening ==
  /\ pc = "opening"
  /\ IF todo # {}
     THEN LET b == First(todo)
          IN  /\ todo' = todo \ {b}
              /\ win' = [win EXCEPT ![b] = OpenWindow(match, tick)]
              /\ opened' = [opened EXCEPT ![b] = @ + 1]
              /\ UNCHANGED <<pc, told>>
     ELSE /\ pc' = "check"
          /\ told' = [b \in Bots |-> IF b \in afloat \ gone THEN <<match, tick>> ELSE told[b]]
          /\ UNCHANGED <<todo, win, opened>>
  /\ UNCHANGED <<roomVars, due, taken, applied, permit, cnt, conn, frame>>

-----------------------------------------------------------------------------
(* Events handled in select! *)

\* The deadline, when it is due, is taken before any event.
Handling == pc = "select" /\ ~(Lockstep /\ due) /\ pc' = "check" /\ UNCHANGED <<todo, due>>

\* A match or a batch is started; the lobby before it is not modelled here.
Start(inBatch) ==
  /\ Handling
  /\ ~running /\ match < MaxMatch
  /\ Bots \ gone # {}
  /\ batch' = inBatch
  /\ Layout(match + 1)
  /\ UNCHANGED <<gone, taken, applied, permit, connVars>>

\* handle_bot_disconnect, for the event of a closed connection or a kick: the bot
\* forfeits, its slot is closed, and a batch match is aborted with its batch.
Forfeit(b) ==
  /\ gone' = gone \cup {b} /\ afloat' = afloat \ {b}
  /\ batch' = FALSE
  /\ running' = (running /\ ~batch)
  /\ win' = [a \in Bots |-> IF a = b \/ batch THEN CloseWindow(win[a]) ELSE win[a]]
  /\ cnt' = [a \in Bots |-> IF a = b \/ batch THEN Completed(cnt[a], win[a]) ELSE cnt[a]]
  /\ UNCHANGED <<match, tick, opened>>

HandleDisconnect(b) ==
  /\ Handling
  /\ conn[b] = "left" /\ conn' = [conn EXCEPT ![b] = "down"]
  /\ IF b \in gone THEN UNCHANGED <<roomVars, slotVars>> ELSE Forfeit(b)
  /\ UNCHANGED <<taken, applied, permit, told, frame>>

Kick(b) ==
  /\ Handling
  /\ running /\ b \notin gone
  /\ Forfeit(b)
  /\ UNCHANGED <<taken, applied, permit, connVars>>

Abort ==
  /\ Handling
  /\ running
  /\ running' = FALSE /\ batch' = FALSE
  /\ CloseAll
  /\ UNCHANGED <<match, tick, afloat, gone, taken, applied, permit, connVars>>

Room ==
  \/ Check \/ Look \/ Tick \/ Notified \/ Closing \/ Opening
  \/ \E sunk \in SUBSET afloat : Simulate(sunk)

Events ==
  \/ \E inBatch \in BOOLEAN : Start(inBatch)
  \/ \E b \in Bots : HandleDisconnect(b) \/ Kick(b)
  \/ Abort

Connections ==
  \E b \in Bots :
    \/ \E m \in 1..MaxMatch, t \in 1..MaxTick, o \in Orders : Receive(b, m, t, o)
    \/ Submit(b) \/ Sent(b) \/ Expire(b) \/ ConnectionEnds(b)

Next == Room \/ Events \/ Connections \/ DeadlinePasses

Spec == Init /\ [][Next]_vars

\* The room task is scheduled, and the clock runs.
FairSpec == Spec /\ WF_vars(Room) /\ WF_vars(DeadlinePasses)

-----------------------------------------------------------------------------
(* Properties *)

Commanded == [match : Nat, tick : Nat, order : Orders, inTime : BOOLEAN]

TypeOK ==
  /\ pc \in {"check", "look", "select", "closing", "opening"} /\ todo \subseteq Bots
  /\ running \in BOOLEAN /\ batch \in BOOLEAN /\ due \in BOOLEAN /\ permit \in BOOLEAN
  /\ match \in Nat /\ tick \in Nat
  /\ afloat \subseteq Bots /\ gone \subseteq Bots
  /\ taken \in [Bots -> {NoCommand} \cup Commanded]
  /\ win \in [Bots -> [open : BOOLEAN, match : Nat, tick : Nat, expired : BOOLEAN,
                       sent : BOOLEAN, sampled : BOOLEAN, late : BOOLEAN,
                       command : {NoCommand} \cup Commanded]]
  /\ cnt \in [Bots -> [accepted : Nat, completed : Nat, missed : Nat, lateWindows : Nat, samples : Nat]]
  /\ opened \in [Bots -> Nat]
  /\ conn \in [Bots -> {"up", "left", "down"}] /\ told \in [Bots -> Nat \X Nat]

\* What a tick applies was submitted for that very tick of that very match and in time,
\* by a bot whose ship is afloat and that has not forfeited: no interleaving of
\* submissions with the closing and opening of the windows, and no end of a match in
\* between, carries a command over.
AppliedIsCurrent ==
  \A a \in applied :
    /\ a.command.match = a.match /\ a.command.tick = a.tick /\ a.command.inTime
    /\ a.afloat /\ ~a.gone

\* A command once accepted is not replaced by a later one for the same window.
FirstCommandWins ==
  [][\A b \in Bots : win[b].open /\ win[b].command # NoCommand /\ win'[b].open
       => win'[b].command = win[b].command]_vars

\* The counters a team is shown add up at every moment: every window opened is closed
\* once, as answered or as missed, and each accepted command answers one window.
CountersAddUp ==
  \A b \in Bots :
    LET c == cnt[b]
    IN  /\ opened[b] = c.completed + (IF win[b].open THEN 1 ELSE 0)
        /\ c.accepted = c.completed - c.missed + (IF win[b].command # NoCommand THEN 1 ELSE 0)
        /\ c.lateWindows <= c.missed
        /\ c.samples <= opened[b]

\* A bot that has the frame of the current tick finds its window open for it: frames
\* are never sent before the windows they ask to be answered in.
FrameMeansWindow ==
  \A b \in afloat \ gone :
    running /\ told[b] = <<match, tick>> /\ conn[b] = "up" /\ pc # "closing"
      => win[b].open /\ win[b].match = match /\ win[b].tick = tick

\* A batch waits in select! only for someone: if every ship afloat has answered, a
\* wake-up is pending.
NoLostWakeup ==
  pc = "select" /\ Lockstep /\ (\A b \in Bots : Answered(b)) => permit \/ due

\* A batch match is not held up for ever, whoever does not answer.
BatchMoves == Lockstep ~> (~Lockstep \/ pc = "closing")
=============================================================================
