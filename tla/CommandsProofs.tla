--------------------------- MODULE CommandsProofs ---------------------------
(***************************************************************************)
(* Proofs about Commands, for any number of bots and matches of any        *)
(* length: what a tick applies is current, the counters add up, no wake-up *)
(* is lost, and a frame is never without its window.                       *)
(***************************************************************************)
EXTENDS Commands, WellFoundedInduction, TLAPS

Windows == [open : BOOLEAN, match : Nat, tick : Nat, expired : BOOLEAN, sent : BOOLEAN,
            sampled : BOOLEAN, late : BOOLEAN, command : {NoCommand} \cup Commanded]
Counts == [accepted : Nat, completed : Nat, missed : Nat, lateWindows : Nat, samples : Nat]
CommandFrames == [match : Nat, tick : Nat, order : Orders, seen : Nat \X Nat, late : BOOLEAN]

-----------------------------------------------------------------------------
(* One slot: its window, its counters and how many windows it had. *)

\* A command is for the window that holds it, and the counters account for the window.
Good(w, c, n) ==
  /\ w \in Windows /\ c \in Counts /\ n \in Nat
  /\ w.command # NoCommand =>
       w.open /\ w.command.match = w.match /\ w.command.tick = w.tick /\ w.command.inTime
  /\ n = c.completed + (IF w.open THEN 1 ELSE 0)
  /\ c.accepted = c.completed - c.missed + (IF w.command # NoCommand THEN 1 ELSE 0)
  /\ c.lateWindows <= c.missed
  /\ c.samples + (IF w.open /\ ~w.sampled THEN 1 ELSE 0) <= n

LEMMA ClosedIsWindow == ClosedWindow \in Windows /\ ~ClosedWindow.open /\ ClosedWindow.command = NoCommand
  BY DEF ClosedWindow, Windows

LEMMA FirstIn ==
  ASSUME NEW S \in SUBSET Bots, S # {}
  PROVE  First(S) \in S
  <1> DEFINE R == OpToRel(<, Nat)
  <1>1. S \subseteq Nat
    BY CommandsAssumption DEF Bots
  <1>2. \E x \in S : \A y \in S : ~(<<y, x>> \in R)
    <2>1. IsWellFoundedOn(R, Nat)
      BY NatLessThanWellFounded
    <2> HIDE DEF R
    <2> QED BY <1>1, <2>1, WFMin
  <1>3. \A x \in Nat, y \in Nat : ~(<<y, x>> \in R) => x <= y
    BY DEF OpToRel
  <1> HIDE DEF R
  <1> QED BY <1>1, <1>2, <1>3 DEF First, Min

LEMMA CommandedIsSome == \A p \in Commanded : p # NoCommand
  <1> TAKE p \in Commanded
  <1>1. "tick" \in DOMAIN p
    BY DEF Commanded
  <1>2. "tick" \notin DOMAIN NoCommand
    BY DEF NoCommand
  <1> QED BY <1>1, <1>2

LEMMA GoodClosed ==
  ASSUME NEW w, NEW c, NEW n, Good(w, c, n)
  PROVE  Good(CloseWindow(w), Completed(c, w), n) /\ CloseWindow(w) = ClosedWindow
  <1> DEFINE v == CloseWindow(w)
             d == Completed(c, w)
  <1>1. v = ClosedWindow /\ v \in Windows /\ ~v.open /\ v.command = NoCommand
    BY ClosedIsWindow DEF CloseWindow
  <1>2. c \in Counts /\ n \in Nat /\ w.open \in BOOLEAN /\ w.late \in BOOLEAN
    BY DEF Good, Windows
  <1>3. CASE ~w.open
    <2>1. d = c /\ w.command = NoCommand
      BY <1>3 DEF Completed, Good
    <2> QED BY <1>1, <1>2, <1>3, <2>1 DEF Good, Counts
  <1>4. CASE w.open
    <2>1. /\ d \in Counts /\ d.completed = c.completed + 1 /\ d.accepted = c.accepted
          /\ d.missed = IF w.command = NoCommand THEN c.missed + 1 ELSE c.missed
          /\ d.lateWindows = IF w.late /\ w.command = NoCommand THEN c.lateWindows + 1 ELSE c.lateWindows
          /\ d.samples = c.samples
      <3>1. d = [c EXCEPT !.completed   = c.completed + 1,
                          !.missed      = IF w.command = NoCommand THEN c.missed + 1 ELSE c.missed,
                          !.lateWindows = IF w.late /\ w.command = NoCommand
                                          THEN c.lateWindows + 1 ELSE c.lateWindows]
        BY <1>4 DEF Completed
      <3>2. /\ c.completed + 1 \in Nat
            /\ (IF w.command = NoCommand THEN c.missed + 1 ELSE c.missed) \in Nat
            /\ (IF w.late /\ w.command = NoCommand THEN c.lateWindows + 1 ELSE c.lateWindows) \in Nat
        BY <1>2 DEF Counts
      <3> HIDE DEF d
      <3> QED BY <1>2, <3>1, <3>2 DEF Counts
    <2> HIDE DEF v, d
    <2>2. c.samples <= n
      BY <1>2 DEF Good, Counts
    <2>3. d.lateWindows <= d.missed /\ d.accepted = d.completed - d.missed /\ n = d.completed
      BY <1>2, <1>4, <2>1 DEF Good, Counts
    <2>4. Good(v, d, n)
      BY <1>1, <1>2, <2>1, <2>2, <2>3 DEF Good, Counts
    <2> QED BY <1>1, <2>4 DEF v, d
  <1> QED BY <1>3, <1>4

LEMMA GoodFresh == Good(ClosedWindow, NoCounts, 0)
  BY ClosedIsWindow DEF Good, NoCounts, Counts

LEMMA GoodOpened ==
  ASSUME NEW w, NEW c, NEW n, Good(w, c, n), ~w.open, NEW m \in Nat, NEW t \in Nat
  PROVE  /\ Good(OpenWindow(m, t), c, n + 1)
         /\ OpenWindow(m, t).open /\ OpenWindow(m, t).match = m /\ OpenWindow(m, t).tick = t
  <1> DEFINE v == OpenWindow(m, t)
  <1>1. /\ v \in Windows /\ v.open /\ ~v.sampled /\ v.match = m /\ v.tick = t
        /\ v.command = NoCommand
    BY DEF OpenWindow, ClosedWindow, Windows
  <1>2. c \in Counts /\ n \in Nat /\ w.command = NoCommand
    BY DEF Good
  <1> HIDE DEF v
  <1>3. Good(v, c, n + 1)
    BY <1>1, <1>2 DEF Good, Counts
  <1> QED BY <1>1, <1>3 DEF v

LEMMA GoodMarked ==
  ASSUME NEW w, NEW c, NEW n, Good(w, c, n),
         NEW v, v = [w EXCEPT !.sent = TRUE] \/ v = [w EXCEPT !.expired = TRUE]
  PROVE  /\ Good(v, c, n) /\ v.command = w.command
         /\ v.open => w.open /\ v.match = w.match /\ v.tick = w.tick
  BY DEF Good, Counts, Windows

LEMMA GoodSubmitted ==
  ASSUME NEW w, NEW c, NEW n, Good(w, c, n), NEW f \in CommandFrames
  PROVE  LET v == AfterSubmit(w, f)
         IN  /\ Good(v, Counted(c, w, f), n)
             /\ v.open = w.open /\ v.match = w.match /\ v.tick = w.tick
             /\ w.command # NoCommand => v.command = w.command
             /\ Verdict(w, f) # "accepted" => v.command = w.command
  <1> DEFINE v == AfterSubmit(w, f)
             d == Counted(c, w, f)
  <1>1. Verdict(w, f) = "accepted" =>
          w.open /\ f.match = w.match /\ f.tick = w.tick /\ ~Late(w, f) /\ w.command = NoCommand
    BY DEF Verdict, SameMatch, Vacant
  <1>2. Pending(w, f) \in Commanded /\ Pending(w, f).match = f.match /\ Pending(w, f).tick = f.tick
        /\ Pending(w, f).inTime = ~Late(w, f)
    BY DEF Pending, Commanded, CommandFrames, Late
  <1>3. /\ v \in Windows /\ v.open = w.open /\ v.match = w.match /\ v.tick = w.tick
        /\ v.sampled = (w.sampled \/ Sampled(w, f))
        /\ v.command = IF Verdict(w, f) = "accepted" THEN Pending(w, f) ELSE w.command
    <2>1. w \in Windows /\ Sampled(w, f) \in BOOLEAN
      BY DEF Good, Sampled
    <2>2. (IF Verdict(w, f) = "accepted" THEN Pending(w, f) ELSE w.command) \in {NoCommand} \cup Commanded
      BY <1>2, <2>1 DEF Windows
    <2>3. (w.sampled \/ Sampled(w, f)) \in BOOLEAN
          /\ (w.late \/ (Verdict(w, f) = "late_command" /\ w.command = NoCommand)) \in BOOLEAN
      OBVIOUS
    <2>4. v = [w EXCEPT !.sampled = w.sampled \/ Sampled(w, f),
                        !.late    = w.late \/ (Verdict(w, f) = "late_command" /\ w.command = NoCommand),
                        !.command = IF Verdict(w, f) = "accepted" THEN Pending(w, f) ELSE w.command]
      BY DEF AfterSubmit
    <2> HIDE DEF v
    <2> QED BY <2>1, <2>2, <2>3, <2>4 DEF Windows
  <1>4. /\ d \in Counts /\ d.completed = c.completed /\ d.missed = c.missed
        /\ d.lateWindows = c.lateWindows
        /\ d.accepted = IF Verdict(w, f) = "accepted" THEN c.accepted + 1 ELSE c.accepted
        /\ d.samples = IF Sampled(w, f) THEN c.samples + 1 ELSE c.samples
    <2>1. c \in Counts
      BY DEF Good
    <2>2. /\ (IF Verdict(w, f) = "accepted" THEN c.accepted + 1 ELSE c.accepted) \in Nat
          /\ (IF Sampled(w, f) THEN c.samples + 1 ELSE c.samples) \in Nat
      BY <2>1 DEF Counts
    <2>3. d = [c EXCEPT !.accepted = IF Verdict(w, f) = "accepted" THEN c.accepted + 1 ELSE c.accepted,
                        !.samples  = IF Sampled(w, f) THEN c.samples + 1 ELSE c.samples]
      BY DEF Counted
    <2> HIDE DEF d
    <2> QED BY <2>1, <2>2, <2>3 DEF Counts
  <1>5. Sampled(w, f) => w.open /\ ~w.sampled
    BY DEF Sampled
  <1>6. Pending(w, f) # NoCommand
    BY <1>2, CommandedIsSome
  <1> HIDE DEF v, d
  <1>7. v.command # NoCommand =>
          v.open /\ v.command.match = v.match /\ v.command.tick = v.tick /\ v.command.inTime
    BY <1>1, <1>2, <1>3 DEF Good
  <1>8. /\ n = d.completed + (IF v.open THEN 1 ELSE 0) /\ d.lateWindows <= d.missed
        /\ d.accepted = d.completed - d.missed + (IF v.command # NoCommand THEN 1 ELSE 0)
    BY <1>1, <1>3, <1>4, <1>6 DEF Good, Counts
  <1>9. d.samples + (IF v.open /\ ~v.sampled THEN 1 ELSE 0) <= n
    BY <1>3, <1>4, <1>5 DEF Good, Counts, Windows
  <1>10. Good(v, d, n)
    BY <1>3, <1>4, <1>7, <1>8, <1>9 DEF Good
  <1> QED BY <1>1, <1>3, <1>10 DEF v, d

-----------------------------------------------------------------------------
(* The room and the connections. *)

RoomInv ==
  /\ pc \in {"check", "look", "select", "closing", "opening"} /\ todo \subseteq Bots
  /\ running \in BOOLEAN /\ batch \in BOOLEAN /\ due \in BOOLEAN /\ permit \in BOOLEAN
  /\ match \in Nat /\ tick \in Nat
  /\ afloat \subseteq Bots /\ gone \subseteq Bots /\ afloat \cap gone = {}
  /\ conn \in [Bots -> {"up", "left", "down"}] /\ told \in [Bots -> Nat \X Nat]
  /\ frame \in [Bots -> {NoFrame} \cup CommandFrames]
  /\ pc \in {"closing", "opening"} => running

\* Open windows are for the tick that is awaited: a tick closes them all before it counts.
SlotsInv ==
  /\ win \in [Bots -> Windows] /\ cnt \in [Bots -> Counts] /\ opened \in [Bots -> Nat]
  /\ taken \in [Bots -> {NoCommand} \cup Commanded]
  /\ \A b \in Bots :
       /\ Good(win[b], cnt[b], opened[b])
       /\ win[b].open => /\ running /\ win[b].match = match /\ win[b].tick = tick
                         /\ pc = "closing" => b \in todo
                         /\ pc = "opening" => b \notin todo
       /\ taken[b] # NoCommand => /\ pc = "closing" /\ taken[b].inTime
                                  /\ taken[b].match = match /\ taken[b].tick = tick

LEMMA Sizes == MaxTick \in Nat /\ MaxMatch \in Nat
  BY CommandsAssumption

LEMMA RoomStart == Init => RoomInv
  <1> SUFFICES ASSUME Init PROVE RoomInv
    OBVIOUS
  <1>1. told \in [Bots -> Nat \X Nat] /\ conn \in [Bots -> {"up", "left", "down"}]
        /\ frame \in [Bots -> {NoFrame} \cup CommandFrames]
    BY DEF Init
  <1> QED BY <1>1 DEF Init, RoomInv

LEMMA SlotsStart == Init => SlotsInv
  BY GoodFresh, ClosedIsWindow DEF Init, SlotsInv, NoCounts, Counts

LEMMA RoomConnections ==
  ASSUME RoomInv, SlotsInv, Connections
  PROVE  RoomInv'
  <1> USE Sizes
  <1>1. ASSUME NEW b \in Bots, NEW m \in 1..MaxMatch, NEW t \in 1..MaxTick, NEW o \in Orders,
               Receive(b, m, t, o)
        PROVE  RoomInv'
    <2> DEFINE f == [match |-> m, tick |-> t, order |-> o,
                     seen |-> <<win[b].match, win[b].tick>>, late |-> win[b].expired]
    <2>1. f \in CommandFrames
      BY DEF CommandFrames, SlotsInv, Windows
    <2> HIDE DEF f
    <2>2. frame' = [frame EXCEPT ![b] = f]
      BY <1>1 DEF Receive, f
    <2>3. UNCHANGED <<roomVars, loopVars, permit, conn, told>>
      BY <1>1 DEF Receive
    <2> QED BY <2>1, <2>2, <2>3 DEF RoomInv, roomVars, loopVars
  <1>2. ASSUME NEW b \in Bots, Submit(b) PROVE RoomInv'
    <2>1. /\ UNCHANGED <<roomVars, loopVars, conn, told>> /\ frame' = [frame EXCEPT ![b] = NoFrame]
          /\ permit' = (permit \/ Verdict(win[b], frame[b]) = "accepted")
      BY <1>2 DEF Submit, Notifies
    <2> QED BY <2>1 DEF RoomInv, roomVars, loopVars
  <1>3. ASSUME NEW b \in Bots, Sent(b) \/ Expire(b) PROVE RoomInv'
    BY <1>3 DEF Sent, Expire, RoomInv, roomVars, loopVars, connVars
  <1>4. ASSUME NEW b \in Bots, ConnectionEnds(b) PROVE RoomInv'
    <2>1. /\ UNCHANGED <<roomVars, loopVars, permit, told>> /\ frame' = [frame EXCEPT ![b] = NoFrame]
          /\ conn' = [conn EXCEPT ![b] = "left"]
      BY <1>4 DEF ConnectionEnds
    <2> QED BY <2>1 DEF RoomInv, roomVars, loopVars
  <1> QED BY <1>1, <1>2, <1>3, <1>4 DEF Connections

LEMMA RoomRoom ==
  ASSUME RoomInv, Room
  PROVE  RoomInv'
  <1>1. CASE Check
    BY <1>1 DEF Check, StepTick, RoomInv, roomVars, connVars
  <1>2. CASE Look
    BY <1>2 DEF Look, StepTick, RoomInv, roomVars, connVars
  <1>3. CASE Tick
    BY <1>3 DEF Tick, StepTick, RoomInv, roomVars, connVars
  <1>4. CASE Notified
    BY <1>4 DEF Notified, RoomInv, roomVars, connVars
  <1>5. CASE Closing
    BY <1>5 DEF Closing, RoomInv, roomVars, connVars
  <1>6. CASE Opening
    <2>1. told' \in [Bots -> Nat \X Nat]
      BY <1>6 DEF Opening, RoomInv
    <2>2. /\ UNCHANGED <<roomVars, due, permit, conn, frame>>
          /\ todo' \subseteq todo /\ pc' \in {pc, "check"}
      BY <1>6 DEF Opening
    <2> QED BY <2>1, <2>2 DEF RoomInv, roomVars
  <1>7. ASSUME NEW sunk \in SUBSET afloat, Simulate(sunk) PROVE RoomInv'
    <2>1. UNCHANGED <<due, permit, conn, told, frame, gone>> /\ pc = "closing"
      BY <1>7 DEF Simulate, connVars
    <2>2. \/ /\ tick' = tick + 1 /\ afloat' = afloat \ sunk
             /\ pc' = "opening" /\ todo' = afloat' \ gone
             /\ UNCHANGED <<running, batch, match>>
          \/ /\ tick' = tick + 1 /\ afloat' = afloat \ sunk
             /\ running' = FALSE /\ batch' = FALSE
             /\ pc' = "check" /\ todo' = {} /\ UNCHANGED match
          \/ /\ match' = match + 1 /\ tick' = 0 /\ running' = TRUE /\ afloat' = Bots \ gone
             /\ pc' = "check" /\ todo' = {} /\ UNCHANGED batch
      BY <1>7 DEF Simulate, Layout
    <2>3. /\ pc' \in {"check", "opening"} /\ todo' \subseteq Bots /\ (pc' = "opening" => running')
          /\ running' \in BOOLEAN /\ batch' \in BOOLEAN
      BY <2>1, <2>2 DEF RoomInv
    <2>4. match' \in Nat /\ tick' \in Nat
      BY <2>2 DEF RoomInv
    <2>5. afloat' \subseteq Bots /\ afloat' \cap gone = {}
      BY <2>2 DEF RoomInv
    <2> QED BY <2>1, <2>3, <2>4, <2>5 DEF RoomInv
  <1> QED BY <1>1, <1>2, <1>3, <1>4, <1>5, <1>6, <1>7 DEF Room

LEMMA RoomEvents ==
  ASSUME RoomInv, Events
  PROVE  RoomInv'
  <1>0. pc = "select" /\ pc' = "check" /\ UNCHANGED <<todo, due, permit>>
    BY DEF Events, Start, HandleDisconnect, Kick, Abort, Handling
  <1>1. ASSUME NEW inBatch \in BOOLEAN, Start(inBatch) PROVE RoomInv'
    BY <1>0, <1>1 DEF Start, Layout, RoomInv, connVars
  <1>2. ASSUME NEW b \in Bots, HandleDisconnect(b) PROVE RoomInv'
    <2>1. conn' = [conn EXCEPT ![b] = "down"] /\ UNCHANGED <<told, frame>>
      BY <1>2 DEF HandleDisconnect
    <2>2. UNCHANGED roomVars \/ Forfeit(b)
      BY <1>2 DEF HandleDisconnect
    <2> QED BY <1>0, <2>1, <2>2 DEF Forfeit, RoomInv, roomVars
  <1>3. ASSUME NEW b \in Bots, Kick(b) PROVE RoomInv'
    BY <1>0, <1>3 DEF Kick, Forfeit, RoomInv, connVars
  <1>4. CASE Abort
    BY <1>0, <1>4 DEF Abort, RoomInv, connVars
  <1> QED BY <1>1, <1>2, <1>3, <1>4 DEF Events

LEMMA RoomStep == RoomInv /\ SlotsInv /\ [Next]_vars => RoomInv'
  <1>1. ASSUME RoomInv, DeadlinePasses PROVE RoomInv'
    BY <1>1 DEF DeadlinePasses, RoomInv, roomVars, connVars
  <1>2. ASSUME RoomInv, UNCHANGED vars PROVE RoomInv'
    BY <1>2 DEF vars, RoomInv, roomVars, loopVars, connVars
  <1> QED BY <1>1, <1>2, RoomConnections, RoomRoom, RoomEvents DEF Next

-----------------------------------------------------------------------------
(* The slots, step by step. *)

\* One slot changes, and none of them opens.
LEMMA SlotAt ==
  ASSUME SlotsInv, NEW b \in Bots, NEW w, NEW c, Good(w, c, opened[b]),
         win' = [win EXCEPT ![b] = w], cnt' = [cnt EXCEPT ![b] = c],
         UNCHANGED <<opened, taken, running, match, tick, pc, todo>>,
         w.open => win[b].open /\ w.match = win[b].match /\ w.tick = win[b].tick
  PROVE  SlotsInv'
  <1>1. \A a \in Bots : /\ win'[a] = IF a = b THEN w ELSE win[a]
                        /\ cnt'[a] = IF a = b THEN c ELSE cnt[a]
    BY DEF SlotsInv
  <1>2. w \in Windows /\ c \in Counts
    BY DEF Good
  <1>3. win' \in [Bots -> Windows] /\ cnt' \in [Bots -> Counts]
    BY <1>2 DEF SlotsInv
  <1> QED BY <1>1, <1>3 DEF SlotsInv

\* The windows stay as they are.
LEMMA SlotsKept ==
  ASSUME SlotsInv, UNCHANGED <<slotVars, taken, running, match, tick>>,
         pc # "closing", pc' # "opening",
         pc' = "closing" => todo' = Bots
  PROVE  SlotsInv'
  BY DEF SlotsInv, slotVars

\* Some windows are closed, whichever they are.
LEMMA SlotsClosed ==
  ASSUME SlotsInv, UNCHANGED <<opened, match, tick>>, NEW S \in SUBSET Bots,
         win' = [b \in Bots |-> IF b \in S THEN CloseWindow(win[b]) ELSE win[b]],
         cnt' = [b \in Bots |-> IF b \in S THEN Completed(cnt[b], win[b]) ELSE cnt[b]],
         taken' = [b \in Bots |-> NoCommand],
         pc' = "check", S = Bots \/ running' = running
  PROVE  SlotsInv'
  <1>1. ASSUME NEW b \in Bots
        PROVE  Good(win'[b], cnt'[b], opened'[b]) /\ (b \in S => ~win'[b].open)
    BY GoodClosed, ClosedIsWindow DEF SlotsInv
  <1>2. win' \in [Bots -> Windows] /\ cnt' \in [Bots -> Counts]
    <2>1. \A b \in Bots : win'[b] \in Windows /\ cnt'[b] \in Counts
      BY <1>1 DEF Good
    <2> QED BY <2>1
  <1>3. ASSUME NEW b \in Bots, win'[b].open
        PROVE  running' /\ win'[b].match = match /\ win'[b].tick = tick
    <2>1. b \notin S /\ win'[b] = win[b]
      BY <1>1, <1>3
    <2> QED BY <1>3, <2>1 DEF SlotsInv
  <1> QED BY <1>1, <1>2, <1>3 DEF SlotsInv

\* A match begins.
LEMMA SlotsLayout ==
  ASSUME SlotsInv, NEW m, Layout(m), taken' = [b \in Bots |-> NoCommand], pc' = "check"
  PROVE  SlotsInv'
  <1>1. \A b \in Bots : CloseWindow(win[b]) = ClosedWindow
    BY GoodClosed DEF SlotsInv
  <1>2. /\ win' = [b \in Bots |-> ClosedWindow] /\ cnt' = [b \in Bots |-> NoCounts]
        /\ opened' = [b \in Bots |-> 0]
    BY <1>1 DEF Layout
  <1>3. NoCounts \in Counts
    BY DEF NoCounts, Counts
  <1> QED BY <1>2, <1>3, GoodFresh, ClosedIsWindow DEF SlotsInv

LEMMA NothingTaken ==
  ASSUME SlotsInv, pc # "closing"
  PROVE  taken = [b \in Bots |-> NoCommand]
  BY DEF SlotsInv

LEMMA SlotsConnections ==
  ASSUME RoomInv, SlotsInv, Connections
  PROVE  SlotsInv'
  <1>1. ASSUME NEW b \in Bots, NEW m, NEW t, NEW o, Receive(b, m, t, o) PROVE SlotsInv'
    BY <1>1 DEF Receive, SlotsInv, roomVars, loopVars, slotVars
  <1>2. ASSUME NEW b \in Bots, Submit(b) PROVE SlotsInv'
    <2>1. frame[b] \in CommandFrames /\ Good(win[b], cnt[b], opened[b])
      BY <1>2 DEF Submit, RoomInv, SlotsInv
    <2>2. /\ win' = [win EXCEPT ![b] = AfterSubmit(win[b], frame[b])]
          /\ cnt' = [cnt EXCEPT ![b] = Counted(cnt[b], win[b], frame[b])]
          /\ UNCHANGED <<opened, taken, running, match, tick, pc, todo>>
      BY <1>2 DEF Submit, roomVars, loopVars
    <2> DEFINE w == AfterSubmit(win[b], frame[b])
               c == Counted(cnt[b], win[b], frame[b])
    <2>3. /\ Good(w, c, opened[b])
          /\ w.open => win[b].open /\ w.match = win[b].match /\ w.tick = win[b].tick
      BY <2>1, GoodSubmitted
    <2> HIDE DEF w, c
    <2>4. win' = [win EXCEPT ![b] = w] /\ cnt' = [cnt EXCEPT ![b] = c]
      BY <2>2 DEF w, c
    <2> QED BY <2>2, <2>3, <2>4, SlotAt
  <1>3. ASSUME NEW b \in Bots, NEW w,
               w = [win[b] EXCEPT !.sent = TRUE] \/ w = [win[b] EXCEPT !.expired = TRUE],
               win' = [win EXCEPT ![b] = w], Good(win[b], cnt[b], opened[b]),
               UNCHANGED <<roomVars, loopVars, taken, cnt, opened>>
        PROVE  SlotsInv'
    <2>1. /\ Good(w, cnt[b], opened[b])
          /\ w.open => win[b].open /\ w.match = win[b].match /\ w.tick = win[b].tick
      BY <1>3, GoodMarked
    <2>2. cnt' = [cnt EXCEPT ![b] = cnt[b]]
      BY <1>3 DEF SlotsInv
    <2>3. UNCHANGED <<opened, taken, running, match, tick, pc, todo>>
      BY <1>3 DEF roomVars, loopVars
    <2> QED BY <1>3, <2>1, <2>2, <2>3, SlotAt
  <1>4. ASSUME NEW b \in Bots, Sent(b) PROVE SlotsInv'
    <2>1. win' = [win EXCEPT ![b] = [win[b] EXCEPT !.sent = TRUE]]
      BY <1>4 DEF Sent
    <2>2. Good(win[b], cnt[b], opened[b])
      BY DEF SlotsInv
    <2> QED BY <1>3, <1>4, <2>1, <2>2 DEF Sent
  <1>5. ASSUME NEW b \in Bots, Expire(b) PROVE SlotsInv'
    <2>1. win' = [win EXCEPT ![b] = [win[b] EXCEPT !.expired = TRUE]]
      BY <1>5 DEF Expire
    <2>2. Good(win[b], cnt[b], opened[b])
      BY DEF SlotsInv
    <2> QED BY <1>3, <1>5, <2>1, <2>2 DEF Expire
  <1>6. ASSUME NEW b \in Bots, ConnectionEnds(b) PROVE SlotsInv'
    <2>1. /\ win' = [win EXCEPT ![b] = CloseWindow(win[b])]
          /\ cnt' = [cnt EXCEPT ![b] = Completed(cnt[b], win[b])]
          /\ UNCHANGED <<opened, taken, running, match, tick, pc, todo>>
      BY <1>6 DEF ConnectionEnds, roomVars, loopVars
    <2>2. Good(win[b], cnt[b], opened[b])
      BY DEF SlotsInv
    <2> QED BY <2>1, <2>2, GoodClosed, ClosedIsWindow, SlotAt
  <1> QED BY <1>1, <1>2, <1>4, <1>5, <1>6 DEF Connections

LEMMA SlotsRoom ==
  ASSUME RoomInv, SlotsInv, Room
  PROVE  SlotsInv'
  <1>1. CASE Check \/ Look \/ Tick \/ Notified
    <2>1. /\ UNCHANGED <<slotVars, taken, running, match, tick>> /\ pc \in {"check", "look", "select"}
          /\ pc' # "opening" /\ (pc' = "closing" => todo' = Bots)
      BY <1>1 DEF Check, Look, Tick, Notified, StepTick, roomVars
    <2> QED BY <2>1, SlotsKept
  <1>2. CASE Closing
    <2> DEFINE b == First(todo)
    <2>1. b \in todo /\ b \in Bots
      BY <1>2, FirstIn DEF Closing, RoomInv
    <2> HIDE DEF b
    <2>2. /\ todo' = todo \ {b} /\ taken' = [taken EXCEPT ![b] = win[b].command]
          /\ win' = [win EXCEPT ![b] = CloseWindow(win[b])]
          /\ cnt' = [cnt EXCEPT ![b] = Completed(cnt[b], win[b])]
          /\ UNCHANGED <<pc, running, match, tick, opened>> /\ pc = "closing"
      BY <1>2 DEF Closing, roomVars, b
    <2>3. Good(win[b], cnt[b], opened[b]) /\ (win[b].open => win[b].match = match /\ win[b].tick = tick)
      BY <2>1 DEF SlotsInv
    <2>4. /\ \A a \in Bots : a # b => win'[a] = win[a] /\ cnt'[a] = cnt[a] /\ taken'[a] = taken[a]
          /\ win'[b] = CloseWindow(win[b]) /\ cnt'[b] = Completed(cnt[b], win[b])
          /\ taken'[b] = win[b].command
      BY <2>1, <2>2 DEF SlotsInv
    <2>5. Good(win'[b], cnt'[b], opened'[b]) /\ ~win'[b].open
      BY <2>2, <2>3, <2>4, GoodClosed, ClosedIsWindow
    <2>6. /\ win[b].command \in {NoCommand} \cup Commanded
          /\ win[b].command # NoCommand => /\ win[b].command.inTime /\ win[b].command.match = match
                                           /\ win[b].command.tick = tick
      BY <2>3 DEF Good, Windows
    <2>7. /\ win' \in [Bots -> Windows] /\ cnt' \in [Bots -> Counts]
          /\ taken' \in [Bots -> {NoCommand} \cup Commanded]
      <3>1. CloseWindow(win[b]) \in Windows /\ Completed(cnt[b], win[b]) \in Counts
        BY <2>4, <2>5 DEF Good
      <3> QED BY <2>2, <2>6, <3>1 DEF SlotsInv
    <2> QED BY <2>1, <2>2, <2>4, <2>5, <2>6, <2>7 DEF SlotsInv
  <1>3. CASE Opening
    <2>1. CASE todo = {}
      BY <1>3, <2>1 DEF Opening, SlotsInv, roomVars
    <2>2. CASE todo # {}
      <3> DEFINE b == First(todo)
      <3>1. b \in todo /\ b \in Bots
        BY <2>2, FirstIn DEF RoomInv
      <3> HIDE DEF b
      <3>2. /\ todo' = todo \ {b} /\ win' = [win EXCEPT ![b] = OpenWindow(match, tick)]
            /\ opened' = [opened EXCEPT ![b] = @ + 1]
            /\ UNCHANGED <<pc, running, match, tick, taken, cnt>> /\ pc = "opening"
        BY <1>3, <2>2 DEF Opening, roomVars, b
      <3>3. Good(win[b], cnt[b], opened[b]) /\ ~win[b].open /\ match \in Nat /\ tick \in Nat /\ running
        BY <3>1, <3>2 DEF SlotsInv, RoomInv
      <3>4. /\ Good(OpenWindow(match, tick), cnt[b], opened[b] + 1)
            /\ OpenWindow(match, tick).match = match /\ OpenWindow(match, tick).tick = tick
        BY <3>3, GoodOpened
      <3>5. /\ \A a \in Bots : a # b => win'[a] = win[a] /\ opened'[a] = opened[a]
            /\ win'[b] = OpenWindow(match, tick) /\ opened'[b] = opened[b] + 1
        BY <3>1, <3>2 DEF SlotsInv
      <3>6. win' \in [Bots -> Windows] /\ opened' \in [Bots -> Nat]
        BY <3>2, <3>4 DEF SlotsInv, Good
      <3> QED BY <3>1, <3>2, <3>3, <3>4, <3>5, <3>6 DEF SlotsInv
    <2> QED BY <2>1, <2>2
  <1>4. ASSUME NEW sunk \in SUBSET afloat, Simulate(sunk) PROVE SlotsInv'
    <2>1. /\ pc = "closing" /\ todo = {} /\ taken' = [b \in Bots |-> NoCommand]
      BY <1>4 DEF Simulate
    <2>2. \A b \in Bots : ~win[b].open
      BY <2>1 DEF SlotsInv
    <2>3. CASE UNCHANGED slotVars
      BY <2>1, <2>2, <2>3 DEF SlotsInv, slotVars
    <2>4. CASE CloseAll
      <3>1. \A b \in Bots : Good(win'[b], cnt'[b], opened'[b]) /\ ~win'[b].open
        BY <2>4, GoodClosed, ClosedIsWindow DEF CloseAll, SlotsInv
      <3>2. win' \in [Bots -> Windows] /\ cnt' \in [Bots -> Counts] /\ UNCHANGED opened
        <4>1. \A b \in Bots : win'[b] \in Windows /\ cnt'[b] \in Counts
          BY <3>1 DEF Good
        <4> QED BY <2>4, <4>1 DEF CloseAll
      <3> QED BY <2>1, <3>1, <3>2 DEF SlotsInv
    <2>5. ASSUME Layout(match + 1), pc' = "check" PROVE SlotsInv'
      BY <2>1, <2>5, SlotsLayout
    <2> QED BY <1>4, <2>3, <2>4, <2>5 DEF Simulate
  <1> QED BY <1>1, <1>2, <1>3, <1>4 DEF Room

LEMMA SlotsEvents ==
  ASSUME RoomInv, SlotsInv, Events
  PROVE  SlotsInv'
  <1>0. pc = "select" /\ pc' = "check" /\ UNCHANGED <<todo, taken>>
    BY DEF Events, Start, HandleDisconnect, Kick, Abort, Handling
  <1>1. taken' = [b \in Bots |-> NoCommand]
    BY <1>0, NothingTaken
  <1>2. ASSUME NEW inBatch \in BOOLEAN, Start(inBatch) PROVE SlotsInv'
    BY <1>0, <1>1, <1>2, SlotsLayout DEF Start
  <1>3. ASSUME NEW b \in Bots, Forfeit(b) PROVE SlotsInv'
    <2> DEFINE S == IF batch THEN Bots ELSE {b}
    <2>1. /\ S \in SUBSET Bots /\ UNCHANGED <<opened, match, tick>>
          /\ win' = [a \in Bots |-> IF a \in S THEN CloseWindow(win[a]) ELSE win[a]]
          /\ cnt' = [a \in Bots |-> IF a \in S THEN Completed(cnt[a], win[a]) ELSE cnt[a]]
          /\ batch => S = Bots
          /\ ~batch => running' = running
      BY <1>3 DEF Forfeit, RoomInv
    <2> HIDE DEF S
    <2>2. CASE ~batch
      BY <1>0, <1>1, <2>1, <2>2, SlotsClosed
    <2>3. CASE batch
      BY <1>0, <1>1, <2>1, <2>3, SlotsClosed
    <2> QED BY <2>2, <2>3
  <1>4. ASSUME NEW b \in Bots, HandleDisconnect(b) PROVE SlotsInv'
    BY <1>0, <1>3, <1>4, SlotsKept DEF HandleDisconnect, roomVars
  <1>5. CASE Abort
    <2>1. /\ win' = [b \in Bots |-> IF b \in Bots THEN CloseWindow(win[b]) ELSE win[b]]
          /\ cnt' = [b \in Bots |-> IF b \in Bots THEN Completed(cnt[b], win[b]) ELSE cnt[b]]
          /\ UNCHANGED <<opened, match, tick>>
      BY <1>5 DEF Abort, CloseAll
    <2> QED BY <1>0, <1>1, <2>1, SlotsClosed
  <1> QED BY <1>2, <1>3, <1>4, <1>5 DEF Events, Kick

LEMMA SlotsStep == RoomInv /\ SlotsInv /\ [Next]_vars => SlotsInv'
  <1>1. ASSUME SlotsInv, RoomInv, DeadlinePasses PROVE SlotsInv'
    <2>1. UNCHANGED <<slotVars, taken, running, match, tick>> /\ pc = "select" /\ UNCHANGED pc
      BY <1>1 DEF DeadlinePasses, roomVars
    <2> QED BY <1>1, <2>1, SlotsKept
  <1>2. ASSUME SlotsInv, UNCHANGED vars PROVE SlotsInv'
    BY <1>2 DEF vars, SlotsInv, roomVars, loopVars, slotVars
  <1> QED BY <1>1, <1>2, SlotsConnections, SlotsRoom, SlotsEvents DEF Next

LEMMA Invariance == Spec => [](RoomInv /\ SlotsInv)
  <1>1. Init => RoomInv /\ SlotsInv
    BY RoomStart, SlotsStart
  <1>2. RoomInv /\ SlotsInv /\ [Next]_vars => RoomInv' /\ SlotsInv'
    BY RoomStep, SlotsStep
  <1> QED BY <1>1, <1>2, PTL DEF Spec

\* Every reachable state of the room's loop and of the slots is typed.
THEOREM TypeCorrect == Spec => []TypeOK
  <1>1. RoomInv /\ SlotsInv => TypeOK
    BY DEF RoomInv, SlotsInv, TypeOK, Windows, Counts
  <1> QED BY <1>1, Invariance, PTL

\* The counters of a team add up whatever the interleaving (CommandSlot and close_window).
THEOREM AddUp == Spec => []CountersAddUp
  <1>1. SlotsInv => CountersAddUp
    <2> SUFFICES ASSUME SlotsInv, NEW b \in Bots
                 PROVE  /\ opened[b] = cnt[b].completed + (IF win[b].open THEN 1 ELSE 0)
                        /\ cnt[b].accepted = cnt[b].completed - cnt[b].missed
                                              + (IF win[b].command # NoCommand THEN 1 ELSE 0)
                        /\ cnt[b].lateWindows <= cnt[b].missed
                        /\ cnt[b].samples <= opened[b]
      BY DEF CountersAddUp
    <2>1. Good(win[b], cnt[b], opened[b])
      BY DEF SlotsInv
    <2> QED BY <2>1 DEF Good, Counts
  <1> QED BY <1>1, Invariance, PTL

-----------------------------------------------------------------------------
(* What a tick applies. *)

\* A tick takes a command of each bot once its window is closed, and applies it at once.
LEMMA AppliedStep == RoomInv /\ SlotsInv /\ AppliedIsCurrent /\ [Next]_vars => AppliedIsCurrent'
  <1> SUFFICES ASSUME RoomInv, SlotsInv, AppliedIsCurrent, [Next]_vars PROVE AppliedIsCurrent'
    OBVIOUS
  <1>1. CASE UNCHANGED applied
    BY <1>1 DEF AppliedIsCurrent
  <1>2. CASE applied' = {}
    BY <1>2 DEF AppliedIsCurrent
  <1>3. ASSUME NEW sunk \in SUBSET afloat, Simulate(sunk) PROVE AppliedIsCurrent'
    <2> SUFFICES ASSUME NEW a \in applied'
                 PROVE  /\ a.command.match = a.match /\ a.command.tick = a.tick
                        /\ a.command.inTime /\ a.afloat /\ ~a.gone
      BY DEF AppliedIsCurrent
    <2>1. PICK b \in afloat : /\ taken[b] # NoCommand
                              /\ a = [bot |-> b, command |-> taken[b], match |-> match, tick |-> tick,
                                      afloat |-> b \in afloat, gone |-> b \in gone]
      BY <1>3 DEF Simulate
    <2>2. taken[b].match = match /\ taken[b].tick = tick /\ taken[b].inTime /\ b \notin gone
      BY <2>1 DEF SlotsInv, RoomInv
    <2> QED BY <2>1, <2>2
  <1>4. ASSUME Room PROVE AppliedIsCurrent'
    BY <1>1, <1>2, <1>3, <1>4 DEF Room, Check, Look, Tick, Notified, Closing, Opening
  <1>5. ASSUME Events \/ Connections \/ DeadlinePasses \/ UNCHANGED vars PROVE UNCHANGED applied
    BY <1>5 DEF Events, Start, HandleDisconnect, Kick, Abort, Connections, Receive, Submit, Sent,
                Expire, ConnectionEnds, DeadlinePasses, vars
  <1> QED BY <1>1, <1>4, <1>5 DEF Next

\* What a tick applies was submitted for that tick of that match and in time, by a bot afloat
\* (step_tick closing the windows before it simulates).
THEOREM Current == Spec => []AppliedIsCurrent
  <1>1. Init => AppliedIsCurrent
    BY DEF Init, AppliedIsCurrent
  <1> QED BY <1>1, Invariance, AppliedStep, PTL DEF Spec

\* A command once accepted is not replaced while its window is open (CommandSlot::submit).
THEOREM FirstWins == Spec => FirstCommandWins
  <1>1. RoomInv /\ SlotsInv /\ [Next]_vars =>
          [\A b \in Bots : win[b].open /\ win[b].command # NoCommand /\ win'[b].open
             => win'[b].command = win[b].command]_vars
    <2> SUFFICES ASSUME RoomInv, SlotsInv, [Next]_vars, NEW b \in Bots,
                        win[b].open, win[b].command # NoCommand, win'[b].open
                 PROVE  win'[b].command = win[b].command
      OBVIOUS
    <2>0. /\ CloseWindow(win[b]) = ClosedWindow /\ ~ClosedWindow.open
          /\ Good(win[b], cnt[b], opened[b])
      BY GoodClosed, ClosedIsWindow DEF SlotsInv
    <2>1. CASE win'[b] = win[b] \/ win'[b] = CloseWindow(win[b])
      BY <2>0, <2>1
    <2>2. ASSUME NEW a \in Bots, Submit(a) PROVE win'[b].command = win[b].command
      <3>1. win' = [win EXCEPT ![a] = AfterSubmit(win[a], frame[a])] /\ frame[a] \in CommandFrames
        BY <2>2 DEF Submit, RoomInv
      <3>2. CASE a = b
        <4>1. AfterSubmit(win[b], frame[b]).command = win[b].command
          BY <2>0, <3>1, <3>2, GoodSubmitted
        <4> QED BY <3>1, <3>2, <4>1 DEF SlotsInv
      <3> QED BY <2>1, <3>1, <3>2 DEF SlotsInv
    <2>3. ASSUME NEW a \in Bots, Sent(a) \/ Expire(a) PROVE win'[b].command = win[b].command
      BY <2>3 DEF Sent, Expire, SlotsInv, Windows
    <2>4. ASSUME NEW a \in Bots, ConnectionEnds(a) PROVE win'[b] = win[b] \/ win'[b] = CloseWindow(win[b])
      BY <2>4 DEF ConnectionEnds, SlotsInv
    <2>5. CASE Opening
      <3>1. CASE todo # {}
        <4>1. win' = [win EXCEPT ![First(todo)] = OpenWindow(match, tick)] /\ pc = "opening"
          BY <2>5, <3>1 DEF Opening
        <4>2. b # First(todo)
          BY <3>1, <4>1, FirstIn DEF RoomInv, SlotsInv
        <4> QED BY <2>1, <4>1, <4>2 DEF SlotsInv
      <3> QED BY <2>1, <2>5, <3>1 DEF Opening
    <2>6. CASE Closing
      BY <2>1, <2>6 DEF Closing, SlotsInv
    <2>7. ASSUME NEW sunk \in SUBSET afloat, Simulate(sunk) PROVE win'[b] = win[b] \/ win'[b] = CloseWindow(win[b])
      BY <2>7 DEF Simulate, CloseAll, Layout, slotVars
    <2>8. CASE Check \/ Look \/ Tick \/ Notified
      BY <2>1, <2>8 DEF Check, Look, Tick, Notified, slotVars
    <2>9. ASSUME Events PROVE win'[b] = win[b] \/ win'[b] = CloseWindow(win[b])
      BY <2>9 DEF Events, Start, HandleDisconnect, Kick, Abort, Forfeit, Layout, CloseAll, slotVars
    <2>10. ASSUME DeadlinePasses \/ UNCHANGED vars \/ \E a \in Bots : \E m, t, o : Receive(a, m, t, o)
           PROVE  win'[b] = win[b]
      BY <2>10 DEF DeadlinePasses, vars, Receive, slotVars
    <2>11. ASSUME Connections PROVE win'[b].command = win[b].command
      BY <2>1, <2>2, <2>3, <2>4, <2>10, <2>11 DEF Connections
    <2>12. ASSUME Room PROVE win'[b].command = win[b].command
      BY <2>1, <2>5, <2>6, <2>7, <2>8, <2>12 DEF Room
    <2> QED BY <2>1, <2>9, <2>10, <2>11, <2>12 DEF Next
  <1> QED BY <1>1, Invariance, PTL DEF Spec, FirstCommandWins

-----------------------------------------------------------------------------
(* Waiting in a batch. *)

LEMMA WakeupStep == RoomInv /\ SlotsInv /\ NoLostWakeup /\ [Next]_vars => NoLostWakeup'
  <1> SUFFICES ASSUME RoomInv, SlotsInv, NoLostWakeup, [Next]_vars,
                      pc' = "select", batch', running', \A b \in Bots : Answered(b)'
               PROVE  permit' \/ due'
    BY DEF NoLostWakeup, Lockstep
  <1>1. ASSUME UNCHANGED <<pc, batch, running, afloat>>, due => due', permit => permit',
               \A b \in Bots : win'[b].command # NoCommand => win[b].command # NoCommand
        PROVE  permit' \/ due'
    BY <1>1 DEF NoLostWakeup, Lockstep, Answered
  <1>2. CASE Connections
    <2>1. ASSUME NEW b \in Bots, NEW m, NEW t, NEW o, Receive(b, m, t, o) PROVE permit' \/ due'
      BY <1>1, <2>1 DEF Receive, roomVars, loopVars, slotVars
    <2>2. ASSUME NEW b \in Bots, Submit(b) PROVE permit' \/ due'
      <3>1. Good(win[b], cnt[b], opened[b]) /\ frame[b] \in CommandFrames
        BY <2>2 DEF Submit, SlotsInv, RoomInv
      <3>2. /\ win' = [win EXCEPT ![b] = AfterSubmit(win[b], frame[b])]
            /\ UNCHANGED <<pc, batch, running, afloat, due>>
            /\ permit' = (permit \/ Verdict(win[b], frame[b]) = "accepted")
        BY <2>2 DEF Submit, Notifies, roomVars, loopVars
      <3>3. CASE Verdict(win[b], frame[b]) # "accepted"
        <4>1. AfterSubmit(win[b], frame[b]).command = win[b].command
          BY <3>1, <3>3, GoodSubmitted
        <4> QED BY <1>1, <3>2, <4>1 DEF SlotsInv
      <3> QED BY <3>2, <3>3
    <2>3. ASSUME NEW b \in Bots, Sent(b) \/ Expire(b) PROVE permit' \/ due'
      <3> DEFINE sent == [win[b] EXCEPT !.sent = TRUE]
                 late == [win[b] EXCEPT !.expired = TRUE]
      <3>0. sent.command = win[b].command /\ late.command = win[b].command
        BY DEF SlotsInv, Windows
      <3>1. win' = [win EXCEPT ![b] = sent] \/ win' = [win EXCEPT ![b] = late]
        BY <2>3 DEF Sent, Expire
      <3> HIDE DEF sent, late
      <3>2. \A a \in Bots : win'[a].command = win[a].command
        BY <3>0, <3>1 DEF SlotsInv
      <3> QED BY <1>1, <2>3, <3>2 DEF Sent, Expire, roomVars, loopVars
    <2>4. ASSUME NEW b \in Bots, ConnectionEnds(b) PROVE permit' \/ due'
      <3>1. CloseWindow(win[b]).command = NoCommand
        BY ClosedIsWindow DEF CloseWindow
      <3>2. \A a \in Bots : win'[a].command # NoCommand => win[a].command # NoCommand
        BY <2>4, <3>1 DEF ConnectionEnds, SlotsInv
      <3> QED BY <1>1, <2>4, <3>2 DEF ConnectionEnds, roomVars, loopVars
    <2> QED BY <1>2, <2>1, <2>2, <2>3, <2>4 DEF Connections
  <1>3. CASE Room
    <2>1. CASE Look
      <3>1. todo # {} /\ ~Answered(First(todo)) /\ UNCHANGED <<roomVars, slotVars>>
        BY <2>1 DEF Look, StepTick
      <3>2. First(todo) \in Bots
        BY <3>1, FirstIn DEF RoomInv
      <3> QED BY <3>1, <3>2 DEF Answered, roomVars, slotVars
    <2>2. CASE Check
      BY <2>2 DEF Check, StepTick, Lockstep, roomVars
    <2> QED BY <1>3, <2>1, <2>2 DEF Room, Tick, StepTick, Notified, Closing, Opening, Simulate
  <1>4. CASE Events
    BY <1>4 DEF Events, Start, HandleDisconnect, Kick, Abort, Handling
  <1>5. CASE DeadlinePasses
    BY <1>5 DEF DeadlinePasses
  <1>6. CASE UNCHANGED vars
    BY <1>1, <1>6 DEF vars, roomVars, loopVars, slotVars
  <1> QED BY <1>2, <1>3, <1>4, <1>5, <1>6 DEF Next

\* A batch never waits when nobody is left to answer (the permit of ingress_notify).
THEOREM WakeupKept == Spec => []NoLostWakeup
  <1>1. Init => NoLostWakeup
    BY DEF Init, NoLostWakeup, Lockstep
  <1> QED BY <1>1, Invariance, WakeupStep, PTL DEF Spec

-----------------------------------------------------------------------------
(* Frames and windows. *)

\* A tick counts first, then the windows open, and then its frames are sent.
FrameInv ==
  /\ \A b \in Bots : told[b][1] < match \/ (told[b][1] = match /\ told[b][2] <= tick)
  /\ pc = "opening" => \A b \in Bots :
       /\ told[b] # <<match, tick>>
       /\ b \in afloat \ gone /\ b \notin todo /\ conn[b] = "up" => win[b].open
  /\ \A b \in afloat \ gone :
       running /\ told[b] = <<match, tick>> /\ conn[b] = "up" /\ pc # "closing" => win[b].open

LEMMA FrameKept ==
  ASSUME FrameInv, UNCHANGED <<match, tick, told>>, afloat' \ gone' \subseteq afloat \ gone,
         pc' = "opening" => pc = "opening" /\ UNCHANGED todo,
         pc # "closing" \/ UNCHANGED pc, running' => running,
         \A b \in Bots : conn'[b] = "up" => conn[b] = "up",
         \A b \in afloat' \ gone' :
           conn'[b] = "up" /\ win[b].open /\ (running' \/ pc' = "opening") => win'[b].open,
         afloat' \subseteq Bots
  PROVE  FrameInv'
  BY DEF FrameInv

\* A match begins: what was told is of an earlier one.
LEMMA FrameLayout ==
  ASSUME RoomInv, FrameInv, Layout(match + 1), UNCHANGED told, pc' = "check"
  PROVE  FrameInv'
  <1>1. match' = match + 1 /\ afloat' \subseteq Bots
    BY DEF Layout
  <1>2. \A b \in Bots : told'[b][1] < match' /\ told'[b] # <<match', tick'>>
    BY <1>1 DEF FrameInv, RoomInv
  <1> QED BY <1>1, <1>2 DEF FrameInv

LEMMA FrameConnections ==
  ASSUME RoomInv, SlotsInv, FrameInv, Connections
  PROVE  FrameInv'
  <1> SUFFICES ASSUME UNCHANGED <<match, tick, told, afloat, gone, pc, todo, running>>,
                      \A b \in Bots : conn'[b] = "up" => conn[b] = "up" /\ win'[b].open = win[b].open
               PROVE  FrameInv'
    <2>1. UNCHANGED <<match, tick, told, afloat, gone, pc, todo, running>>
      BY DEF Connections, Receive, Submit, Sent, Expire, ConnectionEnds, roomVars, loopVars, connVars
    <2>2. ASSUME NEW b \in Bots, conn'[b] = "up" PROVE conn[b] = "up" /\ win'[b].open = win[b].open
      <3>1. ASSUME NEW a \in Bots, Submit(a) PROVE UNCHANGED conn /\ win'[b].open = win[b].open
        <4>1. win' = [win EXCEPT ![a] = AfterSubmit(win[a], frame[a])] /\ UNCHANGED conn
          BY <3>1 DEF Submit
        <4>2. AfterSubmit(win[a], frame[a]).open = win[a].open
          BY DEF AfterSubmit, SlotsInv, Windows
        <4> QED BY <4>1, <4>2 DEF SlotsInv
      <3>2. ASSUME NEW a \in Bots, Sent(a) \/ Expire(a) PROVE UNCHANGED conn /\ win'[b].open = win[b].open
        BY <3>2 DEF Sent, Expire, connVars, SlotsInv, Windows
      <3>3. ASSUME NEW a \in Bots, ConnectionEnds(a) PROVE conn[b] = "up" /\ win'[b].open = win[b].open
        BY <2>2, <3>3 DEF ConnectionEnds, RoomInv, SlotsInv
      <3>4. ASSUME NEW a \in Bots, NEW m, NEW t, NEW o, Receive(a, m, t, o) PROVE UNCHANGED <<conn, win>>
        BY <3>4 DEF Receive, slotVars
      <3> QED BY <2>2, <3>1, <3>2, <3>3, <3>4 DEF Connections
    <2> QED BY <2>1, <2>2
  <1> QED BY FrameKept DEF RoomInv

LEMMA FrameRoom ==
  ASSUME RoomInv, SlotsInv, FrameInv, Room
  PROVE  FrameInv'
  <1>1. CASE Check \/ Look \/ Tick \/ Notified
    <2>1. /\ UNCHANGED <<match, tick, told, afloat, gone, running, conn, win>>
          /\ pc' # "opening" /\ pc # "closing"
      BY <1>1 DEF Check, Look, Tick, Notified, StepTick, roomVars, connVars, slotVars
    <2> QED BY <2>1, FrameKept DEF RoomInv
  <1>2. CASE Closing
    BY <1>2 DEF Closing, FrameInv, RoomInv, roomVars, connVars
  <1>3. CASE Opening
    <2>1. UNCHANGED <<match, tick, afloat, gone, running, conn>> /\ pc = "opening"
      BY <1>3 DEF Opening, roomVars
    <2>2. CASE todo = {}
      <3>1. /\ pc' = "check" /\ UNCHANGED <<todo, win>>
            /\ told' = [b \in Bots |-> IF b \in afloat \ gone THEN <<match, tick>> ELSE told[b]]
        BY <1>3, <2>2 DEF Opening
      <3>2. \A b \in Bots : told'[b] = <<match, tick>> \/ told'[b] = told[b]
        BY <3>1
      <3>3. \A b \in Bots : told'[b][1] < match \/ (told'[b][1] = match /\ told'[b][2] <= tick)
        BY <3>2 DEF FrameInv, RoomInv
      <3>4. \A b \in afloat \ gone : conn[b] = "up" => win[b].open
        BY <2>1, <2>2 DEF FrameInv, RoomInv
      <3> QED BY <2>1, <3>1, <3>3, <3>4 DEF FrameInv
    <2>3. CASE todo # {}
      <3> DEFINE b == First(todo)
      <3>1. b \in todo /\ b \in Bots
        BY <2>3, FirstIn DEF RoomInv
      <3> HIDE DEF b
      <3>2. /\ todo' = todo \ {b} /\ win' = [win EXCEPT ![b] = OpenWindow(match, tick)]
            /\ UNCHANGED <<pc, told>>
        BY <1>3, <2>3 DEF Opening, b
      <3>3. OpenWindow(match, tick).open
        BY DEF OpenWindow, ClosedWindow
      <3>4. \A a \in Bots : win'[a].open \/ (a # b /\ win'[a] = win[a])
        BY <3>1, <3>2, <3>3 DEF SlotsInv
      <3> QED BY <2>1, <3>1, <3>2, <3>4 DEF FrameInv, RoomInv
    <2> QED BY <2>2, <2>3
  <1>4. ASSUME NEW sunk \in SUBSET afloat, Simulate(sunk) PROVE FrameInv'
    <2>1. UNCHANGED <<told, conn>>
      BY <1>4 DEF Simulate, connVars
    <2>2. ASSUME tick' = tick + 1, UNCHANGED match, afloat' \subseteq Bots,
                 pc' = "opening" => todo' = afloat' \ gone'
          PROVE  FrameInv'
      <3>1. \A c \in Bots : /\ told'[c][1] < match \/ (told'[c][1] = match /\ told'[c][2] <= tick + 1)
                            /\ told'[c] # <<match, tick + 1>>
        BY <2>1 DEF FrameInv, RoomInv
      <3> QED BY <2>2, <3>1 DEF FrameInv
    <2>3. ASSUME Layout(match + 1), pc' = "check" PROVE FrameInv'
      BY <2>1, <2>3, FrameLayout
    <2> QED BY <1>4, <2>2, <2>3 DEF Simulate, RoomInv
  <1> QED BY <1>1, <1>2, <1>3, <1>4 DEF Room

LEMMA FrameEvents ==
  ASSUME RoomInv, SlotsInv, FrameInv, Events
  PROVE  FrameInv'
  <1>0. pc = "select" /\ pc' = "check" /\ UNCHANGED <<todo, told>>
        /\ \A b \in Bots : conn'[b] = "up" => conn[b] = "up"
    <2>1. UNCHANGED conn \/ \E b \in Bots : conn' = [conn EXCEPT ![b] = "down"]
      BY DEF Events, Start, HandleDisconnect, Kick, Abort, connVars
    <2> QED BY <2>1 DEF Events, Start, HandleDisconnect, Kick, Abort, Handling, connVars, RoomInv
  <1>1. ASSUME NEW inBatch \in BOOLEAN, Start(inBatch) PROVE FrameInv'
    BY <1>0, <1>1, FrameLayout DEF Start
  <1>2. ASSUME NEW b \in Bots, Forfeit(b) PROVE FrameInv'
    <2>1. /\ UNCHANGED <<match, tick>> /\ gone' = gone \cup {b} /\ afloat' = afloat \ {b}
          /\ running' => running /\ ~batch
      BY <1>2 DEF Forfeit, RoomInv
    <2>2. \A a \in Bots : a # b /\ ~batch => win'[a] = win[a]
      BY <1>2 DEF Forfeit
    <2> QED BY <1>0, <2>1, <2>2, FrameKept DEF RoomInv
  <1>3. ASSUME NEW b \in Bots, HandleDisconnect(b) PROVE FrameInv'
    <2>1. CASE UNCHANGED <<roomVars, slotVars>>
      BY <1>0, <2>1, FrameKept DEF RoomInv, roomVars, slotVars
    <2> QED BY <1>2, <1>3, <2>1 DEF HandleDisconnect
  <1>4. CASE Abort
    <2>1. UNCHANGED <<match, tick, afloat, gone>> /\ running' = FALSE
      BY <1>4 DEF Abort
    <2> QED BY <1>0, <2>1, FrameKept DEF RoomInv
  <1> QED BY <1>1, <1>2, <1>3, <1>4 DEF Events, Kick

LEMMA FrameStep == RoomInv /\ SlotsInv /\ FrameInv /\ [Next]_vars => FrameInv'
  <1>1. ASSUME FrameInv, DeadlinePasses \/ UNCHANGED vars PROVE FrameInv'
    BY <1>1 DEF FrameInv, DeadlinePasses, vars, roomVars, loopVars, connVars, slotVars
  <1> QED BY <1>1, FrameConnections, FrameRoom, FrameEvents DEF Next

\* A bot that has the frame of the tick that is awaited finds its window open for it.
THEOREM FrameFindsWindow == Spec => []FrameMeansWindow
  <1>1. Init => FrameInv
    BY DEF Init, FrameInv
  <1>2. RoomInv /\ SlotsInv /\ FrameInv => FrameMeansWindow
    BY DEF RoomInv, SlotsInv, FrameInv, FrameMeansWindow
  <1> QED BY <1>1, <1>2, Invariance, FrameStep, PTL DEF Spec
=============================================================================
