---------------------------- MODULE ReplayProofs ----------------------------
(***************************************************************************)
(* Proofs about Replay, for any simulation, any number of bots, any length *)
(* of match and any buffer: what a replay shows is what the match showed,  *)
(* and a log with all its records is replayed to its end.                  *)
(*                                                                         *)
(* The argument: the reader is always at a point of the course the match   *)
(* went through, and the records it has not consumed yet are those the     *)
(* match wrote after that point.                                           *)
(***************************************************************************)
EXTENDS Replay, SequenceTheorems, FiniteSetTheorems, TLAPS

-----------------------------------------------------------------------------
(* The invariant, in layers. *)

IsSeq(s) == \E S : s \in Seq(S)

BeginsWith(t, s) == Len(s) <= Len(t) /\ \A i \in 1..Len(s) : s[i] = t[i]

\* A log file and its buffer.
IsDisk(d) ==
  /\ d.file \in Seq(Records) /\ d.buf \in Seq(Records) /\ Len(d.buf) <= BufferSize
  /\ d.torn \in BOOLEAN /\ d.hole \in BOOLEAN

DiskInv ==
  /\ IsDisk(disk)
  /\ ~disk.hole => BeginsWith(tape, disk.file)
  /\ ~disk.hole /\ state = "Running" => disk.file \o disk.buf = tape

NoEnd(t) == \A i \in 2..Len(t) : t[i].type # "end"

\* What has been recorded passes validation and leaves room for what may follow: the
\* bots still taking part are those no record drops, and no record is later than now.
OpenTape(t, bots, out, now) ==
  /\ t \in Seq(Records) /\ WellFormed(t) /\ NoEnd(t)
  /\ t[1].bots = bots /\ out = DroppedBefore(t, Len(t) + 1)
  /\ LastTick(t, Len(t) + 1) <= now

TapeInv ==
  /\ tape \in Seq(Records) /\ WellFormed(tape)
  /\ state \in {"Running", "Ended", "Crashed"} /\ batch \in BOOLEAN
  /\ IsWorld(world) /\ gone \subseteq world.bots \ world.afloat
  /\ state = "Running" =>
       world.tick < MatchTimeout /\ OpenTape(tape, world.bots, gone, world.tick)

\* q follows p in the course recorded on t, by a step of the simulation or by a forfeit.
StepsTo(p, q, t) ==
  /\ q.stepped /\ q.decided = Decided(q.world)
  /\ \/ q.recs = p.recs /\ q.world = Stepped(p.world, Silence)
     \/ /\ q.recs = p.recs + 1 /\ t[q.recs].type = "tick"
        /\ t[q.recs].tick = p.world.tick + 1
        /\ q.world = Stepped(p.world, t[q.recs].orders)
DropsTo(p, q, t) ==
  /\ q.recs = p.recs + 1 /\ t[q.recs].type = "disconnect"
  /\ t[q.recs].tick = p.world.tick /\ ~q.decided
  /\ q.world = Forfeited(p.world, t[q.recs].bot)

\* What t records after the first n records happened at tick `now` or later.
Later(t, n, now) ==
  \A j \in n + 1..Len(t) : t[j].tick >= now /\ (t[j].type = "tick" => t[j].tick > now)

\* A point of the course, among the records and the frames.
Placed(p, t, f) ==
  /\ p.recs \in 1..Len(t) /\ p.world.tick \in Nat
  /\ p.stepped \in BOOLEAN /\ p.decided \in BOOLEAN
  /\ \A j \in 2..p.recs : t[j].type # "end"
  /\ Later(t, p.recs, p.world.tick)
  /\ p.world.tick + 1 <= Len(f)
  /\ p.stepped => f[p.world.tick + 1] = p.world

\* The course ends where the match is.
Ending(p) ==
  /\ p.world = world
  /\ state # "Ended" => p.recs = Len(tape) /\ ~p.decided
  /\ state = "Ended" =>
       /\ Len(tape) = p.recs + 1
       /\ tape[Len(tape)].type = "end" /\ tape[Len(tape)].tick = world.tick
       /\ result.natural = p.decided
       /\ result.natural => tape[Len(tape)].winner = Winner(world)

Connected(c, t) ==
  \A i \in 1..Len(c) - 1 :
    ~c[i].decided /\ (StepsTo(c[i], c[i + 1], t) \/ DropsTo(c[i], c[i + 1], t))

CourseInv ==
  /\ IsSeq(course) /\ IsSeq(frames) /\ Len(frames) = world.tick + 1 /\ Len(course) >= 1
  /\ course[1] = Point(Rebuilt(tape[1]), 1, TRUE, FALSE)
  /\ \A i \in 1..Len(course) : Placed(course[i], tape, frames)
  /\ Connected(course, tape)
  /\ Ending(course[Len(course)])

\* The reader by itself, whatever it reads.
ReaderInv ==
  /\ mode \in {"idle", "capture", "play", "done", "refused"}
  /\ log \in Seq(Records) /\ pos \in 1..Len(log) + 1
  /\ IsWorld(room) /\ over \in BOOLEAN
  /\ mode \in {"capture", "play"} =>
       pos >= 2 /\ WellFormed(log) /\ (over \/ room.tick < MatchTimeout)
  /\ mode = "idle" => log = <<>> /\ shown = <<>>

\* The reader is at a point of the course.
At(p) == room = p.world /\ pos = p.recs + 1 /\ over = p.decided

Finished ==
  /\ pos = Len(log) + 1
  /\ log[Len(log)].type = "end" =>
       /\ room.tick = log[Len(log)].tick /\ over = result.natural
       /\ result.natural => log[Len(log)].winner = Winner(room)

FollowInv ==
  ~disk.hole =>
    /\ BeginsWith(tape, log)
    /\ mode \in {"idle", "refused"} => log = <<>> /\ shown = <<>>
    /\ mode \in {"capture", "play", "done"} =>
         /\ log # <<>> /\ IsSeq(shown) /\ BeginsWith(frames, shown) /\ Len(shown) = room.tick + 1
    /\ mode \in {"capture", "play"} => \E i \in 1..Len(course) : At(course[i])
    /\ mode = "done" => Finished

IInv == DiskInv /\ TapeInv /\ CourseInv /\ ReaderInv /\ FollowInv

-----------------------------------------------------------------------------
(* Records, worlds and sequences. *)

LEMMA RecordKinds ==
  ASSUME NEW r \in Records
  PROVE  /\ r.type \in {"header", "tick", "disconnect", "end"}
         /\ r.type = "header" => r.bots \subseteq Bots
         /\ r.type # "header" => r.tick \in 0..MatchTimeout
         /\ r.type = "tick" => r.orders \in OrdersGiven(Bots)
         /\ r.type = "disconnect" => r.bot \in Bots
         /\ r.type = "end" => r.winner \in Bots \cup {NoBot}
  BY ReplayAssumption DEF Records

LEMMA ObeyedGiven ==
  ASSUME NEW w, IsWorld(w), NEW orders \in OrdersGiven(w.afloat)
  PROVE  /\ Obeyed(w, orders) = orders
         /\ DOMAIN orders \subseteq w.afloat /\ orders \in OrdersGiven(Bots)
  <1>1. PICK S \in SUBSET w.afloat : orders \in [S -> Orders]
    BY DEF OrdersGiven
  <1>2. DOMAIN orders = S /\ DOMAIN orders \cap w.afloat = S
    BY <1>1
  <1>3. S \in SUBSET Bots
    BY DEF IsWorld
  <1> QED BY <1>1, <1>2, <1>3 DEF Obeyed, OrdersGiven

LEMMA ObeyedSilence ==
  ASSUME NEW w, NEW orders, DOMAIN orders = {}
  PROVE  Stepped(w, orders) = Stepped(w, Silence)
  <1>1. Obeyed(w, orders) = Obeyed(w, Silence)
    BY DEF Obeyed, Silence
  <1> QED BY <1>1 DEF Stepped

LEMMA SteppedIsWorld ==
  ASSUME NEW w, IsWorld(w), w.tick < MatchTimeout, NEW orders
  PROVE  /\ IsWorld(Stepped(w, orders)) /\ Stepped(w, orders).tick = w.tick + 1
         /\ Stepped(w, orders).bots = w.bots /\ Stepped(w, orders).afloat \subseteq w.afloat
         /\ ~Decided(Stepped(w, orders)) => w.tick + 1 < MatchTimeout
  BY ReplayAssumption DEF IsWorld, Stepped, Decided

LEMMA ForfeitedIsWorld ==
  ASSUME NEW w, IsWorld(w), NEW b
  PROVE  /\ IsWorld(Forfeited(w, b)) /\ Forfeited(w, b).tick = w.tick
         /\ Forfeited(w, b).bots = w.bots
         /\ Forfeited(w, b).afloat = w.afloat \ {b}
  BY DEF IsWorld, Forfeited

LEMMA StartIsWorld ==
  ASSUME NEW bots \in SUBSET Bots, NEW rules, NEW spawn
  PROVE  /\ IsWorld(StartOf(bots, rules, spawn)) /\ StartOf(bots, rules, spawn).tick = 0
         /\ StartOf(bots, rules, spawn).bots = bots
         /\ StartOf(bots, rules, spawn).afloat = bots
  BY ReplayAssumption DEF IsWorld, StartOf

LEMMA WinnerIsBot ==
  ASSUME NEW w, IsWorld(w)
  PROVE  Winner(w) \in Bots \cup {NoBot}
  <1>1. CASE LastStanding(w)
    BY <1>1 DEF Winner, IsWorld
  <1>2. CASE ~LastStanding(w)
    BY <1>2 DEF Winner, IsWorld
  <1> QED BY <1>1, <1>2

LEMMA Appending ==
  ASSUME NEW s, IsSeq(s), NEW x
  PROVE  /\ IsSeq(Append(s, x)) /\ Len(s) \in Nat /\ Len(Append(s, x)) = Len(s) + 1
         /\ \A i \in 1..Len(s) : Append(s, x)[i] = s[i]
         /\ Append(s, x)[Len(s) + 1] = x
         /\ BeginsWith(Append(s, x), s)
  <1>1. PICK S : s \in Seq(S)
    BY DEF IsSeq
  <1>2. s \in Seq(S \cup {x})
    BY <1>1
  <1>3. Append(s, x) \in Seq(S \cup {x})
    BY <1>2
  <1> QED BY <1>2, <1>3 DEF IsSeq, BeginsWith

LEMMA BeginsWithTransitive ==
  ASSUME NEW r, NEW s, NEW t, Len(r) \in Nat, Len(s) \in Nat, Len(t) \in Nat,
         BeginsWith(s, r), BeginsWith(t, s)
  PROVE  BeginsWith(t, r)
  BY DEF BeginsWith

-----------------------------------------------------------------------------
(* The file and its buffer. *)

LEMMA Associative ==
  \A r, s, t \in Seq(Records) : (r \o s) \o t = r \o (s \o t)
  <1> TAKE r, s, t \in Seq(Records)
  <1> DEFINE S == Records
  <1>1. r \in Seq(S) /\ s \in Seq(S) /\ t \in Seq(S)
    OBVIOUS
  <1> HIDE DEF S
  <1> QED BY <1>1, ConcatAssociative

LEMMA Lengths ==
  \A s, t \in Seq(Records) :
    /\ s \o t \in Seq(Records) /\ Len(s) \in Nat /\ Len(s \o t) = Len(s) + Len(t)
    /\ \A i \in 1..Len(s) : (s \o t)[i] = s[i]
  <1> TAKE s, t \in Seq(Records)
  <1>1. /\ s \o t \in Seq(Records) /\ Len(s \o t) = Len(s) + Len(t)
        /\ \A i \in 1..Len(s) + Len(t) : (s \o t)[i] = IF i <= Len(s) THEN s[i] ELSE t[i - Len(s)]
    BY ConcatProperties
  <1> HIDE DEF Records
  <1>2. Len(s) \in Nat /\ Len(t) \in Nat
    OBVIOUS
  <1>3. ASSUME NEW i \in 1..Len(s) PROVE i \in 1..Len(s) + Len(t) /\ i <= Len(s)
    BY <1>2
  <1>4. ASSUME NEW i \in 1..Len(s) PROVE (s \o t)[i] = s[i]
    BY <1>1, <1>3, Zenon
  <1> QED BY <1>1, <1>2, <1>4, Zenon

LEMMA Prefixed ==
  \A s, t \in Seq(Records) : BeginsWith(s \o t, s)
  <1> TAKE s, t \in Seq(Records)
  <1>1. /\ Len(s) \in Nat /\ Len(t) \in Nat /\ Len(s \o t) = Len(s) + Len(t)
        /\ \A i \in 1..Len(s) : (s \o t)[i] = s[i]
    BY Lengths, Zenon
  <1>2. Len(s) <= Len(s) + Len(t)
    BY <1>1
  <1>3. Len(s) <= Len(s \o t)
    BY <1>1, <1>2, Zenon
  <1> QED BY <1>1, <1>3, Zenon DEF BeginsWith

LEMMA Cutting ==
  ASSUME NEW d, IsDisk(d), NEW e \in Flushes(d)
  PROVE  /\ IsDisk(e) /\ e.hole = d.hole /\ Len(e.buf) <= Len(d.buf)
         /\ e.file \o e.buf = d.file \o d.buf
  <1>1. PICK n \in 0..Len(d.buf), torn \in BOOLEAN : e = Cut(d, n, torn)
    BY DEF Flushes
  <1>2. /\ e.file = d.file \o SubSeq(d.buf, 1, n) /\ e.buf = SubSeq(d.buf, n + 1, Len(d.buf))
        /\ e.torn = torn /\ e.hole = d.hole
    BY <1>1 DEF Cut
  <1>3. d.file \in Seq(Records) /\ d.buf \in Seq(Records) /\ Len(d.buf) \in Nat
    BY DEF IsDisk
  <1>4. /\ SubSeq(d.buf, 1, n) \in Seq(Records) /\ Len(SubSeq(d.buf, 1, n)) = n
        /\ SubSeq(d.buf, n + 1, Len(d.buf)) \in Seq(Records)
        /\ Len(SubSeq(d.buf, n + 1, Len(d.buf))) = Len(d.buf) - n
    BY <1>3, SubSeqProperties
  <1>5. IsDisk(e) /\ Len(e.buf) <= Len(d.buf)
    <2>1. e.file \in Seq(Records)
      BY <1>2, <1>3, <1>4, ConcatProperties
    <2> QED BY <1>2, <1>3, <1>4, <2>1, ReplayAssumption DEF IsDisk
  <1>6. SubSeq(d.buf, 1, n) \o SubSeq(d.buf, n + 1, Len(d.buf)) = d.buf
    <2>1. SubSeq(d.buf, 1, n) \o SubSeq(d.buf, n + 1, Len(d.buf)) = SubSeq(d.buf, 1, Len(d.buf))
      <3>1. 1 \in 1..Len(d.buf) + 1 /\ n \in 1 - 1..Len(d.buf) /\ Len(d.buf) \in n..Len(d.buf)
        BY <1>3
      <3> QED BY <1>3, <3>1, ConcatAdjacentSubSeq
    <2>2. SubSeq(d.buf, 1, Len(d.buf)) = d.buf
      BY <1>3
    <2> QED BY <2>1, <2>2
  <1>7. e.file \o e.buf = d.file \o (SubSeq(d.buf, 1, n) \o SubSeq(d.buf, n + 1, Len(d.buf)))
    <2> DEFINE s == SubSeq(d.buf, 1, n)
               t == SubSeq(d.buf, n + 1, Len(d.buf))
    <2>1. s \in Seq(Records) /\ t \in Seq(Records) /\ e.file = d.file \o s /\ e.buf = t
      BY <1>2, <1>4
    <2> HIDE DEF s, t
    <2>2. (d.file \o s) \o t = d.file \o (s \o t)
      BY <1>3, <2>1, Associative, Zenon
    <2>3. e.file \o e.buf = d.file \o (s \o t)
      BY <2>1, <2>2
    <2> QED BY <2>3, Zenon DEF s, t
  <1> QED BY <1>2, <1>5, <1>6, <1>7

LEMMA Holding ==
  ASSUME NEW d, IsDisk(d), NEW r \in Records, Len(d.buf) < BufferSize, NEW e \in Flushes(Held(d, r))
  PROVE  /\ IsDisk(e) /\ e.hole = d.hole
         /\ e.file \o e.buf = Append(d.file \o d.buf, r)
  <1>1. /\ d.file \in Seq(Records) /\ d.buf \in Seq(Records) /\ Append(d.buf, r) \in Seq(Records)
        /\ Len(Append(d.buf, r)) = Len(d.buf) + 1
    BY DEF IsDisk
  <1>2. IsDisk(Held(d, r)) /\ Held(d, r).hole = d.hole
    BY <1>1, ReplayAssumption DEF IsDisk, Held
  <1>3. d.file \o Append(d.buf, r) = Append(d.file \o d.buf, r)
    <2>1. d.file \o d.buf \in Seq(Records) /\ <<r>> \in Seq(Records)
      BY <1>1, ConcatProperties
    <2>2. Append(d.buf, r) = d.buf \o <<r>> /\ Append(d.file \o d.buf, r) = (d.file \o d.buf) \o <<r>>
      BY <1>1, <2>1, AppendIsConcat
    <2>3. (d.file \o d.buf) \o <<r>> = d.file \o (d.buf \o <<r>>)
      BY <1>1, <2>1, Associative, Zenon
    <2> QED BY <2>2, <2>3, Zenon
  <1>4. Held(d, r).file = d.file /\ Held(d, r).buf = Append(d.buf, r)
    BY DEF Held
  <1> QED BY <1>2, <1>3, <1>4, Cutting

LEMMA Writing ==
  ASSUME NEW d, IsDisk(d), NEW r \in Records, NEW e \in Written(d, r)
  PROVE  /\ IsDisk(e)
         /\ ~e.hole => ~d.hole /\ e.file \o e.buf = Append(d.file \o d.buf, r)
  <1>1. CASE Len(d.buf) < BufferSize
    BY <1>1, Holding DEF Written
  <1>2. CASE ~(Len(d.buf) < BufferSize)
    <2>1. PICK f \in Flushes(d) : e \in IF f.buf = <<>> THEN Flushes(Held(f, r)) ELSE {Lost(f)}
      BY <1>2 DEF Written
    <2>2. IsDisk(f) /\ f.hole = d.hole /\ f.file \o f.buf = d.file \o d.buf
      BY <2>1, Cutting
    <2>3. CASE f.buf = <<>>
      <3>1. Len(f.buf) < BufferSize
        BY <2>3, ReplayAssumption
      <3> QED BY <2>1, <2>2, <2>3, <3>1, Holding
    <2>4. CASE f.buf # <<>>
      <3>1. e = Lost(f)
        BY <2>1, <2>4
      <3>2. e.file = f.file /\ e.buf = f.buf /\ e.torn = f.torn /\ e.hole = TRUE
        BY <3>1 DEF Lost
      <3> QED BY <2>2, <3>2 DEF IsDisk
    <2> QED BY <2>3, <2>4
  <1> QED BY <1>1, <1>2

LEMMA Closing ==
  ASSUME NEW d, IsDisk(d)
  PROVE  /\ IsDisk(Dropped(d)) /\ Dropped(d).hole = d.hole /\ Dropped(d).file = d.file
         /\ BeginsWith(d.file \o d.buf, d.file)
  <1>1. d.file \in Seq(Records) /\ d.buf \in Seq(Records)
    BY DEF IsDisk
  <1>2. BeginsWith(d.file \o d.buf, d.file)
    BY <1>1, Prefixed, Zenon
  <1>3. <<>> \in Seq(Records) /\ Len(<<>>) = 0
    OBVIOUS
  <1> QED BY <1>1, <1>2, <1>3, ReplayAssumption DEF IsDisk, Dropped

LEMMA Sealing ==
  ASSUME NEW d, IsDisk(d), NEW r \in Records, NEW e \in Sealed(d, r)
  PROVE  /\ IsDisk(e)
         /\ ~e.hole => ~d.hole /\ BeginsWith(Append(d.file \o d.buf, r), e.file)
  <1>1. PICK f \in Written(d, r) : e \in Closed(f)
    BY DEF Sealed
  <1>2. PICK g \in Flushes(f) : e = Dropped(g)
    BY <1>1 DEF Closed
  <1>3. IsDisk(f) /\ (~f.hole => ~d.hole /\ f.file \o f.buf = Append(d.file \o d.buf, r))
    BY <1>1, Writing
  <1>4. IsDisk(g) /\ g.hole = f.hole /\ g.file \o g.buf = f.file \o f.buf
    BY <1>2, <1>3, Cutting
  <1> QED BY <1>2, <1>3, <1>4, Closing

-----------------------------------------------------------------------------
(* The tape. *)

LEMMA BeginsWithSame ==
  ASSUME NEW s \in Seq(Records), NEW t \in Seq(Records), BeginsWith(t, s), NEW i \in 1..Len(s) + 1
  PROVE  /\ DroppedBefore(s, i) = DroppedBefore(t, i)
         /\ i # 1 => LastTick(s, i) = LastTick(t, i)
  <1>1. Len(s) \in Nat /\ Len(t) \in Nat
    OBVIOUS
  <1>2. \A j \in 2..i - 1 : s[j] = t[j]
    BY <1>1 DEF BeginsWith
  <1>3. DroppedBefore(s, i) = DroppedBefore(t, i)
    BY <1>2 DEF DroppedBefore
  <1>4. i # 1 => LastTick(s, i) = LastTick(t, i)
    BY <1>1 DEF LastTick, BeginsWith
  <1> QED BY <1>3, <1>4

LEMMA Partial ==
  ASSUME NEW s \in Seq(Records), NEW t \in Seq(Records), BeginsWith(t, s), WellFormed(t), s # <<>>
  PROVE  WellFormed(s)
  <1>1. Len(s) \in Nat \ {0} /\ Len(t) \in Nat /\ Len(s) <= Len(t)
    BY EmptySeq DEF BeginsWith
  <1>2. s[1] = t[1] /\ s[1].type = "header" /\ s[1].bots # {}
    BY <1>1 DEF BeginsWith, WellFormed
  <1>3. ASSUME NEW i \in 2..Len(s)
        PROVE  /\ s[i] = t[i] /\ i \in 2..Len(t) /\ (i = Len(t) => i = Len(s))
               /\ DroppedBefore(s, i) = DroppedBefore(t, i) /\ LastTick(s, i) = LastTick(t, i)
    BY <1>1, BeginsWithSame DEF BeginsWith
  <1> QED BY <1>2, <1>3 DEF WellFormed

LEMMA LastTickIsInt ==
  ASSUME NEW t \in Seq(Records), WellFormed(t)
  PROVE  LastTick(t, Len(t) + 1) \in Int
  <1>1. Len(t) \in Nat /\ Len(t) # 0
    BY EmptySeq DEF WellFormed
  <1>2. CASE Len(t) = 1
    BY <1>2 DEF LastTick
  <1>3. CASE Len(t) # 1
    <2>1. Len(t) \in 2..Len(t) /\ Len(t) + 1 # 2 /\ Len(t) + 1 - 1 = Len(t)
      <3>1. \A n \in Nat : n # 0 /\ n # 1 => n \in 2..n /\ n + 1 # 2 /\ n + 1 - 1 = n
        OBVIOUS
      <3> QED BY <1>1, <1>3, <3>1, Zenon
    <2>2. t[Len(t)] \in Records /\ t[Len(t)].type # "header"
      <3>1. \A i \in 2..Len(t) : t[i] \in Records
        OBVIOUS
      <3> QED BY <2>1, <3>1, Zenon DEF WellFormed
    <2>3. t[Len(t)].tick \in 0..MatchTimeout
      BY <2>2, RecordKinds
    <2> QED BY <2>1, <2>3, ReplayAssumption DEF LastTick
  <1> QED BY <1>2, <1>3

LEMMA Recording ==
  ASSUME NEW t, NEW bots, NEW out, NEW now, OpenTape(t, bots, out, now),
         NEW r \in Records, r.type # "header", LastTick(t, Len(t) + 1) <= r.tick,
         r.type = "tick" => r.tick > LastTick(t, Len(t) + 1) /\ DOMAIN r.orders \subseteq bots \ out,
         r.type = "disconnect" => r.bot \in bots \ out
  PROVE  /\ Append(t, r) \in Seq(Records) /\ WellFormed(Append(t, r)) /\ BeginsWith(Append(t, r), t)
         /\ r.type # "end" =>
              OpenTape(Append(t, r), bots, out \cup (IF r.type = "disconnect" THEN {r.bot} ELSE {}), r.tick)
  <1> DEFINE u == Append(t, r)
  <1>1. /\ t \in Seq(Records) /\ Len(t) \in Nat \ {0} /\ WellFormed(t) /\ NoEnd(t)
        /\ t[1].type = "header" /\ t[1].bots = bots /\ t[1].bots # {}
        /\ Cardinality(bots) <= MaxReplayBots
    BY EmptySeq DEF OpenTape, WellFormed
  <1>2. /\ u \in Seq(Records) /\ Len(u) = Len(t) + 1 /\ u[Len(u)] = r
        /\ \A i \in 1..Len(t) : u[i] = t[i]
    BY <1>1, AppendProperties
  <1>3. BeginsWith(u, t)
    BY <1>1, <1>2 DEF BeginsWith
  <1> HIDE DEF u
  <1>4. \A i \in 2..Len(t) + 1 :
          DroppedBefore(t, i) = DroppedBefore(u, i) /\ LastTick(t, i) = LastTick(u, i)
    BY <1>1, <1>2, <1>3, BeginsWithSame
  <1>5. r.tick \in 0..MatchTimeout
    BY RecordKinds
  <1>6. WellFormed(u)
    <2>1. /\ u # <<>> /\ u[1].type = "header" /\ u[1].bots = bots /\ u[1].bots # {}
          /\ Cardinality(u[1].bots) <= MaxReplayBots
      BY <1>1, <1>2, EmptySeq
    <2> DEFINE Fine(s, i) ==
          LET q == s[i]
              present == s[1].bots \ DroppedBefore(s, i)
          IN  /\ q.type # "header"
              /\ q.type = "tick" => q.tick > LastTick(s, i) /\ DOMAIN q.orders \subseteq present
              /\ q.type = "disconnect" => q.bot \in present
              /\ q.type = "end" => i = Len(s)
              /\ q.tick >= LastTick(s, i) /\ q.tick <= MatchTimeout
    <2>2. ASSUME NEW i \in 2..Len(t) PROVE Fine(u, i)
      <3>1. Fine(t, i)
        BY <1>1 DEF WellFormed
      <3>2. u[i] = t[i] /\ u[1] = t[1] /\ t[i].type # "end" /\ i \in 2..Len(t) + 1
        BY <1>1, <1>2 DEF NoEnd
      <3> QED BY <1>4, <3>1, <3>2
    <2>3. Fine(u, Len(u))
      <3>1. /\ Len(u) \in 2..Len(t) + 1 /\ Len(u) = Len(t) + 1
            /\ DroppedBefore(u, Len(u)) = out /\ LastTick(u, Len(u)) = LastTick(t, Len(t) + 1)
        BY <1>1, <1>2, <1>4 DEF OpenTape
      <3> QED BY <1>2, <1>5, <2>1, <3>1
    <2>4. \A i \in 2..Len(u) : i \in 2..Len(t) \/ i = Len(u)
      BY <1>1, <1>2
    <2>5. \A i \in 2..Len(u) : Fine(u, i)
      BY <2>2, <2>3, <2>4
    <2> QED BY <2>1, <2>5 DEF WellFormed
  <1>7. ASSUME r.type # "end"
        PROVE  OpenTape(u, bots, out \cup (IF r.type = "disconnect" THEN {r.bot} ELSE {}), r.tick)
    <2>1. NoEnd(u) /\ u[1].bots = bots
      BY <1>1, <1>2, <1>7 DEF NoEnd
    <2>2. LastTick(u, Len(u) + 1) = r.tick
      BY <1>1, <1>2 DEF LastTick
    <2>3. DroppedBefore(u, Len(u) + 1) = out \cup (IF r.type = "disconnect" THEN {r.bot} ELSE {})
      <3>1. 2..Len(u) + 1 - 1 = (2..Len(t) + 1 - 1) \cup {Len(u)}
        BY <1>1, <1>2
      <3>2. Len(t) + 1 \in 2..Len(t) + 1
        BY <1>1
      <3>3. DroppedBefore(u, Len(t) + 1) = out
        BY <1>4, <3>2 DEF OpenTape
      <3> QED BY <1>2, <3>1, <3>3 DEF DroppedBefore
    <2> QED BY <1>2, <1>5, <1>6, <2>1, <2>2, <2>3 DEF OpenTape
  <1> QED BY <1>2, <1>3, <1>6, <1>7 DEF u

-----------------------------------------------------------------------------
(* The match.  A step writes at most one record, then goes on or seals the log. *)

\* The disk holds t, or has lost a record.
Holds(d, t) == IsDisk(d) /\ (~d.hole => ~disk.hole /\ d.file \o d.buf = t)

LEMMA HoldsWritten ==
  ASSUME NEW d, NEW t, Holds(d, t), NEW r \in Records, NEW e \in Written(d, r)
  PROVE  Holds(e, Append(t, r))
  BY Writing DEF Holds

\* What a step that goes on or ends the match leaves of the log.
LogStep(t) ==
  /\ tape' \in Seq(Records) /\ WellFormed(tape') /\ BeginsWith(tape', t) /\ IsDisk(disk')
  /\ ~disk'.hole => ~disk.hole /\ BeginsWith(tape', disk'.file)

LEMMA GoingOn ==
  ASSUME NEW d, NEW t, NEW bots, NEW out, NEW now, OpenTape(t, bots, out, now), Holds(d, t), GoesOn(d, t)
  PROVE  LogStep(t) /\ tape' = t /\ disk' = d
  <1>1. t \in Seq(Records) /\ tape' = t /\ disk' = d /\ WellFormed(t)
    BY DEF GoesOn, OpenTape
  <1>2. BeginsWith(t, t)
    BY <1>1 DEF BeginsWith
  <1>3. ~d.hole => BeginsWith(t, d.file)
    BY Closing DEF Holds
  <1> QED BY <1>1, <1>2, <1>3 DEF LogStep, Holds

LEMMA EndingGame ==
  ASSUME NEW d, NEW t, NEW bots, NEW out, NEW now, OpenTape(t, bots, out, now), Holds(d, t),
         NEW w, IsWorld(w), w.tick >= now, now \in Nat, NEW winner \in Bots \cup {NoBot}, NEW natural,
         GameOver(d, t, w, winner, natural)
  PROVE  /\ LogStep(t) /\ tape' = Append(t, EndRecord(w.tick, winner)) /\ state' = "Ended"
         /\ result' = [tick |-> w.tick, winner |-> winner, natural |-> natural]
  <1> DEFINE r == EndRecord(w.tick, winner)
  <1>1. r \in Records /\ r.type = "end" /\ r.tick = w.tick
    BY ReplayAssumption DEF EndRecord, Records, IsWorld
  <1>2. /\ tape' = Append(t, r) /\ state' = "Ended" /\ disk' \in Sealed(d, r)
        /\ result' = [tick |-> w.tick, winner |-> winner, natural |-> natural]
    BY DEF GameOver
  <1> HIDE DEF r
  <1>3. LastTick(t, Len(t) + 1) <= r.tick
    <2>1. t \in Seq(Records) /\ Len(t) \in Nat \ {0} /\ WellFormed(t) /\ LastTick(t, Len(t) + 1) <= now
      BY EmptySeq DEF OpenTape, WellFormed
    <2>2. LastTick(t, Len(t) + 1) \in Int
      BY <2>1, LastTickIsInt
    <2> QED BY <1>1, <2>1, <2>2, ReplayAssumption DEF IsWorld
  <1>4. Append(t, r) \in Seq(Records) /\ WellFormed(Append(t, r)) /\ BeginsWith(Append(t, r), t)
    BY <1>1, <1>3, Recording
  <1>5. IsDisk(disk') /\ (~disk'.hole => ~disk.hole /\ BeginsWith(Append(t, r), disk'.file))
    BY <1>1, <1>2, Sealing DEF Holds
  <1> QED BY <1>2, <1>4, <1>5 DEF LogStep, r

\* What is recorded and shown later leaves a point of the course where it is.
LEMMA PlacedStays ==
  ASSUME NEW p, NEW t \in Seq(Records), NEW f, NEW u \in Seq(Records), NEW g, NEW now \in Nat,
         IsSeq(f), IsSeq(g), BeginsWith(u, t), BeginsWith(g, f), Len(f) = now + 1,
         WellFormed(u), Later(u, Len(t), now), Placed(p, t, f)
  PROVE  Placed(p, u, g)
  <1>1. /\ p.recs \in 1..Len(t) /\ p.world.tick \in Nat /\ p.world.tick <= now
        /\ Len(t) \in Nat /\ Len(u) \in Nat /\ Len(t) <= Len(u) /\ Len(g) \in Nat /\ Len(f) <= Len(g)
    BY DEF Placed, BeginsWith, IsSeq
  <1>2. \A j \in 1..Len(t) : u[j] = t[j]
    BY DEF BeginsWith
  <1>3. \A j \in 2..Len(u) : u[j].tick \in Int
    <2> TAKE j \in 2..Len(u)
    <2>1. u[j] \in Records /\ u[j].type # "header"
      BY <1>1 DEF WellFormed
    <2> QED BY <2>1, RecordKinds, ReplayAssumption
  <1>4. Later(u, p.recs, p.world.tick)
    <2>1. ASSUME NEW j \in p.recs + 1..Len(u)
          PROVE  u[j].tick >= p.world.tick /\ (u[j].type = "tick" => u[j].tick > p.world.tick)
      <3>1. CASE j <= Len(t)
        <4>1. j \in p.recs + 1..Len(t) /\ j \in 1..Len(t)
          BY <1>1, <3>1
        <4>2. t[j].tick >= p.world.tick /\ (t[j].type = "tick" => t[j].tick > p.world.tick)
          BY <4>1, Zenon DEF Placed, Later
        <4> QED BY <1>2, <4>1, <4>2, Zenon
      <3>2. CASE ~(j <= Len(t))
        <4>1. j \in Len(t) + 1..Len(u)
          BY <1>1, <3>2
        <4>2. u[j].tick >= now /\ (u[j].type = "tick" => u[j].tick > now)
          BY <4>1 DEF Later
        <4>3. u[j].tick \in Int
          BY <1>1, <1>3
        <4> QED BY <1>1, <4>2, <4>3
      <3> QED BY <3>1, <3>2
    <2> QED BY <2>1 DEF Later
  <1>5. /\ \A j \in 2..p.recs : u[j].type # "end"
        /\ p.world.tick + 1 <= Len(g) /\ p.recs \in 1..Len(u)
        /\ p.stepped => g[p.world.tick + 1] = p.world
    <2>1. p.world.tick + 1 \in 1..Len(f)
      BY <1>1
    <2>2. g[p.world.tick + 1] = f[p.world.tick + 1] /\ p.world.tick + 1 <= Len(g)
      BY <1>1, <2>1 DEF BeginsWith
    <2>3. \A j \in 2..p.recs : j \in 1..Len(t)
      BY <1>1
    <2>4. p.recs \in 1..Len(u)
      BY <1>1
    <2> QED BY <1>2, <2>2, <2>3, <2>4, Zenon DEF Placed
  <1> QED BY <1>1, <1>4, <1>5 DEF Placed

\* The course after a step to the point p, on the tape t.
LEMMA CourseGrows ==
  ASSUME NEW c, NEW t \in Seq(Records), NEW f, NEW p, NEW u \in Seq(Records), NEW g, NEW now \in Nat,
         IsSeq(c), Len(c) >= 1, IsSeq(f), IsSeq(g), BeginsWith(u, t), BeginsWith(g, f), Len(f) = now + 1,
         WellFormed(u), \A i \in 1..Len(c) : Placed(c[i], t, f),
         Connected(c, t), ~c[Len(c)].decided,
         Later(u, Len(t), now),
         StepsTo(c[Len(c)], p, u) \/ DropsTo(c[Len(c)], p, u),
         Placed(p, u, g)
  PROVE  /\ IsSeq(Append(c, p)) /\ Len(Append(c, p)) = Len(c) + 1
         /\ Append(c, p)[1] = c[1] /\ Append(c, p)[Len(c) + 1] = p
         /\ \A i \in 1..Len(c) + 1 : Placed(Append(c, p)[i], u, g)
         /\ Connected(Append(c, p), u)
  <1> DEFINE e == Append(c, p)
  <1>1. /\ IsSeq(e) /\ Len(c) \in Nat /\ Len(e) = Len(c) + 1
        /\ \A i \in 1..Len(c) : e[i] = c[i]
        /\ e[Len(c) + 1] = p
    BY Appending
  <1> HIDE DEF e
  <1>2. ASSUME NEW i \in 1..Len(c) PROVE Placed(c[i], u, g)
    BY <1>2, PlacedStays
  <1>3. ASSUME NEW i \in 1..Len(c) - 1
        PROVE  ~e[i].decided /\ (StepsTo(e[i], e[i + 1], u) \/ DropsTo(e[i], e[i + 1], u))
    <2>1. e[i] = c[i] /\ e[i + 1] = c[i + 1] /\ i + 1 \in 1..Len(c)
      BY <1>1
    <2>2. u[c[i + 1].recs] = t[c[i + 1].recs]
      BY <2>1 DEF Placed, BeginsWith
    <2> QED BY <2>1, <2>2 DEF Connected, StepsTo, DropsTo
  <1>4. ASSUME NEW i \in 1..Len(c) + 1 PROVE Placed(e[i], u, g)
    BY <1>1, <1>2
  <1>5. Connected(e, u)
    <2>1. \A i \in 1..Len(e) - 1 : i \in 1..Len(c) - 1 \/ i = Len(c)
      BY <1>1
    <2> QED BY <1>1, <1>3, <2>1 DEF Connected
  <1> QED BY <1>1, <1>4, <1>5 DEF e

MatchInv == DiskInv /\ TapeInv /\ CourseInv

\* What a step of the match leaves a reader with.
Grown ==
  /\ BeginsWith(tape', tape) /\ BeginsWith(frames', frames)
  /\ Len(course) <= Len(course') /\ \A i \in 1..Len(course) : course'[i] = course[i]
  /\ ~disk'.hole => ~disk.hole
  /\ state # "Running" => result' = result

\* A step of the match to a new point of the course.
LEMMA PointReached ==
  ASSUME MatchInv, state = "Running", NEW t, NEW p,
         OpenTape(t, world'.bots, gone', world'.tick), BeginsWith(t, tape),
         Later(t, Len(tape), world.tick),
         IsWorld(world'), gone' \subseteq world'.bots \ world'.afloat, batch' = batch,
         p.world = world', p.recs = Len(t), p.stepped \in BOOLEAN, p.decided \in BOOLEAN,
         world'.tick \in {world.tick, world.tick + 1},
         IsSeq(frames'), BeginsWith(frames', frames), Len(frames') = world'.tick + 1,
         p.stepped => frames'[world'.tick + 1] = world',
         course' = Append(course, p),
         StepsTo(course[Len(course)], p, t) \/ DropsTo(course[Len(course)], p, t),
         LogStep(t),
         \/ /\ tape' = t /\ Holds(disk', t) /\ state' = "Running"
            /\ ~p.decided /\ world'.tick < MatchTimeout
         \/ \E winner, natural :
              /\ tape' = Append(t, EndRecord(world'.tick, winner)) /\ state' = "Ended"
              /\ result' = [tick |-> world'.tick, winner |-> winner, natural |-> natural]
              /\ natural = p.decided /\ (natural => winner = Winner(world'))
  PROVE  MatchInv' /\ Grown
  <1>1. /\ tape \in Seq(Records) /\ t \in Seq(Records) /\ tape' \in Seq(Records) /\ WellFormed(t)
        /\ WellFormed(tape') /\ BeginsWith(tape', t) /\ NoEnd(t)
        /\ world.tick \in Nat /\ world'.tick \in Nat
    BY ReplayAssumption DEF MatchInv, TapeInv, LogStep, OpenTape, IsWorld
  <1>2. /\ Len(tape) \in Nat /\ Len(t) \in Nat \ {0} /\ Len(tape') \in Nat
        /\ Len(tape) <= Len(t) /\ Len(t) <= Len(tape')
    BY <1>1, EmptySeq DEF BeginsWith, WellFormed
  <1>3. BeginsWith(tape', tape)
    BY <1>1, <1>2, BeginsWithTransitive
  <1>4. \A j \in Len(t) + 1..Len(tape') :
          /\ j = Len(t) + 1 /\ Len(tape') = Len(t) + 1 /\ state' = "Ended"
          /\ tape'[j].type = "end" /\ tape'[j].tick = world'.tick
    <2>1. CASE tape' = t
      BY <1>2, <2>1
    <2>2. ASSUME NEW winner, tape' = Append(t, EndRecord(world'.tick, winner)), state' = "Ended"
          PROVE  /\ Len(tape') = Len(t) + 1 /\ tape'[Len(t) + 1].type = "end"
                 /\ tape'[Len(t) + 1].tick = world'.tick
      <3>1. IsSeq(t)
        BY <1>1 DEF IsSeq
      <3>2. Len(tape') = Len(t) + 1 /\ tape'[Len(t) + 1] = EndRecord(world'.tick, winner)
        BY <2>2, <3>1, Appending
      <3> QED BY <3>2 DEF EndRecord
    <2> QED BY <1>2, <2>1, <2>2
  <1>5. Later(tape', Len(t), world'.tick)
    BY <1>1, <1>2, <1>4 DEF Later
  <1>6. Later(tape', Len(tape), world.tick)
    <2> SUFFICES ASSUME NEW j \in Len(tape) + 1..Len(tape')
                 PROVE  tape'[j].tick >= world.tick /\ (tape'[j].type = "tick" => tape'[j].tick > world.tick)
      BY DEF Later
    <2>1. CASE j <= Len(t)
      <3>1. j \in Len(tape) + 1..Len(t) /\ j \in 1..Len(t)
        BY <1>2, <2>1
      <3>2. tape'[j] = t[j]
        BY <1>1, <3>1 DEF BeginsWith
      <3> QED BY <3>1, <3>2 DEF Later
    <2>2. CASE ~(j <= Len(t))
      <3>1. j \in Len(t) + 1..Len(tape')
        BY <1>2, <2>2
      <3>2. tape'[j].type = "end" /\ tape'[j].tick = world'.tick
        BY <1>4, <3>1, Zenon
      <3> QED BY <1>1, <3>2
    <2> QED BY <2>1, <2>2
  <1>7. Placed(p, tape', frames')
    <2>1. p.recs \in 1..Len(tape')
      BY <1>2
    <2>2. \A j \in 2..p.recs : tape'[j].type # "end"
      BY <1>1, <1>2 DEF NoEnd, BeginsWith
    <2>3. world'.tick + 1 <= Len(frames')
      BY <1>1
    <2> QED BY <1>1, <1>5, <2>1, <2>2, <2>3 DEF Placed
  <1>8. StepsTo(course[Len(course)], p, tape') \/ DropsTo(course[Len(course)], p, tape')
    <2>1. tape'[p.recs] = t[p.recs]
      BY <1>1, <1>2 DEF BeginsWith
    <2> QED BY <2>1 DEF StepsTo, DropsTo
  <1>9. /\ IsSeq(course') /\ Len(course') = Len(course) + 1 /\ Len(course) \in Nat /\ Len(course) >= 1
        /\ course'[1] = course[1] /\ course'[Len(course')] = p
        /\ \A i \in 1..Len(course') : Placed(course'[i], tape', frames')
        /\ Connected(course', tape')
        /\ \A i \in 1..Len(course) : course'[i] = course[i]
    <2>1. /\ IsSeq(course) /\ Len(course) >= 1 /\ IsSeq(frames) /\ Len(frames) = world.tick + 1
          /\ \A i \in 1..Len(course) : Placed(course[i], tape, frames)
          /\ Connected(course, tape) /\ ~course[Len(course)].decided
      BY DEF MatchInv, CourseInv, Ending
    <2>2. /\ IsSeq(course') /\ Len(course') = Len(course) + 1
          /\ course'[1] = course[1] /\ course'[Len(course) + 1] = p
          /\ \A i \in 1..Len(course) + 1 : Placed(course'[i], tape', frames')
          /\ Connected(course', tape')
      BY <1>1, <1>3, <1>6, <1>7, <1>8, <2>1, CourseGrows
    <2>3. Len(course) \in Nat /\ \A i \in 1..Len(course) : course'[i] = course[i]
      BY <2>1, Appending
    <2> QED BY <2>1, <2>2, <2>3
  <1>10. tape'[1] = tape[1]
    BY <1>1, <1>2, <1>3, EmptySeq DEF MatchInv, TapeInv, WellFormed, BeginsWith
  <1>11. Ending(p)'
    <2>1. CASE state' = "Ended"
      <3>1. PICK winner, natural :
              /\ tape' = Append(t, EndRecord(world'.tick, winner))
              /\ result' = [tick |-> world'.tick, winner |-> winner, natural |-> natural]
              /\ natural = p.decided /\ (natural => winner = Winner(world'))
        BY <2>1
      <3>2. IsSeq(t)
        BY <1>1 DEF IsSeq
      <3>3. /\ Len(tape') = Len(t) + 1 /\ tape'[Len(tape')] = EndRecord(world'.tick, winner)
        BY <3>1, <3>2, Appending
      <3>4. result'.natural = p.decided /\ (result'.natural => winner = Winner(world'))
        BY <3>1
      <3> QED BY <2>1, <3>3, <3>4 DEF Ending, EndRecord
    <2>2. CASE state' # "Ended"
      BY <2>2 DEF Ending
    <2> QED BY <2>1, <2>2
  <1>12. CourseInv'
    BY <1>9, <1>10, <1>11 DEF MatchInv, CourseInv
  <1>13. TapeInv'
    BY <1>1 DEF MatchInv, TapeInv
  <1>14. DiskInv'
    BY DEF LogStep, DiskInv, Holds
  <1>15. Grown
    BY <1>3, <1>9 DEF Grown, LogStep
  <1> QED BY <1>12, <1>13, <1>14, <1>15 DEF MatchInv

LEMMA RunningTape ==
  ASSUME MatchInv, state = "Running"
  PROVE  /\ OpenTape(tape, world.bots, gone, world.tick) /\ Holds(disk, tape) /\ IsWorld(world)
         /\ world.tick \in Nat /\ tape \in Seq(Records) /\ IsSeq(tape) /\ Len(tape) \in Nat
         /\ BeginsWith(tape, tape) /\ LastTick(tape, Len(tape) + 1) \in Int
         /\ course[Len(course)].world = world /\ course[Len(course)].recs = Len(tape)
         /\ ~course[Len(course)].decided
  <1>1. tape \in Seq(Records) /\ Len(tape) \in Nat /\ WellFormed(tape)
    BY DEF MatchInv, TapeInv
  <1>2. BeginsWith(tape, tape) /\ IsSeq(tape) /\ LastTick(tape, Len(tape) + 1) \in Int
    BY <1>1, LastTickIsInt DEF BeginsWith, IsSeq
  <1>3. OpenTape(tape, world.bots, gone, world.tick) /\ IsWorld(world) /\ world.tick \in Nat
    BY ReplayAssumption DEF MatchInv, TapeInv, IsWorld
  <1>4. Holds(disk, tape)
    BY DEF MatchInv, DiskInv, Holds
  <1>5. /\ course[Len(course)].world = world /\ course[Len(course)].recs = Len(tape)
        /\ ~course[Len(course)].decided
    BY DEF MatchInv, CourseInv, Ending
  <1> QED BY <1>1, <1>2, <1>3, <1>4, <1>5

LEMMA TickStep ==
  ASSUME MatchInv, NEW orders \in OrdersGiven(world.afloat), StepTick(orders)
  PROVE  MatchInv' /\ Grown
  <1> DEFINE new == TickRecords(world, Obeyed(world, orders))
             t == tape \o new
             p == Point(world', Len(t), TRUE, Decided(world'))
             r == TickRecord(world.tick + 1, orders)
  <1>1. /\ OpenTape(tape, world.bots, gone, world.tick) /\ Holds(disk, tape) /\ IsWorld(world)
        /\ world.tick \in Nat /\ tape \in Seq(Records) /\ IsSeq(tape) /\ Len(tape) \in Nat
        /\ BeginsWith(tape, tape) /\ LastTick(tape, Len(tape) + 1) \in Int
        /\ course[Len(course)].world = world /\ course[Len(course)].recs = Len(tape)
        /\ state = "Running"
    BY RunningTape DEF StepTick
  <1>2. /\ world' = Stepped(world, orders) /\ frames' = Append(frames, world') /\ course' = Append(course, p)
        /\ gone' = gone /\ batch' = batch
    BY DEF StepTick
  <1>3. /\ Obeyed(world, orders) = orders /\ DOMAIN orders \subseteq world.afloat
        /\ orders \in OrdersGiven(Bots)
    BY <1>1, ObeyedGiven
  <1>4. /\ world.tick < MatchTimeout /\ gone \subseteq world.bots \ world.afloat
        /\ IsSeq(frames) /\ Len(frames) = world.tick + 1 /\ IsSeq(course)
    BY <1>1 DEF MatchInv, TapeInv, CourseInv
  <1>5. /\ IsWorld(world') /\ world'.tick = world.tick + 1 /\ world'.bots = world.bots
        /\ world'.afloat \subseteq world.afloat
        /\ ~Decided(world') => world'.tick < MatchTimeout
    BY <1>1, <1>2, <1>4, SteppedIsWorld
  <1>6. r \in Records /\ r.type = "tick" /\ r.tick = world.tick + 1 /\ r.orders = orders
    BY <1>1, <1>3, <1>4, ReplayAssumption DEF TickRecord, Records
  <1>7. /\ DOMAIN orders = {} => new = <<>> /\ t = tape
        /\ DOMAIN orders # {} => new # <<>> /\ new[1] = r /\ t = Append(tape, r)
    <2>1. CASE DOMAIN orders = {}
      BY <1>1, <1>3, <2>1, ConcatEmptySeq DEF TickRecords
    <2>2. CASE DOMAIN orders # {}
      <3>1. new = <<r>>
        BY <1>3, <2>2 DEF TickRecords
      <3>2. tape \o <<r>> = Append(tape, r)
        BY <1>1, <1>6, AppendIsConcat
      <3> HIDE DEF r
      <3> QED BY <2>2, <3>1, <3>2
    <2> QED BY <2>1, <2>2
  <1>8. PICK d : /\ d \in IF new = <<>> THEN {disk} ELSE Written(disk, new[1])
                 /\ IF Decided(world') THEN GameOver(d, t, world', Winner(world'), TRUE) ELSE GoesOn(d, t)
    BY DEF StepTick
  <1> HIDE DEF new, r
  <1>9. Holds(d, t)
    BY <1>1, <1>6, <1>7, <1>8, HoldsWritten
  <1>10. OpenTape(t, world'.bots, gone', world'.tick) /\ BeginsWith(t, tape) /\ Later(t, Len(tape), world.tick)
    <2>1. CASE DOMAIN orders = {}
      <3>1. t = tape /\ world'.bots = world.bots /\ gone' = gone /\ world'.tick = world.tick + 1
        BY <1>2, <1>5, <1>7, <2>1
      <3>2. LastTick(tape, Len(tape) + 1) <= world.tick + 1
        BY <1>1 DEF OpenTape
      <3>3. Later(tape, Len(tape), world.tick)
        BY <1>1 DEF Later
      <3>4. OpenTape(tape, world.bots, gone, world.tick + 1)
        BY <1>1, <3>2, Zenon DEF OpenTape
      <3> QED BY <1>1, <3>1, <3>3, <3>4
    <2>2. CASE DOMAIN orders # {}
      <3>1. OpenTape(t, world.bots, gone \cup {}, world.tick + 1) /\ BeginsWith(t, tape)
        <4>1. /\ LastTick(tape, Len(tape) + 1) <= r.tick /\ r.tick > LastTick(tape, Len(tape) + 1)
              /\ DOMAIN r.orders \subseteq world.bots \ gone
              /\ r.type # "header" /\ r.type # "disconnect" /\ r.type # "end"
          BY <1>1, <1>3, <1>4, <1>6 DEF OpenTape, IsWorld
        <4> QED BY <1>1, <1>6, <1>7, <2>2, <4>1, Recording
      <3>2. Len(t) = Len(tape) + 1 /\ t[Len(tape) + 1] = r
        BY <1>1, <1>7, <2>2, Appending
      <3>3. Later(t, Len(tape), world.tick)
        BY <1>1, <1>6, <3>2 DEF Later
      <3> QED BY <1>2, <1>5, <3>1, <3>3
    <2> QED BY <2>1, <2>2
  <1> DEFINE last == course[Len(course)]
  <1>11. StepsTo(last, p, t)
    <2>1. p.stepped /\ p.decided = Decided(p.world) /\ p.world = world' /\ p.recs = Len(t)
      BY DEF Point
    <2>2. CASE DOMAIN orders = {}
      <3>1. p.world = Stepped(world, Silence)
        BY <1>2, <2>1, <2>2, ObeyedSilence
      <3> QED BY <1>1, <1>7, <2>1, <2>2, <3>1 DEF StepsTo
    <2>3. CASE DOMAIN orders # {}
      <3>1. Len(t) = Len(tape) + 1 /\ t[Len(tape) + 1] = r
        BY <1>1, <1>7, <2>3, Appending
      <3>2. p.recs = last.recs + 1 /\ last.world = world
        BY <1>1, <2>1, <3>1
      <3>3. t[p.recs] = r
        BY <1>1, <2>1, <3>1
      <3>4. p.world = Stepped(last.world, t[p.recs].orders) /\ t[p.recs].tick = last.world.tick + 1
        BY <1>1, <1>2, <1>6, <2>1, <3>3
      <3> HIDE DEF p, t, last
      <3> QED BY <1>6, <2>1, <3>2, <3>3, <3>4, Zenon DEF StepsTo
    <2> QED BY <2>2, <2>3
  <1>12. /\ IsSeq(frames') /\ BeginsWith(frames', frames) /\ Len(frames') = world'.tick + 1
         /\ frames'[world'.tick + 1] = world'
    BY <1>1, <1>2, <1>4, <1>5, Appending
  <1>13. /\ LogStep(t)
         /\ \/ tape' = t /\ Holds(disk', t) /\ state' = "Running" /\ ~Decided(world') /\ world'.tick < MatchTimeout
            \/ \E winner, natural :
                 /\ tape' = Append(t, EndRecord(world'.tick, winner)) /\ state' = "Ended"
                 /\ result' = [tick |-> world'.tick, winner |-> winner, natural |-> natural]
                 /\ natural = Decided(world') /\ (natural => winner = Winner(world'))
    <2>1. CASE Decided(world')
      <3>1. GameOver(d, t, world', Winner(world'), TRUE) /\ Winner(world') \in Bots \cup {NoBot}
        BY <1>5, <1>8, <2>1, WinnerIsBot
      <3>2. world'.tick >= world'.tick /\ world'.tick \in Nat
        BY <1>1, <1>5
      <3> HIDE DEF t
      <3>3. /\ LogStep(t) /\ tape' = Append(t, EndRecord(world'.tick, Winner(world'))) /\ state' = "Ended"
            /\ result' = [tick |-> world'.tick, winner |-> Winner(world'), natural |-> TRUE]
        BY <1>5, <1>9, <1>10, <3>1, <3>2, EndingGame
      <3> QED BY <2>1, <3>3
    <2>2. CASE ~Decided(world')
      <3>1. GoesOn(d, t) /\ state' = state
        BY <1>8, <2>2 DEF GoesOn
      <3> HIDE DEF t
      <3>2. LogStep(t) /\ tape' = t /\ disk' = d
        BY <1>9, <1>10, <3>1, GoingOn
      <3> QED BY <1>1, <1>5, <1>9, <2>2, <3>1, <3>2
    <2> QED BY <2>1, <2>2
  <1>14. /\ p.world = world' /\ p.recs = Len(t) /\ p.stepped = TRUE /\ p.decided = Decided(world')
         /\ Decided(world') \in BOOLEAN
    BY DEF Point, Decided
  <1>15. gone' \subseteq world'.bots \ world'.afloat /\ world'.tick \in {world.tick, world.tick + 1}
    BY <1>2, <1>4, <1>5
  <1> HIDE DEF p, t
  <1> QED BY <1>1, <1>2, <1>5, <1>10, <1>11, <1>12, <1>13, <1>14, <1>15, PointReached

LEMMA DropStep ==
  ASSUME MatchInv, NEW b \in Bots, HandleBotDisconnect(b)
  PROVE  MatchInv' /\ Grown
  <1> DEFINE r == DropRecord(world.tick, b)
             t == Append(tape, r)
             p == Point(world', Len(t), FALSE, FALSE)
  <1>1. /\ OpenTape(tape, world.bots, gone, world.tick) /\ Holds(disk, tape) /\ IsWorld(world)
        /\ world.tick \in Nat /\ tape \in Seq(Records) /\ IsSeq(tape) /\ Len(tape) \in Nat
        /\ LastTick(tape, Len(tape) + 1) \in Int
        /\ course[Len(course)].world = world /\ course[Len(course)].recs = Len(tape)
        /\ state = "Running" /\ b \in world.bots \ gone
    BY RunningTape DEF HandleBotDisconnect
  <1>2. /\ world' = Forfeited(world, b) /\ gone' = gone \cup {b} /\ course' = Append(course, p)
        /\ frames' = frames /\ batch' = batch
    BY DEF HandleBotDisconnect
  <1>3. /\ world.tick < MatchTimeout /\ gone \subseteq world.bots \ world.afloat
        /\ IsSeq(frames) /\ Len(frames) = world.tick + 1
    BY <1>1 DEF MatchInv, TapeInv, CourseInv
  <1>4. /\ IsWorld(world') /\ world'.tick = world.tick /\ world'.bots = world.bots
        /\ world'.afloat = world.afloat \ {b}
    BY <1>1, <1>2, ForfeitedIsWorld
  <1>5. r \in Records /\ r.type = "disconnect" /\ r.tick = world.tick /\ r.bot = b
    BY <1>1, <1>3, ReplayAssumption DEF DropRecord, Records
  <1>6. PICK d \in Written(disk, r) : IF batch THEN GameOver(d, t, world, NoBot, FALSE) ELSE GoesOn(d, t)
    BY DEF HandleBotDisconnect
  <1> HIDE DEF r
  <1>7. Holds(d, t)
    BY <1>1, <1>5, HoldsWritten
  <1>8. Len(t) = Len(tape) + 1 /\ t[Len(tape) + 1] = r
    BY <1>1, Appending
  <1>9. OpenTape(t, world'.bots, gone', world'.tick) /\ BeginsWith(t, tape) /\ Later(t, Len(tape), world.tick)
    <2>1. LastTick(tape, Len(tape) + 1) <= r.tick /\ r.bot \in world.bots \ gone
      BY <1>1, <1>5 DEF OpenTape
    <2>2. OpenTape(t, world.bots, gone \cup {r.bot}, r.tick) /\ BeginsWith(t, tape)
      BY <1>1, <1>5, <2>1, Recording
    <2>3. Later(t, Len(tape), world.tick)
      BY <1>1, <1>5, <1>8 DEF Later
    <2> QED BY <1>2, <1>4, <1>5, <2>2, <2>3
  <1> DEFINE last == course[Len(course)]
  <1>10. /\ p.world = world' /\ p.recs = Len(t) /\ p.stepped = FALSE /\ p.decided = FALSE
    BY DEF Point
  <1> HIDE DEF p, t
  <1>11. DropsTo(last, p, t)
    BY <1>1, <1>2, <1>5, <1>8, <1>10 DEF DropsTo
  <1>12. /\ LogStep(t)
         /\ \/ tape' = t /\ Holds(disk', t) /\ state' = "Running" /\ world'.tick < MatchTimeout
            \/ \E winner, natural :
                 /\ tape' = Append(t, EndRecord(world'.tick, winner)) /\ state' = "Ended"
                 /\ result' = [tick |-> world'.tick, winner |-> winner, natural |-> natural]
                 /\ natural = FALSE /\ (natural => winner = Winner(world'))
    <2>1. CASE batch
      <3>1. GameOver(d, t, world, NoBot, FALSE)
        BY <1>6, <2>1
      <3>2. world.tick >= world'.tick /\ world'.tick \in Nat
        BY <1>1, <1>4
      <3>3. /\ LogStep(t) /\ tape' = Append(t, EndRecord(world.tick, NoBot)) /\ state' = "Ended"
            /\ result' = [tick |-> world.tick, winner |-> NoBot, natural |-> FALSE]
        BY <1>1, <1>7, <1>9, <3>1, <3>2, EndingGame
      <3> QED BY <1>4, <3>3
    <2>2. CASE ~batch
      <3>1. GoesOn(d, t) /\ state' = state
        BY <1>6, <2>2 DEF GoesOn
      <3>2. LogStep(t) /\ tape' = t /\ disk' = d
        BY <1>7, <1>9, <3>1, GoingOn
      <3> QED BY <1>1, <1>3, <1>4, <1>7, <3>1, <3>2
    <2> QED BY <2>1, <2>2
  <1>13. /\ gone' \subseteq world'.bots \ world'.afloat /\ world'.tick \in {world.tick, world.tick + 1}
         /\ IsSeq(frames') /\ BeginsWith(frames', frames) /\ Len(frames') = world'.tick + 1
    <2>1. Len(frames) \in Nat
      BY <1>1, <1>3
    <2> QED BY <1>1, <1>2, <1>3, <1>4, <2>1 DEF BeginsWith
  <1> QED BY <1>1, <1>2, <1>4, <1>9, <1>10, <1>11, <1>12, <1>13, PointReached

LEMMA AbortStep ==
  ASSUME MatchInv, AbortMatch
  PROVE  MatchInv' /\ Grown
  <1>1. /\ OpenTape(tape, world.bots, gone, world.tick) /\ Holds(disk, tape) /\ IsWorld(world)
        /\ world.tick \in Nat /\ tape \in Seq(Records) /\ IsSeq(tape) /\ Len(tape) \in Nat
        /\ BeginsWith(tape, tape) /\ state = "Running"
        /\ course[Len(course)].world = world /\ course[Len(course)].recs = Len(tape)
        /\ ~course[Len(course)].decided
    BY RunningTape DEF AbortMatch
  <1>2. /\ GameOver(disk, tape, world, NoBot, FALSE)
        /\ UNCHANGED <<world, frames, gone, batch, course>>
    BY DEF AbortMatch
  <1>3. /\ LogStep(tape) /\ tape' = Append(tape, EndRecord(world.tick, NoBot)) /\ state' = "Ended"
        /\ result' = [tick |-> world.tick, winner |-> NoBot, natural |-> FALSE]
    <2>1. world.tick >= world.tick /\ NoBot \in Bots \cup {NoBot}
      BY <1>1
    <2> QED BY <1>1, <1>2, <2>1, EndingGame
  <1>4. /\ Len(tape') = Len(tape) + 1 /\ tape'[Len(tape) + 1] = EndRecord(world.tick, NoBot)
        /\ \A i \in 1..Len(tape) : tape'[i] = tape[i]
    BY <1>1, <1>3, Appending
  <1>5. /\ tape' \in Seq(Records) /\ WellFormed(tape') /\ BeginsWith(tape', tape)
        /\ WellFormed(tape) /\ Len(tape) \in Nat \ {0}
    BY <1>1, <1>3, EmptySeq DEF LogStep, OpenTape, WellFormed
  <1>6. /\ IsSeq(course) /\ IsSeq(frames) /\ Len(frames) = world.tick + 1 /\ Len(course) >= 1
        /\ course[1] = Point(Rebuilt(tape[1]), 1, TRUE, FALSE)
        /\ \A i \in 1..Len(course) : Placed(course[i], tape, frames)
        /\ Connected(course, tape)
    BY DEF MatchInv, CourseInv
  <1>7. Len(course) \in Nat /\ Len(frames) \in Nat /\ BeginsWith(frames, frames)
    BY <1>6, Appending DEF BeginsWith
  <1>8. Later(tape', Len(tape), world.tick)
    BY <1>1, <1>4 DEF Later, EndRecord
  <1>9. \A i \in 1..Len(course) : Placed(course[i], tape', frames)
    BY <1>1, <1>5, <1>6, <1>7, <1>8, PlacedStays
  <1>10. Connected(course, tape')
    <2> SUFFICES ASSUME NEW i \in 1..Len(course) - 1
                 PROVE  /\ ~course[i].decided
                        /\ \/ StepsTo(course[i], course[i + 1], tape')
                           \/ DropsTo(course[i], course[i + 1], tape')
      BY DEF Connected
    <2>1. i + 1 \in 1..Len(course)
      BY <1>7
    <2>2. tape'[course[i + 1].recs] = tape[course[i + 1].recs]
      BY <1>4, <1>6, <2>1 DEF Placed
    <2> QED BY <1>6, <2>2 DEF Connected, StepsTo, DropsTo
  <1>11. Ending(course[Len(course)])'
    <2>1. tape'[Len(tape')].type = "end" /\ tape'[Len(tape')].tick = world.tick
      BY <1>4 DEF EndRecord
    <2>2. course'[Len(course')] = course[Len(course)] /\ world' = world /\ ~result'.natural
      BY <1>2, <1>3
    <2>3. Len(course) \in 1..Len(course)
      BY <1>6, <1>7
    <2>4. course[Len(course)].decided \in BOOLEAN
      BY <1>6, <2>3 DEF Placed
    <2>5. result'.natural = course[Len(course)].decided
      BY <1>1, <1>3, <2>4
    <2> QED BY <1>1, <1>3, <1>4, <2>1, <2>2, <2>5 DEF Ending
  <1>12. CourseInv'
    <2>1. tape'[1] = tape[1] /\ course' = course /\ frames' = frames /\ world' = world
      BY <1>2, <1>4, <1>5
    <2> QED BY <1>6, <1>9, <1>10, <1>11, <2>1 DEF CourseInv
  <1>13. TapeInv'
    BY <1>2, <1>3, <1>5 DEF MatchInv, TapeInv
  <1>14. DiskInv'
    BY <1>3 DEF LogStep, DiskInv
  <1>15. Grown
    BY <1>1, <1>2, <1>3, <1>7 DEF Grown, LogStep
  <1> QED BY <1>12, <1>13, <1>14, <1>15 DEF MatchInv

LEMMA CrashStep ==
  ASSUME MatchInv, Crash
  PROVE  MatchInv' /\ Grown
  <1>1. /\ Holds(disk, tape) /\ BeginsWith(tape, tape) /\ state = "Running" /\ state' = "Crashed"
        /\ disk' = Dropped(disk) /\ UNCHANGED <<world, gone, batch, frames, result, tape, course>>
    BY RunningTape DEF Crash, history
  <1>2. IsDisk(disk') /\ disk'.hole = disk.hole /\ (~disk'.hole => BeginsWith(tape, disk'.file))
    BY <1>1, Closing DEF Holds
  <1>3. DiskInv'
    BY <1>1, <1>2 DEF DiskInv
  <1>4. TapeInv'
    BY <1>1 DEF MatchInv, TapeInv
  <1>5. CourseInv'
    BY <1>1 DEF MatchInv, CourseInv, Ending
  <1>6. Grown
    <2>1. IsSeq(course) /\ IsSeq(frames)
      BY DEF MatchInv, CourseInv
    <2>2. Len(course) \in Nat /\ Len(frames) \in Nat /\ BeginsWith(frames, frames)
      BY <2>1, Appending DEF BeginsWith
    <2> QED BY <1>1, <1>2, <2>2 DEF Grown
  <1> QED BY <1>3, <1>4, <1>5, <1>6 DEF MatchInv

LEMMA MatchStays ==
  ASSUME MatchInv, UNCHANGED matchVars
  PROVE  MatchInv'
  BY DEF MatchInv, matchVars, history, DiskInv, TapeInv, CourseInv, Ending

-----------------------------------------------------------------------------
(* The reader, while the match goes on. *)

LEMMA ReaderWaits ==
  ASSUME MatchInv, ReaderInv, FollowInv, Grown, UNCHANGED readerVars, MatchInv'
  PROVE  ReaderInv' /\ FollowInv'
  <1>1. UNCHANGED <<mode, log, pos, room, over, shown>>
    BY DEF readerVars
  <1>2. ReaderInv'
    BY <1>1 DEF ReaderInv
  <1>3. ASSUME ~disk'.hole PROVE FollowInv'
    <2>1. /\ ~disk.hole /\ BeginsWith(tape', tape) /\ BeginsWith(frames', frames)
          /\ Len(course) <= Len(course') /\ \A i \in 1..Len(course) : course'[i] = course[i]
          /\ state # "Running" => result' = result
      BY <1>3 DEF Grown
    <2>2. /\ log \in Seq(Records) /\ tape \in Seq(Records) /\ tape' \in Seq(Records)
          /\ IsSeq(frames) /\ IsSeq(frames') /\ IsSeq(course) /\ IsSeq(course')
      BY DEF MatchInv, TapeInv, CourseInv, ReaderInv
    <2>3. BeginsWith(tape', log)
      BY <2>1, <2>2, BeginsWithTransitive DEF FollowInv
    <2>4. ASSUME mode \in {"capture", "play", "done"}
          PROVE  log # <<>> /\ IsSeq(shown) /\ BeginsWith(frames', shown) /\ Len(shown) = room.tick + 1
      <3>1. log # <<>> /\ IsSeq(shown) /\ BeginsWith(frames, shown) /\ Len(shown) = room.tick + 1
        BY <2>1, <2>4 DEF FollowInv
      <3>2. Len(shown) \in Nat /\ Len(frames) \in Nat /\ Len(frames') \in Nat
        BY <2>2, <3>1, Appending
      <3> QED BY <2>1, <3>1, <3>2, BeginsWithTransitive
    <2>5. ASSUME mode \in {"capture", "play"} PROVE \E i \in 1..Len(course') : At(course[i]) /\ course'[i] = course[i]
      <3>1. PICK i \in 1..Len(course) : At(course[i])
        BY <2>1, <2>5 DEF FollowInv
      <3>2. i \in 1..Len(course')
        BY <2>1, <2>2, Appending
      <3> QED BY <2>1, <3>1, <3>2
    <2>6. ASSUME mode = "done" PROVE Finished'
      <3>1. Finished /\ log # <<>> /\ BeginsWith(tape, log)
        BY <2>1, <2>6 DEF FollowInv
      <3>2. CASE state # "Running"
        BY <1>1, <2>1, <3>1, <3>2 DEF Finished
      <3>3. CASE state = "Running"
        <4>1. Len(log) \in Nat \ {0} /\ Len(tape) \in Nat /\ Len(log) <= Len(tape) /\ log[Len(log)] = tape[Len(log)]
          BY <2>2, <3>1, EmptySeq DEF BeginsWith
        <4>2. NoEnd(tape) /\ tape[1].type = "header"
          BY <3>3 DEF MatchInv, TapeInv, OpenTape, WellFormed
        <4>3. Len(log) = 1 \/ Len(log) \in 2..Len(tape)
          <5>1. \A m \in Nat \ {0}, n \in Nat : m <= n => m = 1 \/ m \in 2..n
            OBVIOUS
          <5> QED BY <4>1, <5>1, Zenon
        <4>4. log[Len(log)].type # "end"
          BY <4>1, <4>2, <4>3 DEF NoEnd
        <4> QED BY <1>1, <3>1, <4>4 DEF Finished
      <3> QED BY <3>2, <3>3
    <2>7. mode \in {"idle", "refused"} => log = <<>> /\ shown = <<>>
      BY <2>1 DEF FollowInv
    <2>8. mode \in {"capture", "play"} => \E i \in 1..Len(course') : At(course[i])'
      BY <1>1, <2>5 DEF At
    <2> QED BY <1>1, <1>3, <2>3, <2>4, <2>6, <2>7, <2>8 DEF FollowInv
  <1>4. disk'.hole => FollowInv'
    BY DEF FollowInv
  <1> QED BY <1>2, <1>3, <1>4

LEMMA OpenStep ==
  ASSUME MatchInv, ReaderInv, FollowInv, NEW how \in {"capture", "play"}, OpenLog(how)
  PROVE  ReaderInv' /\ FollowInv'
  <1>1. /\ mode = "idle" /\ log = <<>> /\ shown = <<>> /\ UNCHANGED matchVars
        /\ disk.file \in Seq(Records) /\ tape \in Seq(Records) /\ WellFormed(tape)
    BY DEF OpenLog, ReaderInv, MatchInv, DiskInv, TapeInv, IsDisk
  <1>2. UNCHANGED <<disk, tape, course, frames, result>> /\ MatchInv'
    BY <1>1, MatchStays DEF matchVars, history
  <1>3. CASE disk.torn \/ ~WellFormed(disk.file)
    <2>1. /\ mode' = "refused" /\ log' = IF disk.torn THEN <<>> ELSE disk.file
          /\ UNCHANGED <<pos, room, over, shown>>
      BY <1>3 DEF OpenLog
    <2>2. /\ log' \in Seq(Records) /\ pos \in 1..Len(log) + 1 /\ IsWorld(room) /\ over \in BOOLEAN
      BY <1>1, <2>1, EmptySeq DEF ReaderInv
    <2>3. pos' \in 1..Len(log') + 1
      BY <1>1, <2>1, <2>2, EmptySeq
    <2>4. ReaderInv'
      BY <1>1, <2>1, <2>2, <2>3 DEF ReaderInv
    <2>5. ASSUME ~disk.hole PROVE log' = <<>>
      <3>1. BeginsWith(tape, disk.file)
        BY <2>5 DEF MatchInv, DiskInv
      <3>2. disk.file # <<>> => WellFormed(disk.file)
        BY <1>1, <3>1, Partial
      <3> QED BY <1>3, <2>1, <3>2
    <2>6. BeginsWith(tape, <<>>)
      BY <1>1, EmptySeq DEF BeginsWith
    <2> QED BY <1>1, <1>2, <2>1, <2>4, <2>5, <2>6 DEF FollowInv
  <1>4. CASE ~(disk.torn \/ ~WellFormed(disk.file))
    <2>1. /\ mode' = how /\ log' = disk.file /\ pos' = 2 /\ WellFormed(disk.file)
          /\ room' = Rebuilt(disk.file[1]) /\ over' = FALSE /\ shown' = <<room'>>
      BY <1>4 DEF OpenLog
    <2>2. /\ disk.file # <<>> /\ disk.file[1].type = "header" /\ Len(disk.file) \in Nat \ {0}
          /\ disk.file[1] \in Records
      BY <1>1, <2>1, EmptySeq DEF WellFormed
    <2>3. disk.file[1].bots \in SUBSET Bots
      BY <2>2, RecordKinds
    <2>4. IsWorld(room') /\ room'.tick = 0
      BY <2>1, <2>3, StartIsWorld DEF Rebuilt
    <2>5. 2 \in 1..Len(disk.file) + 1
      BY <2>2
    <2>6. ReaderInv'
      <3>1. pos' \in 1..Len(log') + 1 /\ log' \in Seq(Records) /\ pos' >= 2
        BY <1>1, <2>1, <2>5
      <3>2. room'.tick < MatchTimeout
        BY <2>4, ReplayAssumption
      <3>3. mode' \in {"capture", "play"} /\ over' \in BOOLEAN /\ WellFormed(log')
        BY <2>1
      <3> QED BY <2>4, <3>1, <3>2, <3>3 DEF ReaderInv
    <2>7. ASSUME ~disk.hole
          PROVE  /\ BeginsWith(tape, disk.file) /\ 1 \in 1..Len(course)
                 /\ course[1].world = room' /\ course[1].recs = 1 /\ course[1].decided = FALSE
                 /\ IsSeq(shown') /\ BeginsWith(frames, shown') /\ Len(shown') = room'.tick + 1
      <3>1. BeginsWith(tape, disk.file)
        BY <2>7 DEF MatchInv, DiskInv
      <3>2. disk.file[1] = tape[1]
        BY <2>2, <3>1 DEF BeginsWith
      <3>3. /\ course[1] = Point(Rebuilt(tape[1]), 1, TRUE, FALSE) /\ 1 \in 1..Len(course)
            /\ Placed(course[1], tape, frames) /\ IsSeq(frames)
        <4>1. IsSeq(course) /\ Len(course) >= 1
          BY DEF MatchInv, CourseInv
        <4>2. 1 \in 1..Len(course)
          BY <4>1, Appending
        <4> QED BY <4>2 DEF MatchInv, CourseInv
      <3>4. course[1].world = room' /\ course[1].recs = 1 /\ course[1].decided = FALSE /\ course[1].stepped
        BY <2>1, <3>2, <3>3 DEF Point
      <3>5. frames[1] = room' /\ 1 <= Len(frames)
        <4>1. /\ course[1].world.tick + 1 <= Len(frames)
              /\ course[1].stepped => frames[course[1].world.tick + 1] = course[1].world
          BY <3>3 DEF Placed
        <4>2. course[1].world.tick = 0 /\ course[1].stepped
          BY <2>4, <3>4
        <4> QED BY <3>4, <4>1, <4>2
      <3>6. shown' \in Seq({room'}) /\ Len(shown') = 1 /\ shown'[1] = room'
        BY <2>1
      <3>7. IsSeq(shown') /\ BeginsWith(frames, shown')
        BY <3>5, <3>6 DEF IsSeq, BeginsWith
      <3>8. Len(shown') = room'.tick + 1
        BY <2>4, <3>6
      <3> QED BY <3>1, <3>3, <3>4, <3>7, <3>8
    <2>8. ASSUME ~disk.hole PROVE \E i \in 1..Len(course) : room' = course[i].world /\ pos' = course[i].recs + 1 /\ over' = course[i].decided
      <3>1. /\ 1 \in 1..Len(course) /\ room' = course[1].world /\ pos' = course[1].recs + 1
            /\ over' = course[1].decided
        <4>1. 2 = 1 + 1
          OBVIOUS
        <4> QED BY <2>1, <2>7, <2>8, <4>1, Zenon
      <3> QED BY <3>1
    <2> QED BY <1>2, <2>1, <2>2, <2>6, <2>7, <2>8 DEF FollowInv, At
  <1> QED BY <1>3, <1>4

-----------------------------------------------------------------------------
(* A reader at a point of the course: the next record is what the match did next. *)

LEMMA PointFacts ==
  ASSUME MatchInv, NEW i \in 1..Len(course)
  PROVE  /\ Placed(course[i], tape, frames) /\ Len(course) \in Nat /\ Len(tape) \in Nat
         /\ i # Len(course) => /\ i + 1 \in 1..Len(course) /\ Placed(course[i + 1], tape, frames)
                               /\ ~course[i].decided
                               /\ \/ StepsTo(course[i], course[i + 1], tape)
                                  \/ DropsTo(course[i], course[i + 1], tape)
         /\ i = Len(course) => Ending(course[i])
  <1>1. IsSeq(course) /\ tape \in Seq(Records)
    BY DEF MatchInv, CourseInv, TapeInv
  <1>2. Len(course) \in Nat /\ Len(tape) \in Nat
    BY <1>1, Appending
  <1>3. i # Len(course) => i \in 1..Len(course) - 1 /\ i + 1 \in 1..Len(course)
    BY <1>2
  <1> QED BY <1>2, <1>3 DEF MatchInv, CourseInv, Connected

\* The record the reader is at is no earlier than the room, and a tick's is later.
LEMMA NextRecord ==
  ASSUME MatchInv, BeginsWith(tape, log), log \in Seq(Records), pos \in 1..Len(log),
         NEW i \in 1..Len(course), At(course[i])
  PROVE  /\ course[i].recs + 1 \in 2..Len(tape) /\ log[pos] = tape[course[i].recs + 1]
         /\ pos = course[i].recs + 1 /\ room.tick \in Nat
         /\ log[pos].tick \in Nat /\ log[pos].tick >= room.tick
         /\ log[pos].type = "tick" => log[pos].tick > room.tick
  <1>1. Placed(course[i], tape, frames) /\ tape \in Seq(Records) /\ Len(tape) \in Nat
    BY PointFacts DEF MatchInv, TapeInv
  <1>2. /\ course[i].recs \in 1..Len(tape) /\ pos = course[i].recs + 1 /\ Len(log) \in Nat
        /\ Len(log) <= Len(tape) /\ room = course[i].world
    BY <1>1 DEF Placed, At, BeginsWith
  <1>3. pos \in 2..Len(tape) /\ pos \in course[i].recs + 1..Len(tape) /\ log[pos] = tape[pos]
    BY <1>1, <1>2 DEF BeginsWith
  <1>4. tape[pos] \in Records /\ tape[pos].type # "header"
    <2>1. WellFormed(tape)
      BY DEF MatchInv, TapeInv
    <2> QED BY <1>1, <1>3, <2>1 DEF WellFormed
  <1>5. tape[pos].tick \in Nat
    BY <1>4, RecordKinds, ReplayAssumption
  <1>6. /\ tape[pos].tick >= course[i].world.tick
        /\ tape[pos].type = "tick" => tape[pos].tick > course[i].world.tick
    BY <1>1, <1>3, Zenon DEF Placed, Later
  <1> QED BY <1>1, <1>2, <1>3, <1>5, <1>6 DEF Placed

LEMMA CourseSteps ==
  ASSUME MatchInv, BeginsWith(tape, log), log \in Seq(Records), pos \in 1..Len(log),
         NEW i \in 1..Len(course), At(course[i]), log[pos].tick # room.tick
  PROVE  i # Len(course) /\ StepsTo(course[i], course[i + 1], tape)
  <1>1. /\ course[i].recs + 1 \in 2..Len(tape) /\ log[pos] = tape[course[i].recs + 1]
        /\ Len(tape) \in Nat /\ room = course[i].world
    BY NextRecord, PointFacts DEF At
  <1>2. i # Len(course)
    <2> SUFFICES ASSUME i = Len(course) PROVE FALSE
      OBVIOUS
    <2>1. Ending(course[i])
      BY PointFacts
    <2>2. Len(tape) = course[i].recs + 1 /\ tape[Len(tape)].tick = world.tick /\ course[i].world = world
      BY <1>1, <2>1 DEF Ending
    <2> QED BY <1>1, <2>2
  <1>3. ~DropsTo(course[i], course[i + 1], tape)
    BY <1>1 DEF DropsTo
  <1> QED BY <1>2, <1>3, PointFacts

LEMMA CourseDrops ==
  ASSUME MatchInv, BeginsWith(tape, log), log \in Seq(Records), pos \in 1..Len(log),
         NEW i \in 1..Len(course), At(course[i]), log[pos].tick = room.tick
  PROVE  /\ log[pos].type = "disconnect" => i # Len(course) /\ DropsTo(course[i], course[i + 1], tape)
         /\ log[pos].type = "end" => i = Len(course) /\ state = "Ended"
  <1>1. /\ course[i].recs + 1 \in 2..Len(tape) /\ log[pos] = tape[course[i].recs + 1]
        /\ Len(tape) \in Nat /\ room = course[i].world /\ room.tick \in Nat
        /\ log[pos].type # "tick"
    BY NextRecord, PointFacts DEF At
  <1>2. ASSUME i # Len(course) PROVE ~StepsTo(course[i], course[i + 1], tape)
    <2> SUFFICES ASSUME StepsTo(course[i], course[i + 1], tape) PROVE FALSE
      OBVIOUS
    <2>1. course[i + 1].recs # course[i].recs + 1
      BY <1>1 DEF StepsTo
    <2>2. course[i + 1].recs = course[i].recs /\ course[i + 1].world = Stepped(course[i].world, Silence)
      BY <2>1 DEF StepsTo
    <2>3. course[i + 1].world.tick = room.tick + 1
      BY <1>1, <2>2 DEF Stepped
    <2>4. course[i].recs + 1 \in course[i + 1].recs + 1..Len(tape)
      BY <1>1, <2>2
    <2>5. Later(tape, course[i + 1].recs, course[i + 1].world.tick)
      BY <1>2, PointFacts DEF Placed
    <2>6. tape[course[i].recs + 1].tick >= room.tick + 1
      BY <2>3, <2>4, <2>5, Zenon DEF Later
    <2> QED BY <1>1, <2>6
  <1>3. i = Len(course) => state = "Ended" /\ log[pos].type = "end"
    <2> SUFFICES ASSUME i = Len(course) PROVE state = "Ended" /\ log[pos].type = "end"
      OBVIOUS
    <2>1. Ending(course[i])
      BY PointFacts
    <2> QED BY <1>1, <2>1 DEF Ending
  <1>4. DropsTo(course[i], course[i + 1], tape) => log[pos].type = "disconnect"
    BY <1>1 DEF DropsTo
  <1> QED BY <1>2, <1>3, <1>4, PointFacts

LEMMA StepReader ==
  ASSUME MatchInv, ReaderInv, FollowInv, mode \in {"capture", "play"}, ~AtEnd,
         Is("tick") \/ log[pos].tick # room.tick, StepRoom, UNCHANGED <<log, matchVars>>
  PROVE  ReaderInv' /\ FollowInv'
  <1>1. /\ log \in Seq(Records) /\ Len(log) \in Nat /\ pos \in 1..Len(log) /\ pos >= 2 /\ WellFormed(log)
        /\ IsWorld(room) /\ over \in BOOLEAN /\ (over \/ room.tick < MatchTimeout)
        /\ log' = log /\ UNCHANGED <<disk, tape, course, frames, result>>
    BY DEF ReaderInv, AtEnd, matchVars, history
  <1>2. room.tick \in Nat
    BY <1>1, ReplayAssumption DEF IsWorld
  <1>3. ASSUME ~disk.hole
        PROVE  /\ BeginsWith(tape, log) /\ log # <<>> /\ IsSeq(shown) /\ BeginsWith(frames, shown)
               /\ Len(shown) = room.tick + 1 /\ \E i \in 1..Len(course) : At(course[i])
    BY <1>3 DEF FollowInv
  <1>4. ASSUME ~disk.hole, NEW i \in 1..Len(course), At(course[i])
        PROVE  i # Len(course) /\ StepsTo(course[i], course[i + 1], tape)
    <2>1. log[pos].tick # room.tick
      <3>1. log[pos].type = "tick" => log[pos].tick > room.tick
        BY <1>1, <1>3, <1>4, NextRecord
      <3> QED BY <1>2, <3>1 DEF Is
    <2> QED BY <1>1, <1>3, <1>4, <2>1, CourseSteps
  <1>5. CASE over
    <2>1. mode' = "refused" /\ UNCHANGED <<pos, room, over, shown>>
      BY <1>5 DEF StepRoom
    <2>2. ReaderInv'
      BY <1>1, <2>1 DEF ReaderInv
    <2>3. disk.hole
      <3> SUFFICES ASSUME ~disk.hole PROVE FALSE
        OBVIOUS
      <3>1. PICK i \in 1..Len(course) : At(course[i])
        BY <1>3
      <3>2. i # Len(course) /\ course[i].decided
        BY <1>4, <1>5, <3>1 DEF At
      <3> QED BY <3>2, PointFacts
    <2> QED BY <1>1, <2>2, <2>3 DEF FollowInv
  <1>6. CASE ~over
    <2>1. /\ room' = Stepped(room, Injected) /\ over' = Decided(room') /\ shown' = Append(shown, room')
          /\ pos' = (IF Is("tick") /\ room'.tick = log[pos].tick THEN pos + 1 ELSE pos) /\ mode' = mode
      BY <1>6 DEF StepRoom
    <2>2. /\ IsWorld(room') /\ room'.tick = room.tick + 1 /\ (~Decided(room') => room'.tick < MatchTimeout)
      BY <1>1, <1>6, <2>1, SteppedIsWorld
    <2>3. Decided(room') \in BOOLEAN
      BY DEF Decided
    <2>4. pos' \in 1..Len(log) + 1 /\ pos' >= 2
      BY <1>1, <2>1
    <2>5. ReaderInv'
      BY <1>1, <2>1, <2>2, <2>3, <2>4 DEF ReaderInv
    <2>6. ASSUME ~disk.hole
          PROVE  /\ \E i \in 1..Len(course) : room' = course[i].world /\ pos' = course[i].recs + 1 /\ over' = course[i].decided
                 /\ IsSeq(shown') /\ BeginsWith(frames, shown') /\ Len(shown') = room'.tick + 1
      <3>1. PICK i \in 1..Len(course) : At(course[i])
        BY <1>3, <2>6
      <3> DEFINE p == course[i]
                 q == course[i + 1]
      <3>2. /\ StepsTo(p, q, tape) /\ i + 1 \in 1..Len(course) /\ Placed(q, tape, frames)
            /\ room = p.world /\ pos = p.recs + 1
        BY <1>4, <2>6, <3>1, PointFacts DEF At
      <3>3. /\ p.recs + 1 \in 2..Len(tape) /\ log[pos] = tape[p.recs + 1] /\ log[pos].tick \in Nat
            /\ Len(tape) \in Nat /\ p.recs \in Nat
        <4>1. Placed(p, tape, frames) /\ Len(tape) \in Nat
          BY <3>1, PointFacts
        <4>2. p.recs \in Nat
          BY <4>1 DEF Placed
        <4> QED BY <1>1, <1>3, <2>6, <3>1, <4>1, <4>2, NextRecord
      <3> HIDE DEF p, q
      <3>4. room' = q.world /\ pos' = q.recs + 1
        <4>1. CASE q.recs = p.recs + 1 /\ tape[q.recs].type = "tick"
          <5>1. Is("tick") /\ log[pos].tick = room.tick + 1 /\ q.world = Stepped(room, log[pos].orders)
            BY <3>2, <3>3, <4>1 DEF StepsTo, Is, AtEnd
          <5>2. Injected = log[pos].orders
            BY <5>1 DEF Injected
          <5> QED BY <2>1, <2>2, <3>2, <4>1, <5>1, <5>2
        <4>2. CASE ~(q.recs = p.recs + 1 /\ tape[q.recs].type = "tick")
          <5>1. q.recs = p.recs /\ q.world = Stepped(room, Silence)
            BY <3>2, <4>2 DEF StepsTo
          <5>2. q.world.tick = room.tick + 1
            BY <5>1 DEF Stepped
          <5>3. p.recs + 1 \in q.recs + 1..Len(tape)
            BY <3>3, <5>1
          <5>4. log[pos].type = "tick" => log[pos].tick > room.tick + 1
            BY <3>2, <3>3, <5>2, <5>3, Zenon DEF Placed, Later
          <5>5. ~(Is("tick") /\ room.tick + 1 = log[pos].tick)
            BY <1>2, <3>3, <5>4 DEF Is
          <5>6. Injected = Silence
            BY <5>5 DEF Injected
          <5> QED BY <2>1, <2>2, <3>2, <5>1, <5>5, <5>6
        <4> QED BY <4>1, <4>2
      <3>5. over' = q.decided
        BY <2>1, <3>2, <3>4 DEF StepsTo
      <3>6. room'.tick + 1 <= Len(frames) /\ frames[room'.tick + 1] = room'
        BY <3>2, <3>4 DEF StepsTo, Placed
      <3>7. /\ IsSeq(shown) /\ BeginsWith(frames, shown) /\ Len(shown) = room.tick + 1
            /\ IsSeq(frames)
        BY <1>3, <2>6 DEF MatchInv, CourseInv
      <3>8. /\ IsSeq(shown') /\ Len(shown') = Len(shown) + 1 /\ shown'[Len(shown) + 1] = room'
            /\ \A j \in 1..Len(shown) : shown'[j] = shown[j]
        BY <2>1, <3>7, Appending
      <3>9. BeginsWith(frames, shown')
        <4>1. \A j \in 1..Len(shown') : j \in 1..Len(shown) \/ j = Len(shown) + 1
          BY <1>2, <3>7, <3>8
        <4>2. Len(shown') = room'.tick + 1 /\ Len(shown) + 1 = room'.tick + 1
          BY <1>2, <2>2, <3>7, <3>8
        <4>3. ASSUME NEW j \in 1..Len(shown') PROVE shown'[j] = frames[j]
          <5>1. CASE j \in 1..Len(shown)
            BY <3>7, <3>8, <5>1, Zenon DEF BeginsWith
          <5>2. CASE j = Len(shown) + 1
            BY <3>6, <3>8, <4>2, <5>2
          <5> QED BY <4>1, <5>1, <5>2
        <4> QED BY <3>6, <4>2, <4>3, Zenon DEF BeginsWith
      <3>10. Len(shown') = room'.tick + 1
        BY <1>2, <2>2, <3>7, <3>8
      <3> QED BY <3>2, <3>4, <3>5, <3>8, <3>9, <3>10 DEF q
    <2> QED BY <1>1, <1>3, <2>1, <2>5, <2>6 DEF FollowInv, At
  <1> QED BY <1>5, <1>6

LEMMA ForfeitReader ==
  ASSUME MatchInv, ReaderInv, FollowInv, mode \in {"capture", "play"}, Is("disconnect"),
         log[pos].tick <= room.tick, ForfeitRoom, UNCHANGED <<log, matchVars>>
  PROVE  ReaderInv' /\ FollowInv'
  <1>1. /\ log \in Seq(Records) /\ Len(log) \in Nat /\ pos \in 1..Len(log) /\ pos >= 2 /\ WellFormed(log)
        /\ IsWorld(room) /\ over \in BOOLEAN /\ (over \/ room.tick < MatchTimeout)
        /\ log' = log /\ UNCHANGED <<disk, tape, course, frames, result>>
    BY DEF ReaderInv, Is, AtEnd, matchVars, history
  <1>2. /\ room' = Forfeited(room, log[pos].bot) /\ pos' = pos + 1 /\ mode' = mode /\ over' = over
        /\ shown' = shown
    BY DEF ForfeitRoom
  <1>3. IsWorld(room') /\ room'.tick = room.tick
    BY <1>1, <1>2, ForfeitedIsWorld
  <1>4. ReaderInv'
    <2>1. pos' \in 1..Len(log) + 1 /\ pos' >= 2
      BY <1>1, <1>2
    <2> QED BY <1>1, <1>2, <1>3, <2>1 DEF ReaderInv
  <1>5. ASSUME ~disk.hole
        PROVE  /\ BeginsWith(tape, log) /\ log # <<>> /\ IsSeq(shown) /\ BeginsWith(frames, shown)
               /\ Len(shown) = room.tick + 1 /\ \E i \in 1..Len(course) : At(course[i])
    BY <1>5 DEF FollowInv
  <1>6. ASSUME ~disk.hole
        PROVE  \E i \in 1..Len(course) : room' = course[i].world /\ pos' = course[i].recs + 1 /\ over' = course[i].decided
    <2>1. PICK i \in 1..Len(course) : At(course[i])
      BY <1>5, <1>6
    <2>2. /\ log[pos] = tape[course[i].recs + 1] /\ log[pos].tick >= room.tick
          /\ log[pos].tick \in Nat /\ room.tick \in Nat
      BY <1>1, <1>5, <1>6, <2>1, NextRecord
    <2>3. log[pos].tick = room.tick
      BY <2>2
    <2>4. i # Len(course) /\ DropsTo(course[i], course[i + 1], tape)
      BY <1>1, <1>5, <1>6, <2>1, <2>3, CourseDrops DEF Is
    <2>5. /\ i + 1 \in 1..Len(course) /\ ~course[i].decided /\ course[i].decided \in BOOLEAN
          /\ course[i + 1].decided \in BOOLEAN
      BY <2>1, <2>4, PointFacts DEF Placed
    <2>6. /\ room' = course[i + 1].world /\ pos' = course[i + 1].recs + 1
      BY <1>2, <2>1, <2>2, <2>4 DEF At, DropsTo
    <2>7. over' = course[i + 1].decided
      BY <1>2, <2>1, <2>4, <2>5 DEF At, DropsTo
    <2> QED BY <2>5, <2>6, <2>7
  <1> QED BY <1>1, <1>2, <1>3, <1>4, <1>5, <1>6 DEF FollowInv, At

\* The reader stops after the last record, which it may just have reached.
LEMMA FinishReader ==
  ASSUME MatchInv, ReaderInv, FollowInv, mode \in {"capture", "play"}, NEW next, Finish(next),
         \/ AtEnd /\ next = pos
         \/ Is("end") /\ log[pos].tick <= room.tick /\ next = pos + 1,
         UNCHANGED <<log, matchVars>>
  PROVE  ReaderInv' /\ FollowInv'
  <1>1. /\ log \in Seq(Records) /\ Len(log) \in Nat /\ pos \in 1..Len(log) + 1 /\ pos >= 2 /\ WellFormed(log)
        /\ IsWorld(room) /\ over \in BOOLEAN /\ mode' = "done" /\ pos' = next
        /\ UNCHANGED <<log, disk, tape, course, frames, result, room, over, shown>>
    BY DEF ReaderInv, Finish, matchVars, history
  <1>2. Is("end") => pos = Len(log)
    BY <1>1 DEF Is, AtEnd, WellFormed
  <1>3. next = Len(log) + 1
    BY <1>1, <1>2 DEF AtEnd
  <1>4. ReaderInv'
    BY <1>1, <1>3 DEF ReaderInv
  <1>5. ASSUME ~disk.hole PROVE Finished'
    <2>1. BeginsWith(tape, log) /\ \E i \in 1..Len(course) : At(course[i])
      BY <1>5 DEF FollowInv
    <2>2. PICK i \in 1..Len(course) : At(course[i])
      BY <2>1
    <2>3. CASE AtEnd
      <3>1. /\ Placed(course[i], tape, frames) /\ pos = course[i].recs + 1 /\ pos = Len(log) + 1
            /\ course[i].recs = Len(log) /\ Len(log) \in 1..Len(tape)
        <4>1. Placed(course[i], tape, frames) /\ pos = course[i].recs + 1 /\ pos = Len(log) + 1
          BY <1>1, <2>2, <2>3, PointFacts DEF At, AtEnd
        <4>2. course[i].recs \in 1..Len(tape) /\ Len(tape) \in Nat
          BY <2>2, <4>1, PointFacts DEF Placed
        <4>3. course[i].recs = Len(log)
          BY <1>1, <4>1, <4>2
        <4> QED BY <4>1, <4>2, <4>3
      <3>2. log[Len(log)] = tape[Len(log)]
        BY <1>1, <2>1, <3>1 DEF BeginsWith
      <3>3. tape[1].type = "header"
        BY DEF MatchInv, TapeInv, WellFormed
      <3>4. log[Len(log)].type # "end"
        <4>1. \A n \in Nat : n \in 1..Len(tape) => n = 1 \/ n \in 2..n
          OBVIOUS
        <4>2. Len(log) = 1 \/ Len(log) \in 2..Len(log)
          BY <1>1, <3>1, <4>1
        <4>3. \A j \in 2..Len(log) : tape[j].type # "end"
          BY <3>1 DEF Placed
        <4> QED BY <3>2, <3>3, <4>2, <4>3
      <3> QED BY <1>1, <1>3, <3>4 DEF Finished
    <2>4. CASE Is("end") /\ log[pos].tick <= room.tick
      <3>1. pos \in 1..Len(log) /\ pos = Len(log) /\ log[pos].type = "end"
        BY <1>1, <1>2, <2>4 DEF Is, AtEnd
      <3>2. /\ log[pos] = tape[course[i].recs + 1] /\ log[pos].tick >= room.tick
            /\ log[pos].tick \in Nat /\ room.tick \in Nat
        BY <1>1, <2>1, <2>2, <3>1, NextRecord
      <3>3. log[pos].tick = room.tick
        BY <2>4, <3>2
      <3>4. i = Len(course) /\ state = "Ended"
        BY <1>1, <2>1, <2>2, <3>1, <3>3, CourseDrops
      <3>5. Ending(course[i])
        BY <3>4, PointFacts
      <3>6. over = result.natural /\ (result.natural => log[pos].winner = Winner(room))
        BY <2>2, <3>2, <3>4, <3>5 DEF Ending, At
      <3> QED BY <1>1, <1>3, <3>1, <3>3, <3>6 DEF Finished
    <2> QED BY <1>1, <1>3, <2>3, <2>4 DEF AtEnd
  <1> QED BY <1>1, <1>4, <1>5 DEF FollowInv

LEMMA LoggedTick ==
  ASSUME ReaderInv, mode \in {"capture", "play"}, ~AtEnd
  PROVE  log[pos].tick \in Nat /\ room.tick \in Nat
  <1>1. log \in Seq(Records) /\ WellFormed(log) /\ pos \in 2..Len(log) /\ IsWorld(room)
    BY DEF ReaderInv, AtEnd
  <1>2. log[pos] \in Records /\ log[pos].type # "header"
    BY <1>1 DEF WellFormed
  <1> QED BY <1>1, <1>2, RecordKinds, ReplayAssumption DEF IsWorld

LEMMA CaptureStep ==
  ASSUME MatchInv, ReaderInv, FollowInv, Capture
  PROVE  ReaderInv' /\ FollowInv'
  <1>1. mode = "capture" /\ UNCHANGED <<log, matchVars>>
    BY DEF Capture
  <1>2. CASE AtEnd /\ Finish(pos)
    BY <1>1, <1>2, FinishReader
  <1>3. CASE ~AtEnd /\ room.tick < log[pos].tick /\ StepRoom
    <2>1. log[pos].tick # room.tick
      BY <1>1, <1>3, LoggedTick
    <2> QED BY <1>1, <1>3, <2>1, StepReader
  <1>4. CASE Is("disconnect") /\ room.tick >= log[pos].tick /\ ForfeitRoom
    <2>1. log[pos].tick <= room.tick
      BY <1>1, <1>4, LoggedTick DEF Is
    <2> QED BY <1>1, <1>4, <2>1, ForfeitReader
  <1>5. CASE Is("end") /\ room.tick >= log[pos].tick /\ Finish(pos + 1)
    <2>1. log[pos].tick <= room.tick
      BY <1>1, <1>5, LoggedTick DEF Is
    <2> QED BY <1>1, <1>5, <2>1, FinishReader
  <1> QED BY <1>2, <1>3, <1>4, <1>5 DEF Capture

LEMMA PlayStep ==
  ASSUME MatchInv, ReaderInv, FollowInv, Play
  PROVE  ReaderInv' /\ FollowInv'
  <1>1. mode = "play" /\ UNCHANGED <<log, matchVars>>
    BY DEF Play
  <1>2. CASE Is("disconnect") /\ log[pos].tick = room.tick /\ ForfeitRoom
    <2>1. log[pos].tick <= room.tick
      BY <1>1, <1>2, LoggedTick DEF Is
    <2> QED BY <1>1, <1>2, <2>1, ForfeitReader
  <1>3. CASE Is("end") /\ log[pos].tick = room.tick /\ Finish(pos + 1)
    <2>1. log[pos].tick <= room.tick
      BY <1>1, <1>3, LoggedTick DEF Is
    <2> QED BY <1>1, <1>3, <2>1, FinishReader
  <1>4. CASE AtEnd /\ Finish(pos)
    BY <1>1, <1>4, FinishReader
  <1>5. CASE ~AtEnd /\ (Is("tick") \/ log[pos].tick # room.tick) /\ StepRoom
    BY <1>1, <1>5, StepReader
  <1> QED BY <1>2, <1>3, <1>4, <1>5 DEF Play

-----------------------------------------------------------------------------
(* The start, and what follows for the specification. *)

LEMMA Start == Init => IInv
  <1> SUFFICES ASSUME Init PROVE IInv
    OBVIOUS
  <1>1. PICK bots \in (SUBSET Bots) \ {{}}, rules \in Rules, spawn \in Spawns :
          /\ world = StartOf(bots, rules, spawn)
          /\ disk \in Written(Unwritten, HeaderRecord(bots, rules, spawn))
          /\ tape = <<HeaderRecord(bots, rules, spawn)>>
    BY DEF Init
  <1> DEFINE h == HeaderRecord(bots, rules, spawn)
  <1>2. h \in Records /\ h.type = "header" /\ h.bots = bots /\ Rebuilt(h) = world
    BY <1>1 DEF HeaderRecord, Records, Rebuilt
  <1>3. tape \in Seq(Records) /\ Len(tape) = 1 /\ tape[1] = h
    BY <1>1, <1>2
  <1> HIDE DEF h
  <1>4. IsWorld(world) /\ world.tick = 0 /\ world.bots = bots /\ bots # {} /\ world.tick < MatchTimeout
    <2>1. bots \in SUBSET Bots /\ bots # {}
      OBVIOUS
    <2>2. IsWorld(world) /\ world.tick = 0 /\ world.bots = bots
      BY <1>1, <2>1, StartIsWorld
    <2>3. 0 < MatchTimeout
      BY ReplayAssumption
    <2> QED BY <2>1, <2>2, <2>3
  <1>5. WellFormed(tape)
    <2>1. tape # <<>>
      <3>1. tape = <<>> => Len(tape) = Len(<<>>)
        BY Zenon
      <3>2. Len(<<>>) = 0
        OBVIOUS
      <3> QED BY <1>3, <3>1, <3>2
    <2>2. tape[1].type = "header" /\ tape[1].bots # {}
      BY <1>2, <1>3, <1>4
    <2>3. 2..Len(tape) = {}
      BY <1>3
    <2>4. Cardinality(tape[1].bots) <= MaxReplayBots
      <3>1. tape[1].bots = bots /\ bots \in SUBSET Bots /\ IsFiniteSet(Bots)
        BY <1>2, <1>3, ReplayAssumption
      <3>2. IsFiniteSet(bots) /\ Cardinality(bots) <= Cardinality(Bots)
        BY <3>1, FS_Subset
      <3>3. Cardinality(bots) \in Nat /\ Cardinality(Bots) \in Nat
        BY <3>1, <3>2, FS_CardinalityType
      <3> QED BY <3>1, <3>2, <3>3, ReplayAssumption
    <2> QED BY <2>1, <2>2, <2>3, <2>4, Zenon DEF WellFormed
  <1>6. DiskInv
    <2>1. IsDisk(Unwritten) /\ Unwritten.file = <<>> /\ Unwritten.buf = <<>>
      BY EmptySeq, ReplayAssumption DEF Unwritten, IsDisk
    <2>2. IsDisk(disk) /\ (~disk.hole => disk.file \o disk.buf = Append(<<>> \o <<>>, h))
      BY <1>1, <1>2, <2>1, Writing DEF h
    <2>3. Append(<<>> \o <<>>, h) = tape
      BY <1>1 DEF h
    <2>4. BeginsWith(disk.file \o disk.buf, disk.file)
      BY <2>2, Prefixed DEF IsDisk
    <2> QED BY <2>2, <2>3, <2>4 DEF DiskInv
  <1>7. /\ state = "Running" /\ frames = <<world>> /\ gone = {} /\ batch \in BOOLEAN
        /\ course = <<Point(world, 1, TRUE, FALSE)>>
        /\ mode = "idle" /\ log = <<>> /\ pos = 1 /\ room = world /\ over = FALSE /\ shown = <<>>
    BY DEF Init
  <1>8. TapeInv
    <2>1. DroppedBefore(tape, Len(tape) + 1) = {} /\ LastTick(tape, Len(tape) + 1) = 0 /\ NoEnd(tape)
      BY <1>3 DEF DroppedBefore, LastTick, NoEnd
    <2>2. OpenTape(tape, world.bots, gone, world.tick)
      BY <1>2, <1>3, <1>4, <1>5, <1>7, <2>1 DEF OpenTape
    <2> QED BY <1>3, <1>4, <1>5, <1>7, <2>2 DEF TapeInv
  <1>9. CourseInv
    <2> DEFINE p == Point(world, 1, TRUE, FALSE)
    <2>1. p.world = world /\ p.recs = 1 /\ p.stepped = TRUE /\ p.decided = FALSE
      BY DEF Point
    <2> HIDE DEF p
    <2>2. course \in Seq({p}) /\ Len(course) = 1 /\ course[1] = p
      BY <1>7 DEF p
    <2>3. frames \in Seq({world}) /\ Len(frames) = 1 /\ frames[1] = world
      BY <1>7
    <2>4. Placed(p, tape, frames)
      <3>1. p.recs \in 1..Len(tape) /\ p.world.tick = 0 /\ p.stepped = TRUE /\ p.decided = FALSE
        BY <1>3, <1>4, <2>1
      <3>2. \A j \in 2..p.recs : tape[j].type # "end"
        BY <2>1
      <3>3. Later(tape, p.recs, p.world.tick)
        BY <1>3, <2>1 DEF Later
      <3>4. 0 + 1 <= Len(frames) /\ frames[0 + 1] = p.world
        BY <2>1, <2>3
      <3>5. 0 + 1 <= Len(frames) /\ (p.stepped => frames[0 + 1] = p.world) /\ 0 \in Nat
        BY <3>4
      <3> QED BY <3>1, <3>2, <3>3, <3>5, Zenon DEF Placed
    <2>5. Connected(course, tape)
      BY <2>2 DEF Connected
    <2>6. Ending(p)
      BY <1>3, <1>7, <2>1 DEF Ending
    <2>7. p = Point(Rebuilt(tape[1]), 1, TRUE, FALSE)
      BY <1>2, <1>3 DEF p
    <2>8. IsSeq(course) /\ IsSeq(frames)
      BY <2>2, <2>3 DEF IsSeq
    <2>9. Len(frames) = world.tick + 1
      BY <1>4, <2>3
    <2>10. \A i \in 1..Len(course) : Placed(course[i], tape, frames)
      BY <2>2, <2>4
    <2>11. Len(course) >= 1 /\ course[1] = p /\ course[Len(course)] = p
      BY <2>2
    <2> QED BY <2>5, <2>6, <2>7, <2>8, <2>9, <2>10, <2>11, Zenon DEF CourseInv
  <1>10. ReaderInv
    <2>1. <<>> \in Seq(Records) /\ 1 \in 1..Len(<<>>) + 1
      BY EmptySeq
    <2> QED BY <1>4, <1>7, <2>1 DEF ReaderInv
  <1>11. FollowInv
    BY <1>3, <1>7, EmptySeq DEF FollowInv, BeginsWith
  <1> QED BY <1>6, <1>8, <1>9, <1>10, <1>11 DEF IInv

LEMMA NextKeeps == IInv /\ [Next]_vars => IInv'
  <1> SUFFICES ASSUME IInv, [Next]_vars PROVE IInv'
    OBVIOUS
  <1>1. MatchInv /\ ReaderInv /\ FollowInv
    BY DEF IInv, MatchInv
  <1>2. ASSUME MatchInv', ReaderInv', FollowInv' PROVE IInv'
    BY <1>2 DEF IInv, MatchInv
  <1>3. ASSUME MatchInv' /\ Grown, UNCHANGED readerVars PROVE IInv'
    BY <1>1, <1>2, <1>3, ReaderWaits
  <1>4. ASSUME UNCHANGED matchVars, ReaderInv' /\ FollowInv' PROVE IInv'
    BY <1>1, <1>2, <1>4, MatchStays
  <1>5. ASSUME NEW orders \in OrdersGiven(world.afloat), StepTick(orders) PROVE IInv'
    <2>1. UNCHANGED readerVars
      BY <1>5 DEF StepTick
    <2> QED BY <1>1, <1>3, <1>5, <2>1, TickStep
  <1>6. ASSUME NEW b \in Bots, HandleBotDisconnect(b) PROVE IInv'
    <2>1. UNCHANGED readerVars
      BY <1>6 DEF HandleBotDisconnect
    <2> QED BY <1>1, <1>3, <1>6, <2>1, DropStep
  <1>7. CASE AbortMatch
    <2>1. UNCHANGED readerVars
      BY <1>7 DEF AbortMatch
    <2> QED BY <1>1, <1>3, <1>7, <2>1, AbortStep
  <1>8. CASE Crash
    <2>1. UNCHANGED readerVars
      BY <1>8 DEF Crash
    <2> QED BY <1>1, <1>3, <1>8, <2>1, CrashStep
  <1>9. ASSUME NEW how \in {"capture", "play"}, OpenLog(how) PROVE IInv'
    <2>1. UNCHANGED matchVars
      BY <1>9 DEF OpenLog
    <2> QED BY <1>1, <1>4, <1>9, <2>1, OpenStep
  <1>10. CASE Capture
    <2>1. UNCHANGED matchVars
      BY <1>10 DEF Capture
    <2> QED BY <1>1, <1>4, <1>10, <2>1, CaptureStep
  <1>11. CASE Play
    <2>1. UNCHANGED matchVars
      BY <1>11 DEF Play
    <2> QED BY <1>1, <1>4, <1>11, <2>1, PlayStep
  <1>12. CASE UNCHANGED vars
    <2>1. UNCHANGED matchVars /\ UNCHANGED <<mode, log, pos, room, over, shown>>
      BY <1>12 DEF vars, readerVars
    <2>2. UNCHANGED <<disk, tape, course, frames, result>>
      BY <2>1 DEF matchVars, history
    <2>3. ReaderInv'
      BY <1>1, <2>1 DEF ReaderInv
    <2>4. FollowInv'
      BY <1>1, <2>1, <2>2 DEF FollowInv, At, Finished
    <2> QED BY <1>4, <2>1, <2>3, <2>4
  <1> QED BY <1>5, <1>6, <1>7, <1>8, <1>9, <1>10, <1>11, <1>12 DEF Next

\* The reader is always where the match was, and can go on as the match did.
THEOREM Invariance == Spec => []IInv
  BY Start, NextKeeps, PTL DEF Spec

\* The variables, the log and its buffer stay within their types, whatever is lost.
THEOREM TypeCorrect == Spec => []TypeOK
  <1>1. IInv => TypeOK
    BY DEF IInv, DiskInv, TapeInv, CourseInv, ReaderInv, IsDisk, TypeOK
  <1> QED BY <1>1, Invariance, PTL

\* capture_replay and run_replay_with_events produce the frames of the match, whatever
\* the simulation does, also from a log that is still being written or was cut short.
THEOREM Faithful == Spec => []ReplayIsFaithful
  <1>1. IInv => ReplayIsFaithful
    <2> SUFFICES ASSUME IInv, ~disk.hole, shown # <<>>
                 PROVE  /\ Len(shown) = room.tick + 1
                        /\ \A i \in DOMAIN shown : i \in DOMAIN frames /\ shown[i] = frames[i]
      BY DEF ReplayIsFaithful
    <2>1. /\ IsSeq(shown) /\ BeginsWith(frames, shown) /\ Len(shown) = room.tick + 1 /\ IsSeq(frames)
      BY DEF IInv, ReaderInv, FollowInv, CourseInv
    <2>2. /\ DOMAIN shown = 1..Len(shown) /\ DOMAIN frames = 1..Len(frames)
          /\ Len(shown) \in Nat /\ Len(frames) \in Nat
      BY <2>1 DEF IsSeq
    <2> QED BY <2>1, <2>2 DEF BeginsWith
  <1> QED BY <1>1, Invariance, PTL

\* No log with its header and every record is refused, and a sealed one is replayed to
\* the recorded end with the recorded winner.
THEOREM Complete == Spec => []ReplayCompletes
  <1>1. IInv => ReplayCompletes
    <2> SUFFICES ASSUME IInv, ~disk.hole
                 PROVE  /\ mode = "refused" => log = <<>>
                        /\ mode = "done" => AtEnd
                        /\ mode = "done" /\ log[Len(log)].type = "end" =>
                             /\ room.tick = log[Len(log)].tick /\ over = result.natural
                             /\ result.natural => log[Len(log)].winner = Winner(room)
      BY DEF ReplayCompletes
    <2>1. mode = "refused" => log = <<>>
      BY DEF IInv, FollowInv
    <2>2. mode = "done" => Finished /\ Len(log) \in Nat
      BY DEF IInv, FollowInv, ReaderInv
    <2>3. mode = "done" => AtEnd
      BY <2>2 DEF Finished, AtEnd
    <2> QED BY <2>1, <2>2, <2>3 DEF Finished
  <1> QED BY <1>1, Invariance, PTL
=============================================================================
