--------------------------- MODULE GatewayProofs ---------------------------
(***************************************************************************)
(* Proofs about Gateway, for any number of connections, addresses, slots   *)
(* and matches: the slots come back, a revoked connection is cut, and a    *)
(* bot that answers in time is not closed for its messages.                *)
(***************************************************************************)
EXTENDS Gateway, FiniteSetTheorems, TLAPS

-----------------------------------------------------------------------------
(* Slots. *)

At(S, a) == {c \in S : Addr[c] = a}
\* A loop goes on or is left.
MayLeave(c) == UNCHANGED step \/ \E s \in Left : step' = [step EXCEPT ![c] = s]
Serving == Steps \ {"idle", "first"}

\* The slot a connection waits for it does not hold yet, without which it would be counted
\* twice.
SlotsInv ==
  /\ step \in [Conns -> Steps]
  /\ count \in [Addresses -> Nat] /\ free \in Nat
  /\ guarded \subseteq Conns /\ permitted \subseteq Conns
  /\ SlotsAreReturned
  /\ \A c \in Conns :
       step[c] = "first" => c \notin (IF c \in Bots THEN permitted ELSE guarded)

\* Most steps leave the slots alone and move connections that hold both.
LEMMA SlotsKept ==
  ASSUME SlotsInv, UNCHANGED slots, step' \in [Conns -> Steps],
         \A c \in Conns : step'[c] # step[c] => step[c] \in Serving /\ step'[c] \in Serving
  PROVE  SlotsInv'
  BY DEF SlotsInv, SlotsAreReturned, slots, Serving, Steps

LEMMA AtAdded ==
  ASSUME NEW S \in SUBSET Conns, NEW c \in Conns \ S, NEW a
  PROVE  /\ Cardinality(At(S, a)) \in Nat
         /\ Cardinality(At(S \cup {c}, a)) =
              Cardinality(At(S, a)) + (IF Addr[c] = a THEN 1 ELSE 0)
  <1>1. IsFiniteSet(At(S, a))
    <2>1. At(S, a) \in SUBSET Conns
      BY DEF At
    <2> QED BY <2>1, FS_Subset, GatewayAssumption
  <1>2. CASE Addr[c] = a
    <2>1. At(S \cup {c}, a) = At(S, a) \cup {c} /\ c \notin At(S, a)
      BY <1>2 DEF At
    <2> QED BY <1>1, <1>2, <2>1, FS_AddElement, FS_CardinalityType
  <1>3. CASE Addr[c] # a
    <2>1. At(S \cup {c}, a) = At(S, a)
      BY <1>3 DEF At
    <2> QED BY <1>1, <1>3, <2>1, FS_CardinalityType
  <1> QED BY <1>2, <1>3

LEMMA AtRemoved ==
  ASSUME NEW S \in SUBSET Conns, NEW c \in S, NEW a
  PROVE  /\ Cardinality(At(S, a)) \in Nat /\ Cardinality(At(S \ {c}, a)) \in Nat
         /\ Cardinality(At(S, a)) =
              Cardinality(At(S \ {c}, a)) + (IF Addr[c] = a THEN 1 ELSE 0)
  <1>1. S \ {c} \in SUBSET Conns /\ c \in Conns \ (S \ {c}) /\ (S \ {c}) \cup {c} = S
    OBVIOUS
  <1>2. /\ Cardinality(At(S \ {c}, a)) \in Nat
        /\ Cardinality(At((S \ {c}) \cup {c}, a)) =
              Cardinality(At(S \ {c}, a)) + (IF Addr[c] = a THEN 1 ELSE 0)
    BY <1>1, AtAdded
  <1> QED BY <1>1, <1>2

LEMMA PermitsFinite ==
  ASSUME permitted \in SUBSET Conns
  PROVE  IsFiniteSet(permitted) /\ Cardinality(permitted) \in Nat
  BY FS_Subset, FS_CardinalityType, GatewayAssumption

\* What SlotsAreReturned says of the guards, by address.
Counted == PerIp > 0 => \A a \in Addresses :
             count[a] = Cardinality(At(guarded, a)) /\ count[a] <= PerIp

LEMMA GuardTaken ==
  ASSUME SlotsInv, NEW c \in Conns, c \notin guarded, TakeGuard(c)
  PROVE  /\ count' \in [Addresses -> Nat] /\ Counted'
         /\ guarded' = guarded \cup {c} /\ UNCHANGED <<free, permitted>>
  <1>1. Addr[c] \in Addresses
    BY DEF Addresses
  <1>2. count' \in [Addresses -> Nat]
    BY <1>1 DEF SlotsInv, TakeGuard
  <1>3. ASSUME PerIp > 0, NEW a \in Addresses
        PROVE  count'[a] = Cardinality(At(guarded', a)) /\ count'[a] <= PerIp
    <2>1. guarded' = guarded \cup {c}
      BY DEF TakeGuard
    <2>2. /\ Cardinality(At(guarded, a)) \in Nat
          /\ Cardinality(At(guarded \cup {c}, a)) =
               Cardinality(At(guarded, a)) + (IF Addr[c] = a THEN 1 ELSE 0)
      BY AtAdded DEF SlotsInv
    <2>3. count[a] = Cardinality(At(guarded, a)) /\ count[a] <= PerIp
      BY <1>3 DEF SlotsInv, SlotsAreReturned, At
    <2>4. count'[a] = count[a] + (IF Addr[c] = a THEN 1 ELSE 0)
      BY <1>1, <1>3, <2>2, <2>3 DEF TakeGuard, SlotsInv
    <2>5. Addr[c] = a => count[a] < PerIp
      BY <1>3 DEF TakeGuard
    <2>6. PerIp \in Nat /\ count[a] \in Nat
      BY GatewayAssumption DEF SlotsInv
    <2> QED BY <2>1, <2>2, <2>3, <2>4, <2>5, <2>6
  <1>4. Counted'
    BY <1>3 DEF Counted
  <1> QED BY <1>2, <1>4 DEF TakeGuard

LEMMA PermitTaken ==
  ASSUME SlotsInv, NEW c \in Conns, c \notin permitted, TakePermit(c)
  PROVE  /\ free' \in Nat /\ free' + Cardinality(permitted') = Permits
         /\ permitted' = permitted \cup {c} /\ UNCHANGED <<count, guarded>>
  <1>1. IsFiniteSet(permitted) /\ Cardinality(permitted) \in Nat
    BY PermitsFinite DEF SlotsInv
  <1>2. Cardinality(permitted \cup {c}) = Cardinality(permitted) + 1
    BY <1>1, FS_AddElement
  <1>3. free \in Nat /\ free + Cardinality(permitted) = Permits
    BY DEF SlotsInv, SlotsAreReturned
  <1>4. free > 0 /\ free' = free - 1 /\ permitted' = permitted \cup {c} /\ UNCHANGED <<count, guarded>>
    BY DEF TakePermit
  <1>5. Permits \in Nat
    BY GatewayAssumption
  <1> QED BY <1>1, <1>2, <1>3, <1>4, <1>5

LEMMA SlotsEnd ==
  ASSUME SlotsInv, NEW c \in Conns, Ends(c)
  PROVE  SlotsInv'
  <1>0. /\ step' = [step EXCEPT ![c] = "idle"]
        /\ guarded' = guarded \ {c} /\ permitted' = permitted \ {c}
        /\ count' = CountAfter(c)
        /\ free' = IF c \in permitted THEN free + 1 ELSE free
    BY DEF Ends
  <1>1. free' \in Nat /\ free' + Cardinality(permitted') = Permits
    <2>1. IsFiniteSet(permitted) /\ Cardinality(permitted) \in Nat
      BY PermitsFinite DEF SlotsInv
    <2>2. Cardinality(permitted \ {c}) =
            IF c \in permitted THEN Cardinality(permitted) - 1 ELSE Cardinality(permitted)
      BY <2>1, FS_RemoveElement
    <2>3. free \in Nat /\ free + Cardinality(permitted) = Permits
      BY DEF SlotsInv, SlotsAreReturned
    <2> QED BY <1>0, <2>1, <2>2, <2>3
  <1>2. count' \in [Addresses -> Nat]
    BY <1>0 DEF SlotsInv, CountAfter, Addresses
  <1>3. ASSUME PerIp > 0, NEW a \in Addresses
        PROVE  count'[a] = Cardinality(At(guarded', a)) /\ count'[a] <= PerIp
    <2>1. count[a] = Cardinality(At(guarded, a)) /\ count[a] <= PerIp /\ count[a] \in Nat
      BY <1>3 DEF SlotsInv, SlotsAreReturned, At
    <2>2. CASE c \in guarded
      <3>1. /\ Cardinality(At(guarded, a)) \in Nat /\ Cardinality(At(guarded \ {c}, a)) \in Nat
            /\ Cardinality(At(guarded, a)) =
                 Cardinality(At(guarded \ {c}, a)) + (IF Addr[c] = a THEN 1 ELSE 0)
        <4>1. guarded \in SUBSET Conns
          BY DEF SlotsInv
        <4> QED BY <2>2, <4>1, AtRemoved
      <3>2. count'[a] = IF Addr[c] = a THEN (IF count[a] > 0 THEN count[a] - 1 ELSE 0) ELSE count[a]
        BY <1>0, <1>3, <2>2 DEF CountAfter, SlotsInv
      <3>3. guarded' = guarded \ {c} /\ PerIp \in Nat
        BY <1>0, GatewayAssumption
      <3> QED BY <2>1, <3>1, <3>2, <3>3
    <2>3. CASE c \notin guarded
      BY <1>0, <2>1, <2>3 DEF CountAfter, At
    <2> QED BY <2>2, <2>3
  <1>4. step' \in [Conns -> Steps] /\ guarded' \subseteq Conns /\ permitted' \subseteq Conns
    BY <1>0 DEF SlotsInv, Steps
  <1>5. \A d \in Conns :
          /\ step'[d] = "idle" => d \notin guarded' \cup permitted'
          /\ step'[d] = "first" => /\ d \in (IF d \in Bots THEN guarded' ELSE permitted')
                                   /\ d \notin (IF d \in Bots THEN permitted' ELSE guarded')
          /\ step'[d] \notin {"idle", "first"} => d \in guarded' \cap permitted'
    BY <1>0 DEF SlotsInv, SlotsAreReturned
  <1> QED BY <1>1, <1>2, <1>3, <1>4, <1>5 DEF SlotsInv, SlotsAreReturned, At

LEMMA SlotsArrive ==
  ASSUME SlotsInv, NEW c \in Conns, Arrive(c) \/ Admitted(c)
  PROVE  SlotsInv'
  <1>0. c \notin (IF step[c] = "idle" \/ c \in Bots THEN permitted ELSE guarded)
    BY DEF Arrive, Admitted, SlotsInv, SlotsAreReturned
  <1>1. /\ count' \in [Addresses -> Nat] /\ Counted'
        /\ free' \in Nat /\ free' + Cardinality(permitted') = Permits
        /\ guarded' \subseteq Conns /\ permitted' \subseteq Conns
        /\ \/ TakeGuard(c) /\ c \notin guarded /\ guarded' = guarded \cup {c} /\ permitted' = permitted
           \/ TakePermit(c) /\ c \notin permitted /\ permitted' = permitted \cup {c} /\ guarded' = guarded
    <2>1. CASE TakeGuard(c) /\ c \notin guarded
      BY <2>1, GuardTaken DEF SlotsInv, SlotsAreReturned
    <2>2. CASE TakePermit(c) /\ c \notin permitted
      <3>1. Counted'
        BY <2>2, PermitTaken DEF SlotsInv, SlotsAreReturned, Counted, At
      <3> QED BY <2>2, <3>1, PermitTaken DEF SlotsInv
    <2> QED BY <2>1, <2>2 DEF Arrive, Admitted, SlotsInv, SlotsAreReturned
  <1>2. step' \in [Conns -> Steps]
    BY DEF Arrive, Admitted, SlotsInv, Steps
  <1>3. \A d \in Conns :
          /\ step'[d] = "idle" => d \notin guarded' \cup permitted'
          /\ step'[d] = "first" => /\ d \in (IF d \in Bots THEN guarded' ELSE permitted')
                                   /\ d \notin (IF d \in Bots THEN permitted' ELSE guarded')
          /\ step'[d] \notin {"idle", "first"} => d \in guarded' \cap permitted'
    <2>1. CASE Arrive(c)
      BY <2>1 DEF Arrive, TakeGuard, TakePermit, SlotsInv, SlotsAreReturned
    <2>2. CASE Admitted(c)
      BY <2>2 DEF Admitted, TakeGuard, TakePermit, SlotsInv, SlotsAreReturned
    <2> QED BY <2>1, <2>2
  <1> QED BY <1>1, <1>2, <1>3 DEF SlotsInv, SlotsAreReturned, Counted, At

LEMMA SlotsStart == Init => SlotsInv
  <1> SUFFICES ASSUME Init PROVE SlotsInv
    OBVIOUS
  <1>1. IsFiniteSet({}) /\ Cardinality({}) = 0
    BY FS_EmptySet
  <1>2. \A a \in Addresses : At(guarded, a) = {}
    BY DEF Init, At
  <1>3. free + Cardinality(permitted) = Permits /\ free \in Nat
    BY <1>1, GatewayAssumption DEF Init
  <1>4. \A a \in Addresses : count[a] = Cardinality(At(guarded, a)) /\ (PerIp > 0 => count[a] <= PerIp)
    <2>1. \A a \in Addresses : count[a] = 0
      BY DEF Init
    <2>2. PerIp \in Nat
      BY GatewayAssumption
    <2>3. \A a \in Addresses : Cardinality(At(guarded, a)) = 0
      BY <1>1, <1>2
    <2> QED BY <2>1, <2>2, <2>3
  <1>5. /\ step \in [Conns -> Steps] /\ count \in [Addresses -> Nat]
        /\ guarded = {} /\ permitted = {} /\ \A c \in Conns : step[c] = "idle"
    BY DEF Init, Steps
  <1> QED BY <1>3, <1>4, <1>5 DEF SlotsInv, SlotsAreReturned, At

\* Leaving a loop, and each branch of one, keeps the slots.
LEMMA OpenMoves ==
  ASSUME SlotsInv, UNCHANGED slots, NEW c \in Conns, step[c] \in Serving,
         UNCHANGED step \/ \E s \in Serving : step' = [step EXCEPT ![c] = s]
  PROVE  SlotsInv'
  <1>1. step' \in [Conns -> Steps] /\ \A d \in Conns : step'[d] # step[d] => d = c /\ step'[d] \in Serving
    BY DEF SlotsInv, Serving, Steps
  <1> QED BY <1>1, SlotsKept

LEMMA SlotsTask ==
  ASSUME SlotsInv, NEW c \in Conns, Task(c)
  PROVE  SlotsInv'
  <1> USE DEF Serving, Steps, Open, Left
  <1>1. CASE Admitted(c)
    BY <1>1, SlotsArrive
  <1>2. CASE Refused(c) \/ UpgradeFails(c) \/ HandshakeFails(c) \/ Leave(c)
    BY <1>2, SlotsEnd DEF Refused, UpgradeFails, HandshakeFails, Leave
  <1>3. CASE Upgraded(c)
    <2>1. step[c] = "upgrading" /\ UNCHANGED slots
          /\ \E s \in {"hello", "token"} : step' = [step EXCEPT ![c] = s]
      BY <1>3 DEF Upgraded
    <2> QED BY <2>1, OpenMoves
  <1>4. CASE Enlist(c) \/ Registered(c) \/ SendDisconnect(c)
    <2>1. /\ step[c] \in {"joining", "joined", "leaving"} /\ UNCHANGED slots
          /\ \E s \in {"joined", "live", "closing"} : step' = [step EXCEPT ![c] = s]
      BY <1>4 DEF Enlist, Registered, SendDisconnect, Opened
    <2> QED BY <2>1, OpenMoves
  <1>5. CASE HearShutdown(c) \/ Heartbeat(c) \/ WriteFrame(c) \/ Receive(c)
    <2>1. step[c] \in Open /\ UNCHANGED slots /\ MayLeave(c)
      BY <1>5 DEF HearShutdown, Heartbeat, WriteFrame, Receive, Turn, Breaks, GoesOn, MayLeave
    <2> QED BY <2>1, OpenMoves DEF MayLeave
  <1> QED BY <1>1, <1>2, <1>3, <1>4, <1>5 DEF Task

LEMMA SlotsClient ==
  ASSUME SlotsInv, NEW c \in Conns, Client(c)
  PROVE  SlotsInv'
  <1> USE DEF Serving, Steps, Open
  <1>1. CASE Arrive(c)
    BY <1>1, SlotsArrive
  <1>7. CASE CloseFlushed(c)
    BY <1>7, SlotsEnd DEF CloseFlushed
  <1>2. CASE Greeted(c) \/ Authenticated(c)
    <2>1. step[c] \in {"hello", "token"} /\ UNCHANGED slots
          /\ \E s \in {"joining", "watching"} : step' = [step EXCEPT ![c] = s]
      BY <1>2 DEF Greeted, Authenticated, Opened
    <2> QED BY <2>1, OpenMoves
  <1>3. CASE Closes(c) \/ Ignore(c)
    <2>1. step[c] \in Open /\ UNCHANGED slots
          /\ (UNCHANGED step \/ step' = [step EXCEPT ![c] = "leaving"])
      BY <1>3 DEF Closes, Ignore, Turn, Breaks, GoesOn
    <2> QED BY <2>1, OpenMoves
  <1>4. ASSUME NEW kind \in {"quiet", "bad"}, HelloWaits(c, kind)
        PROVE  SlotsInv'
    <2>1. CASE Ends(c)
      BY <2>1, SlotsEnd
    <2>2. CASE UNCHANGED <<step, slots>>
      BY <2>2, SlotsKept DEF SlotsInv
    <2> QED BY <1>4, <2>1, <2>2 DEF HelloWaits
  <1>5. ASSUME NEW isFree, NEW verdict, Read(c, isFree, verdict)
        PROVE  SlotsInv'
    <2>1. step[c] \in Open /\ UNCHANGED slots
          /\ (UNCHANGED step \/ step' = [step EXCEPT ![c] = "leaving"])
      BY <1>5 DEF Read, Turn, Breaks
    <2> QED BY <2>1, OpenMoves
  <1>6. CASE Request(c) \/ Quiet(c) \/ \E f \in Frames : Command(c, f)
    BY <1>5, <1>6 DEF Request, Quiet, Command
  <1> QED BY <1>1, <1>2, <1>3, <1>4, <1>6, <1>7 DEF Client

LEMMA SlotsStep == SlotsInv /\ [Next]_vars => SlotsInv'
  <1> SUFFICES ASSUME SlotsInv, [Next]_vars PROVE SlotsInv'
    OBVIOUS
  <1>1. ASSUME NEW c \in Conns, Task(c) PROVE SlotsInv'
    BY <1>1, SlotsTask
  <1>2. ASSUME NEW c \in Conns, Client(c) PROVE SlotsInv'
    BY <1>2, SlotsClient
  <1>3. CASE UNCHANGED <<step, slots>>
    BY <1>3, SlotsKept DEF SlotsInv
  <1>4. ASSUME NEW c \in Conns, Clocks(c) PROVE UNCHANGED <<step, slots>>
    BY <1>4 DEF Clocks, SecondPasses, Beat, Revoke, Stall
  <1>5. ASSUME RoomSteps PROVE UNCHANGED <<step, slots>>
    BY <1>5 DEF RoomSteps, StartMatch, TickBegins, MatchEnds, TickEnds, CutoffPasses, Disconnected, Kick, Publish, roomElse
  <1>6. ASSUME Shutdown PROVE UNCHANGED <<step, slots>>
    BY <1>6 DEF Shutdown
  <1>7. CASE UNCHANGED vars
    BY <1>3, <1>7 DEF vars
  <1> QED BY <1>1, <1>2, <1>3, <1>4, <1>5, <1>6, <1>7 DEF Next

\* However a connection is refused, fails, is closed or ends, its address is counted for
\* exactly the connections that hold a guard and the permits add up (IpConnGuard, bot_ws,
\* spectate_ws).
THEOREM SlotsReturned == Spec => []SlotsAreReturned
  <1>1. SlotsInv => SlotsAreReturned
    BY DEF SlotsInv
  <1> QED BY <1>1, SlotsStart, SlotsStep, PTL DEF Spec

-----------------------------------------------------------------------------
(* Types: the budgets and clocks, the windows, and the channels. *)

Waiting == {"idle", "first", "upgrading"}

\* A connection that has not said anything is charged nothing and blamed for nothing.
PaceInv ==
  /\ step \in [Conns -> Steps]
  /\ violations \in [Conns -> Nat] /\ spent \in [Conns -> Nat] /\ silent \in [Conns -> Nat]
  /\ \A c \in Conns : violations[c] < MaxViolations \/ step[c] \in Left
  /\ \A c \in Conns : silent[c] <= SilentBeats + 1
  /\ \A c \in Conns : step[c] \in Waiting => spent[c] = 0 /\ violations[c] = 0
  /\ \A b \in Bots :
       spent[b] <= (IF step[b] \in {"hello", "joining", "joined"} THEN HelloBudget ELSE Budget)

LEMMA Sizes ==
  /\ MaxViolations \in Nat \ {0} /\ HelloBudget \in Nat \ {0} /\ Budget \in Nat \ {0}
  /\ SpectatorBudget \in Nat \ {0} /\ SilentBeats \in Nat \ {0}
  /\ OutboundBuffer \in Nat \ {0} /\ SpectatorBuffer \in Nat \ {0}
  /\ Bots \subseteq Conns /\ MatchTicks \in Seq(Nat)
  BY GatewayAssumption

LEMMA PaceStart == Init => PaceInv
  BY Sizes DEF Init, PaceInv, Steps, Waiting

\* It is enough to look at the connection that moves.
LEMMA PaceAt ==
  ASSUME PaceInv, NEW c \in Conns, NEW s \in Steps, NEW v \in Nat, NEW p \in Nat, NEW q \in Nat,
         step' = [step EXCEPT ![c] = s], violations' = [violations EXCEPT ![c] = v],
         spent' = [spent EXCEPT ![c] = p], silent' = [silent EXCEPT ![c] = q],
         v < MaxViolations \/ s \in Left, q <= SilentBeats + 1,
         s \in Waiting => p = 0 /\ v = 0,
         c \in Bots => p <= (IF s \in {"hello", "joining", "joined"} THEN HelloBudget ELSE Budget)
  PROVE  PaceInv'
  <1>1. /\ step' \in [Conns -> Steps]
        /\ violations' \in [Conns -> Nat] /\ spent' \in [Conns -> Nat] /\ silent' \in [Conns -> Nat]
    BY DEF PaceInv
  <1>2. \A d \in Conns :
          /\ step'[d] = IF d = c THEN s ELSE step[d]
          /\ violations'[d] = IF d = c THEN v ELSE violations[d]
          /\ spent'[d] = IF d = c THEN p ELSE spent[d]
          /\ silent'[d] = IF d = c THEN q ELSE silent[d]
    BY DEF PaceInv
  <1>3. Bots \subseteq Conns
    BY Sizes
  <1> QED BY <1>1, <1>2, <1>3 DEF PaceInv

\* A loop that breaks or goes on, and what follows it.
LEMMA PaceBreaks ==
  ASSUME PaceInv, NEW c \in Conns, step[c] \notin Waiting \cup {"hello", "joining", "joined"},
         MayLeave(c),
         UNCHANGED <<violations, spent>>,
         UNCHANGED silent \/ silent' = [silent EXCEPT ![c] = 0]
  PROVE  PaceInv'
  <1>1. \E s \in Steps : step' = [step EXCEPT ![c] = s] /\ (s = step[c] \/ s \in Left)
    BY DEF PaceInv, Steps, MayLeave, Left
  <1>2. \E q \in Nat : silent' = [silent EXCEPT ![c] = q] /\ q <= SilentBeats + 1
    BY Sizes DEF PaceInv
  <1>3. /\ violations[c] \in Nat /\ spent[c] \in Nat
        /\ violations' = [violations EXCEPT ![c] = violations[c]]
        /\ spent' = [spent EXCEPT ![c] = spent[c]]
        /\ violations[c] < MaxViolations \/ step[c] \in Left
        /\ c \in Bots => spent[c] <= Budget
    BY DEF PaceInv
  <1>4. PICK s \in Steps : step' = [step EXCEPT ![c] = s] /\ (s = step[c] \/ s \in Left)
    BY <1>1
  <1>5. PICK q \in Nat : silent' = [silent EXCEPT ![c] = q] /\ q <= SilentBeats + 1
    BY <1>2
  <1>6. s \notin Waiting \cup {"hello", "joining", "joined"} /\ (violations[c] < MaxViolations \/ s \in Left)
    BY <1>3, <1>4 DEF Waiting, Left
  <1> QED BY <1>3, <1>4, <1>5, <1>6, PaceAt

LEMMA PaceTask ==
  ASSUME PaceInv, NEW c \in Conns, Task(c)
  PROVE  PaceInv'
  <1> USE Sizes
  <1>1. CASE Admitted(c)
    BY <1>1 DEF Admitted, PaceInv, pace, Steps, Waiting, Left
  <1>2. ASSUME Ends(c) PROVE PaceInv'
    BY <1>2 DEF Ends, PaceInv, Steps, Waiting, Left
  <1>3. CASE Upgraded(c)
    BY <1>3 DEF Upgraded, PaceInv, pace, Steps, Waiting, Left
  <1>4. CASE Registered(c)
    BY <1>4 DEF Registered, Opened, PaceInv, Steps, Waiting, Left
  <1>6. CASE Enlist(c)
    <2>1. /\ step[c] = "joining" /\ step' = [step EXCEPT ![c] = "joined"]
          /\ UNCHANGED <<violations, spent, silent>>
      BY <1>6 DEF Enlist, pace
    <2> QED BY <2>1 DEF PaceInv, Steps, Waiting, Left
  <1>5. CASE HearShutdown(c) \/ WriteFrame(c) \/ Receive(c) \/ Heartbeat(c) \/ SendDisconnect(c)
    <2>1. /\ step[c] \in Open \cup {"leaving"} /\ UNCHANGED <<violations, spent, silent>>
          /\ MayLeave(c)
      BY <1>5 DEF HearShutdown, WriteFrame, Receive, Heartbeat, SendDisconnect, Turn, Breaks,
                  GoesOn, pace, MayLeave, Left
    <2> QED BY <2>1, PaceBreaks DEF Open, Waiting
  <1> QED BY <1>1, <1>2, <1>3, <1>4, <1>5, <1>6
          DEF Task, Refused, UpgradeFails, HandshakeFails, Leave

\* What a message costs, and what it is counted for.
LEMMA PaceRead ==
  ASSUME PaceInv, NEW b \in Bots, NEW isFree, NEW verdict, Read(b, isFree, verdict)
  PROVE  PaceInv'
  <1> USE Sizes
  <1> DEFINE paid  == IF isFree THEN spent[b] ELSE spent[b] + 1
             bad   == IF verdict \in Tolerated THEN 0 ELSE 1
             wrong == violations[b] + bad >= MaxViolations /\ bad = 1
             to    == IF wrong THEN "leaving" ELSE step[b]
  <1>1. step[b] \in Open /\ b \in Conns
    BY DEF Read, Turn
  <1>2. CASE paid > Budget
    <2>1. MayLeave(b) /\ UNCHANGED <<violations, spent, silent>>
      BY <1>2 DEF Read, Breaks, MayLeave, Left
    <2> QED BY <1>1, <2>1, PaceBreaks DEF Open, Waiting
  <1>3. CASE ~(paid > Budget)
    <2>1. /\ spent' = [spent EXCEPT ![b] = paid] /\ silent' = [silent EXCEPT ![b] = 0]
          /\ violations' = [violations EXCEPT ![b] = @ + bad]
          /\ IF wrong THEN step' = [step EXCEPT ![b] = "leaving"] ELSE step' = step
      BY <1>3 DEF Read, Breaks
    <2>2. paid \in Nat /\ paid <= Budget /\ bad \in 0..1
      BY <1>1, <1>3 DEF PaceInv
    <2>3. violations[b] \in Nat /\ violations[b] + bad \in Nat
      BY <1>1, <2>2 DEF PaceInv
    <2>4. violations' = [violations EXCEPT ![b] = violations[b] + bad]
      BY <2>1
    <2>5. step[b] \in Steps /\ step' = [step EXCEPT ![b] = to]
      BY <1>1, <2>1 DEF PaceInv
    <2>6. violations[b] + bad < MaxViolations \/ to \in Left
      BY <1>1, <2>2, <2>3 DEF PaceInv, Left
    <2>7. to \in Steps \ (Waiting \cup {"hello", "joining", "joined"})
      BY <1>1, <2>5 DEF Open, Waiting, Steps
    <2>8. 0 \in Nat /\ 0 <= SilentBeats + 1
      OBVIOUS
    <2> HIDE DEF paid, bad, wrong, to
    <2> QED BY <2>8, <1>1, <2>1, <2>2, <2>3, <2>4, <2>5, <2>6, <2>7, PaceAt
  <1> QED BY <1>2, <1>3

LEMMA PaceClient ==
  ASSUME PaceInv, NEW c \in Conns, Client(c)
  PROVE  PaceInv'
  <1> USE Sizes
  <1>1. CASE Arrive(c)
    BY <1>1 DEF Arrive, PaceInv, pace, Steps, Waiting, Left
  <1>2. CASE Greeted(c)
    BY <1>2 DEF Greeted, PaceInv, pace, Steps, Waiting, Left
  <1>3. CASE Authenticated(c)
    BY <1>3 DEF Authenticated, Opened, PaceInv, Steps, Waiting, Left
  <1>4. CASE Closes(c)
    <2>1. step[c] \in Open /\ UNCHANGED <<violations, spent, silent>> /\ MayLeave(c)
      BY <1>4 DEF Closes, Turn, Breaks, pace, MayLeave, Left
    <2> QED BY <2>1, PaceBreaks DEF Open, Waiting
  <1>5. CASE Ignore(c)
    <2>1. /\ step[c] \in Open /\ c \notin Bots /\ UNCHANGED violations
          /\ spent' = [spent EXCEPT ![c] = @ + 1]
          /\ (UNCHANGED step \/ step' = [step EXCEPT ![c] = "leaving"])
          /\ (UNCHANGED silent \/ silent' = [silent EXCEPT ![c] = 0])
      BY <1>5 DEF Ignore, Turn, Breaks, GoesOn, Spectators
    <2>2. \E s \in Steps : step' = [step EXCEPT ![c] = s] /\ (s = step[c] \/ s = "leaving")
      BY <2>1 DEF PaceInv, Steps
    <2>3. PICK s \in Steps : step' = [step EXCEPT ![c] = s] /\ (s = step[c] \/ s = "leaving")
      BY <2>2
    <2>4. \E q \in Nat : silent' = [silent EXCEPT ![c] = q] /\ q <= SilentBeats + 1
      BY <2>1 DEF PaceInv
    <2>5. PICK q \in Nat : silent' = [silent EXCEPT ![c] = q] /\ q <= SilentBeats + 1
      BY <2>4
    <2>6. /\ violations[c] \in Nat /\ spent[c] + 1 \in Nat
          /\ violations' = [violations EXCEPT ![c] = violations[c]]
          /\ spent' = [spent EXCEPT ![c] = spent[c] + 1]
          /\ violations[c] < MaxViolations \/ s \in Left
          /\ s \notin Waiting
      BY <2>1, <2>3 DEF PaceInv, Open, Waiting, Left
    <2> QED BY <2>1, <2>3, <2>5, <2>6, PaceAt
  <1>6. ASSUME NEW kind \in {"quiet", "bad"}, HelloWaits(c, kind)
        PROVE  PaceInv'
    <2>1. CASE Ends(c)
      BY <2>1 DEF Ends, PaceInv, Steps, Waiting, Left
    <2>2. CASE ~Ends(c)
      <3>1. /\ step[c] = "hello" /\ spent[c] + 1 <= HelloBudget
            /\ kind = "bad" => violations[c] + 1 < MaxViolations
            /\ spent' = [spent EXCEPT ![c] = @ + 1]
            /\ violations' = [violations EXCEPT ![c] = IF kind = "bad" THEN @ + 1 ELSE @]
            /\ UNCHANGED <<step, silent>>
        BY <1>6, <2>2 DEF HelloWaits, PaceInv
      <3> QED BY <3>1 DEF PaceInv, Waiting, Steps
    <2> QED BY <2>1, <2>2
  <1>8. CASE CloseFlushed(c)
    BY <1>8 DEF CloseFlushed, Ends, PaceInv, Steps, Waiting, Left
  <1>7. CASE Request(c) \/ Quiet(c) \/ \E f \in Frames : Command(c, f)
    BY <1>7, PaceRead DEF Request, Quiet, Command
  <1> QED BY <1>1, <1>2, <1>3, <1>4, <1>5, <1>6, <1>7, <1>8 DEF Client

LEMMA PaceStep == PaceInv /\ [Next]_vars => PaceInv'
  <1> SUFFICES ASSUME PaceInv, [Next]_vars PROVE PaceInv'
    OBVIOUS
  <1>1. ASSUME NEW c \in Conns, Task(c) PROVE PaceInv'
    BY <1>1, PaceTask
  <1>2. ASSUME NEW c \in Conns, Client(c) PROVE PaceInv'
    BY <1>2, PaceClient
  <1>3. ASSUME UNCHANGED <<step, pace>> PROVE PaceInv'
    BY <1>3 DEF PaceInv, pace
  <1>4. ASSUME NEW c \in Conns, Clocks(c) PROVE PaceInv'
    <2>1. CASE SecondPasses(c)
      BY <2>1, Sizes DEF SecondPasses, PaceInv, Steps, Waiting, Left
    <2>2. CASE Beat(c)
      BY <2>2, Sizes DEF Beat, PaceInv, Steps, Waiting, Left
    <2> QED BY <1>3, <1>4, <2>1, <2>2 DEF Clocks, Revoke, Stall
  <1>5. ASSUME RoomSteps PROVE UNCHANGED <<step, pace>>
    BY <1>5 DEF RoomSteps, StartMatch, TickBegins, MatchEnds, TickEnds, CutoffPasses, Disconnected, Kick, Publish, roomElse
  <1>6. ASSUME Shutdown PROVE UNCHANGED <<step, pace>>
    BY <1>6 DEF Shutdown
  <1>7. CASE UNCHANGED vars
    BY <1>3, <1>7 DEF vars
  <1> QED BY <1>1, <1>2, <1>3, <1>4, <1>5, <1>6, <1>7 DEF Next

\* The frame of the room's tick; a window is open for no other, and only between two ticks.
Now == <<room.match, room.tick>>

WindowInv ==
  /\ room \in [phase : {"lobby", "waiting", "busy"}, match : Nat, tick : Nat]
  /\ room.match <= Len(MatchTicks)
  /\ room.phase # "lobby" => room.match > 0
  /\ window \in [Bots -> SUBSET Frames]
  /\ \A b \in Bots :
       /\ window[b] \subseteq {Now}
       /\ b \notin listed \/ room.phase # "waiting" => window[b] = {}
  /\ late \cup answered \subseteq {b \in Bots : window[b] # {}}

LEMMA WindowStart == Init => WindowInv
  <1>1. 0 <= Len(MatchTicks)
    BY Sizes
  <1> QED BY <1>1 DEF Init, WindowInv

LEMMA WindowKept ==
  ASSUME WindowInv, UNCHANGED roomVars, listed \subseteq listed'
  PROVE  WindowInv'
  BY DEF WindowInv, roomVars, Now

\* What leaving a loop does to the windows, whatever the reason.
BrokeOff(c) ==
  /\ window' = [b \in Bots |-> IF b = c THEN {} ELSE window[b]]
  /\ late' = late \ {c} /\ answered' = answered \ {c}
  /\ UNCHANGED <<room, sunk>>

LEMMA WindowLoops ==
  ASSUME WindowInv, NEW c, UNCHANGED roomVars \/ BrokeOff(c), listed \subseteq listed'
  PROVE  WindowInv'
  <1>1. CASE UNCHANGED roomVars
    BY <1>1, WindowKept
  <1>2. CASE BrokeOff(c)
    BY <1>2 DEF WindowInv, Now, BrokeOff
  <1> QED BY <1>1, <1>2

LEMMA WindowTask ==
  ASSUME WindowInv, NEW c \in Conns, Task(c)
  PROVE  WindowInv'
  <1>1. CASE Admitted(c) \/ Upgraded(c) \/ Enlist(c) \/ Registered(c) \/ SendDisconnect(c)
    <2>1. UNCHANGED roomVars /\ listed \subseteq listed'
      BY <1>1 DEF Admitted, Upgraded, Enlist, Registered, Opened, SendDisconnect, entries
    <2> QED BY <2>1, WindowKept
  <1>2. CASE Refused(c) \/ UpgradeFails(c) \/ HandshakeFails(c) \/ Leave(c)
    <2>1. UNCHANGED roomVars /\ listed \subseteq listed'
      BY <1>2 DEF Refused, UpgradeFails, HandshakeFails, Leave, Ends, entries
    <2> QED BY <2>1, WindowKept
  <1>3. CASE HearShutdown(c) \/ WriteFrame(c) \/ Receive(c) \/ Heartbeat(c)
    <2>1. (UNCHANGED roomVars \/ BrokeOff(c)) /\ listed \subseteq listed'
      BY <1>3 DEF HearShutdown, WriteFrame, Receive, Heartbeat, Breaks, BrokeOff, GoesOn, entries,
                  roomVars
    <2> QED BY <2>1, WindowLoops
  <1> QED BY <1>1, <1>2, <1>3 DEF Task

LEMMA WindowRead ==
  ASSUME WindowInv, NEW b \in Bots, NEW isFree, NEW verdict, Read(b, isFree, verdict),
         verdict = "accepted" => window[b] # {}
  PROVE  WindowInv'
  <1>1. /\ UNCHANGED entries
        /\ BrokeOff(b) \/ /\ UNCHANGED <<window, late, room, sunk>>
                          /\ answered' = IF verdict = "accepted" THEN answered \cup {b} ELSE answered
    BY DEF Read, Breaks, BrokeOff
  <1>2. CASE BrokeOff(b)
    BY <1>1, <1>2, WindowLoops DEF entries
  <1>3. CASE /\ UNCHANGED <<window, late, room, sunk>>
             /\ answered' = IF verdict = "accepted" THEN answered \cup {b} ELSE answered
    BY <1>1, <1>3 DEF WindowInv, Now, entries
  <1> QED BY <1>1, <1>2, <1>3

LEMMA WindowClient ==
  ASSUME WindowInv, NEW c \in Conns, Client(c)
  PROVE  WindowInv'
  <1>1. CASE Arrive(c) \/ Greeted(c) \/ Authenticated(c) \/ CloseFlushed(c)
    <2>1. UNCHANGED roomVars /\ listed \subseteq listed'
      BY <1>1 DEF Arrive, Greeted, Authenticated, Opened, CloseFlushed, Ends, entries
    <2> QED BY <2>1, WindowKept
  <1>2. CASE Closes(c) \/ Ignore(c)
    <2>1. (UNCHANGED roomVars \/ BrokeOff(c)) /\ listed \subseteq listed'
      BY <1>2 DEF Closes, Ignore, Breaks, BrokeOff, GoesOn, entries, roomVars
    <2> QED BY <2>1, WindowLoops
  <1>3. ASSUME NEW kind \in {"quiet", "bad"}, HelloWaits(c, kind)
        PROVE  WindowInv'
    <2>1. UNCHANGED roomVars /\ listed \subseteq listed'
      BY <1>3 DEF HelloWaits, Ends, entries
    <2> QED BY <2>1, WindowKept
  <1>4. ASSUME NEW f \in Frames, Command(c, f)
        PROVE  WindowInv'
    <2>1. Verdict(c, f) = "accepted" => window[c] # {}
      BY DEF Verdict
    <2> QED BY <1>4, <2>1, WindowRead DEF Command
  <1>5. CASE Request(c) \/ Quiet(c)
    <2>1. c \in Bots /\ \E isFree \in {FALSE}, verdict \in {"none", "server_busy", "invalid_message"} :
                          Read(c, isFree, verdict)
      BY <1>5 DEF Request, Quiet
    <2> QED BY <2>1, WindowRead
  <1> QED BY <1>1, <1>2, <1>3, <1>4, <1>5 DEF Client

\* The frame of the tick that ends.
LEMMA TickFrame ==
  ASSUME WindowInv, NEW lost, TickEnds(lost)
  PROVE  LET f == <<room.match, room.tick + 1>>
         IN /\ f \in Frames /\ f = Now' /\ room.match \in Nat /\ room.tick \in Nat
            /\ room'.match = room.match /\ room'.tick = room.tick + 1
  <1> USE Sizes
  <1> DEFINE f == <<room.match, room.tick + 1>>
  <1>1. /\ room.phase = "busy" /\ room.tick < MatchTicks[room.match]
        /\ room' = [room EXCEPT !.phase = "waiting", !.tick = @ + 1]
    BY DEF TickEnds
  <1>2. room.match \in DOMAIN MatchTicks /\ room.match \in Nat /\ room.tick \in Nat
    BY <1>1 DEF WindowInv
  <1>3. MatchTicks[room.match] \in Nat
    BY <1>2
  <1>4. room.tick + 1 \in 1..MatchTicks[room.match]
    BY <1>1, <1>2, <1>3
  <1>5. f \in {room.match} \X (1..MatchTicks[room.match])
    BY <1>4
  <1>6. f = Now' /\ room'.match = room.match /\ room'.tick = room.tick + 1
    BY <1>1 DEF Now, WindowInv
  <1> QED BY <1>2, <1>5, <1>6 DEF Frames

LEMMA WindowRoom ==
  ASSUME WindowInv, RoomSteps
  PROVE  WindowInv'
  <1> USE Sizes
  <1>1. ASSUME Closed, room' \in [phase : {"lobby", "waiting", "busy"}, match : Nat, tick : Nat],
               room'.match <= Len(MatchTicks), room'.phase # "lobby" => room'.match > 0
        PROVE  WindowInv'
    <2>1. window' \in [Bots -> SUBSET Frames]
      BY <1>1 DEF Closed
    <2>2. \A b \in Bots : window'[b] = {}
      BY <1>1 DEF Closed
    <2>3. late' \cup answered' = {}
      BY <1>1 DEF Closed
    <2> QED BY <1>1, <2>1, <2>2, <2>3 DEF WindowInv
  <1>2. ASSUME NEW from \in {"lobby", "busy"}, StartMatch(from)
        PROVE  WindowInv'
    <2>1. /\ Closed /\ room' = [phase |-> "waiting", match |-> room.match + 1, tick |-> 0]
          /\ room.match < Len(MatchTicks) /\ room.match \in Nat
      BY <1>2 DEF StartMatch, WindowInv
    <2>2. Len(MatchTicks) \in Nat
      OBVIOUS
    <2> QED BY <1>1, <2>1, <2>2
  <1>3. CASE TickBegins \/ MatchEnds
    BY <1>1, <1>3 DEF TickBegins, MatchEnds, WindowInv
  <1>4. ASSUME NEW lost \in SUBSET Bots, TickEnds(lost)
        PROVE  WindowInv'
    <2> DEFINE f  == <<room.match, room.tick + 1>>
               to == listed \ (sunk \cup lost)
    <2>1. /\ room.phase = "busy" /\ room.tick < MatchTicks[room.match]
          /\ room' = [room EXCEPT !.phase = "waiting", !.tick = @ + 1]
          /\ window' = [b \in Bots |-> IF b \in to THEN {f} ELSE window[b]]
          /\ late' = late \ to /\ answered' = answered \ to
      BY <1>4 DEF TickEnds
    <2>3. f \in Frames /\ f = Now'
      BY <1>4, TickFrame
    <2>4. \A b \in Bots : window[b] = {} /\ b \notin late \cup answered
      BY <2>1 DEF WindowInv
    <2>5. to \subseteq listed /\ UNCHANGED entries
      BY <1>4 DEF TickEnds
    <2>6. room' \in [phase : {"lobby", "waiting", "busy"}, match : Nat, tick : Nat]
          /\ room'.match = room.match /\ room'.phase = "waiting" /\ room.match > 0
      <3>1. room \in [phase : {"lobby", "waiting", "busy"}, match : Nat, tick : Nat]
            /\ room.match > 0
        BY <2>1 DEF WindowInv
      <3>2. room.tick + 1 \in Nat
        BY <3>1
      <3> QED BY <2>1, <3>1, <3>2
    <2> HIDE DEF f, to
    <2> QED BY <2>1, <2>3, <2>4, <2>5, <2>6 DEF WindowInv, entries
  <1>5. ASSUME NEW b \in Bots, CutoffPasses(b) \/ Disconnected(b) \/ Kick(b)
        PROVE  WindowInv'
    BY <1>5 DEF CutoffPasses, Disconnected, Kick, Unlisted, WindowInv, Now, entries
  <1>6. CASE Publish
    BY <1>6, WindowKept DEF Publish, entries
  <1> QED BY <1>2, <1>3, <1>4, <1>5, <1>6 DEF RoomSteps

LEMMA WindowStep == WindowInv /\ [Next]_vars => WindowInv'
  <1> SUFFICES ASSUME WindowInv, [Next]_vars PROVE WindowInv'
    OBVIOUS
  <1>1. ASSUME NEW c \in Conns, Clocks(c) PROVE UNCHANGED <<entries, roomVars>>
    BY <1>1 DEF Clocks, SecondPasses, Beat, Revoke, Stall
  <1>2. ASSUME Shutdown \/ UNCHANGED vars PROVE UNCHANGED <<entries, roomVars>>
    BY <1>2 DEF Shutdown, vars
  <1>3. ASSUME UNCHANGED <<entries, roomVars>> PROVE WindowInv'
    BY <1>3, WindowKept DEF entries
  <1> QED BY <1>1, <1>2, <1>3, WindowTask, WindowClient, WindowRoom DEF Next

\* A bot's channel is within its bound, and holds frames only while its task has it.
ChannelInv ==
  /\ outbox \in [Bots -> Seq(Frames)] /\ allowance \in [Bots -> SUBSET Frames]
  /\ \A b \in Bots :
       /\ Len(outbox[b]) <= OutboundBuffer
       /\ allowance[b] = {} \/ \E f \in Frames : allowance[b] = {f}
       /\ step[b] \notin Receiving => outbox[b] = <<>> /\ allowance[b] = {}
  /\ lag \in [Spectators -> 0..(SpectatorBuffer + 1)]

LEMMA ChannelStart == Init => ChannelInv
  <1> SUFFICES ASSUME Init PROVE ChannelInv
    OBVIOUS
  <1>1. outbox \in [Bots -> Seq(Frames)] /\ \A b \in Bots : Len(outbox[b]) = 0
    BY DEF Init
  <1> QED BY <1>1, Sizes DEF Init, ChannelInv

\* A task that has its channel keeps it.
LEMMA ChannelKept ==
  ASSUME ChannelInv, UNCHANGED <<outbox, allowance, lag>>,
         \A b \in Bots : step[b] \in Receiving => step'[b] \in Receiving
  PROVE  ChannelInv'
  BY DEF ChannelInv

LEMMA ChannelEnds ==
  ASSUME PaceInv, ChannelInv, NEW c \in Conns, Ends(c)
  PROVE  ChannelInv'
  <1> USE Sizes
  <1>1. /\ outbox' = [b \in Bots |-> IF b = c THEN <<>> ELSE outbox[b]]
        /\ allowance' = [b \in Bots |-> IF b = c THEN {} ELSE allowance[b]]
        /\ lag' = [x \in Spectators |-> IF x = c THEN 0 ELSE lag[x]]
        /\ step' = [step EXCEPT ![c] = "idle"]
    BY DEF Ends
  <1>2. outbox' \in [Bots -> Seq(Frames)] /\ allowance' \in [Bots -> SUBSET Frames]
    BY <1>1 DEF ChannelInv
  <1>3. lag' \in [Spectators -> 0..(SpectatorBuffer + 1)]
    BY <1>1 DEF ChannelInv
  <1>4. \A b \in Bots : b # c => /\ outbox'[b] = outbox[b] /\ allowance'[b] = allowance[b]
                                 /\ step'[b] = step[b]
    BY <1>1 DEF PaceInv
  <1>5. c \in Bots => outbox'[c] = <<>> /\ allowance'[c] = {} /\ Len(<<>>) = 0
    BY <1>1
  <1>6. ASSUME NEW b \in Bots
        PROVE  /\ Len(outbox'[b]) <= OutboundBuffer
               /\ allowance'[b] = {} \/ \E f \in Frames : allowance'[b] = {f}
               /\ step'[b] \notin Receiving => outbox'[b] = <<>> /\ allowance'[b] = {}
    <2>1. CASE b = c
      BY <1>5, <2>1
    <2>2. CASE b # c
      BY <1>4, <2>2 DEF ChannelInv
    <2> QED BY <2>1, <2>2
  <1> QED BY <1>2, <1>3, <1>6 DEF ChannelInv

\* What a loop does next.
LEMMA LoopStep ==
  ASSUME PaceInv, NEW c \in Conns,
         \/ HearShutdown(c) \/ Heartbeat(c) \/ WriteFrame(c) \/ Receive(c) \/ Closes(c) \/ Ignore(c)
         \/ Request(c) \/ Quiet(c) \/ \E f \in Frames : Command(c, f)
  PROVE  step[c] \in Open /\ MayLeave(c)
  BY DEF HearShutdown, Heartbeat, WriteFrame, Receive, Closes, Ignore, Request, Quiet, Command,
         Read, Turn, Breaks, GoesOn, MayLeave, Left

\* A bot whose loop goes on or is left still has its channel.
LEMMA LoopReceives ==
  ASSUME PaceInv, NEW c \in Conns, MayLeave(c)
  PROVE  \A b \in Bots : /\ step[b] \in Receiving => step'[b] \in Receiving
                         /\ b # c => step'[b] = step[b]
  BY Sizes DEF PaceInv, MayLeave, Left, Receiving

LEMMA ChannelWrite ==
  ASSUME PaceInv, ChannelInv, NEW b \in Bots, WriteFrame(b)
  PROVE  ChannelInv'
  <1> USE Sizes
  <1>1. step[b] \in Open /\ MayLeave(b)
    BY LoopStep
  <1>2. CASE outbox[b] = <<>>
    <2>1. UNCHANGED <<outbox, allowance, lag>>
      BY <1>2 DEF WriteFrame
    <2> QED BY <1>1, <2>1, LoopReceives, ChannelKept
  <1>3. CASE outbox[b] # <<>>
    <2>1. /\ outbox' = [outbox EXCEPT ![b] = Tail(@)]
          /\ allowance' = [allowance EXCEPT ![b] = {Head(outbox[b])}]
          /\ UNCHANGED lag
      BY <1>3 DEF WriteFrame, Allowed
    <2>2. outbox[b] \in Seq(Frames) /\ Head(outbox[b]) \in Frames /\ Tail(outbox[b]) \in Seq(Frames)
          /\ Len(Tail(outbox[b])) = Len(outbox[b]) - 1 /\ Len(outbox[b]) \in Nat
      BY <1>3 DEF ChannelInv
    <2>3. outbox' \in [Bots -> Seq(Frames)] /\ allowance' \in [Bots -> SUBSET Frames]
      BY <2>1, <2>2 DEF ChannelInv
    <2>4. \A d \in Bots : d # b => outbox'[d] = outbox[d] /\ allowance'[d] = allowance[d]
                                   /\ step'[d] = step[d]
      BY <1>1, <2>1, LoopReceives DEF ChannelInv
    <2>5. Len(outbox'[b]) <= OutboundBuffer /\ \E f \in Frames : allowance'[b] = {f}
      <3>1. outbox'[b] = Tail(outbox[b]) /\ allowance'[b] = {Head(outbox[b])}
        BY <2>1 DEF ChannelInv
      <3>2. Len(outbox[b]) <= OutboundBuffer
        BY DEF ChannelInv
      <3> QED BY <2>2, <3>1, <3>2
    <2>6. step[b] \in Receiving /\ step'[b] \in Receiving
      BY <1>1, <1>3, LoopReceives DEF ChannelInv
    <2> QED BY <2>1, <2>3, <2>4, <2>5, <2>6 DEF ChannelInv
  <1> QED BY <1>2, <1>3

LEMMA ChannelRoom ==
  ASSUME PaceInv, WindowInv, ChannelInv, RoomSteps
  PROVE  ChannelInv'
  <1> USE Sizes
  <1>0. UNCHANGED <<step, allowance>>
    BY DEF RoomSteps, StartMatch, TickBegins, MatchEnds, TickEnds, CutoffPasses, Disconnected, Kick, Publish, roomElse
  <1>1. ASSUME UNCHANGED <<outbox, lag>> PROVE ChannelInv'
    BY <1>0, <1>1, ChannelKept
  <1>2. CASE Publish
    <2>1. lag' \in [Spectators -> 0..(SpectatorBuffer + 1)] /\ UNCHANGED outbox
      BY <1>2 DEF Publish, ChannelInv
    <2> QED BY <1>0, <2>1 DEF ChannelInv
  <1>3. ASSUME NEW lost \in SUBSET Bots, TickEnds(lost)
        PROVE  ChannelInv'
    <2> DEFINE f == <<room.match, room.tick + 1>>
    <2>1. PICK to \in SUBSET listed :
            outbox' = [b \in Bots |-> IF b \in to /\ step[b] \in Receiving
                                         /\ Len(outbox[b]) < OutboundBuffer
                                      THEN Append(outbox[b], f) ELSE outbox[b]]
      BY <1>3 DEF TickEnds
    <2>2. f \in Frames /\ UNCHANGED lag
      BY <1>3, TickFrame DEF TickEnds, roomElse
    <2>4. \A b \in Bots : outbox[b] \in Seq(Frames) /\ Len(outbox[b]) <= OutboundBuffer
                        /\ Len(outbox[b]) \in Nat
      BY DEF ChannelInv
    <2> HIDE DEF f
    <2>5. \A b \in Bots : Append(outbox[b], f) \in Seq(Frames)
                        /\ Len(Append(outbox[b], f)) = Len(outbox[b]) + 1
      BY <2>2, <2>4
    <2>6. outbox' \in [Bots -> Seq(Frames)]
          /\ \A b \in Bots : /\ Len(outbox'[b]) <= OutboundBuffer
                             /\ step[b] \notin Receiving => outbox'[b] = outbox[b]
      BY <2>1, <2>4, <2>5
    <2> QED BY <1>0, <2>2, <2>6 DEF ChannelInv
  <1> QED BY <1>0, <1>1, <1>2, <1>3 DEF RoomSteps, StartMatch, TickBegins, MatchEnds, CutoffPasses, Disconnected, Kick, roomElse

LEMMA ChannelStep == PaceInv /\ WindowInv /\ ChannelInv /\ [Next]_vars => ChannelInv'
  <1> SUFFICES ASSUME PaceInv, WindowInv, ChannelInv, [Next]_vars PROVE ChannelInv'
    OBVIOUS
  <1> USE Sizes
  <1>1. ASSUME NEW c \in Conns, step[c] \notin {"live", "leaving", "closing"},
               UNCHANGED <<outbox, allowance, lag>>,
               \E s \in Steps : /\ step' = [step EXCEPT ![c] = s]
                                /\ step[c] = "joined" => s \in Receiving
        PROVE  ChannelInv'
    <2>1. PICK s \in Steps : /\ step' = [step EXCEPT ![c] = s]
                             /\ step[c] = "joined" => s \in Receiving
      BY <1>1
    <2>2. \A b \in Bots : step'[b] = IF b = c THEN s ELSE step[b]
      BY <2>1 DEF PaceInv
    <2>3. step[c] \in Receiving => s \in Receiving
      BY <1>1, <2>1 DEF Receiving
    <2>4. \A b \in Bots : step[b] \in Receiving => step'[b] \in Receiving
      BY <2>2, <2>3
    <2> QED BY <1>1, <2>4, ChannelKept
  <1>2. ASSUME NEW c \in Conns, Admitted(c) \/ Upgraded(c) \/ Enlist(c) \/ Registered(c)
        PROVE  ChannelInv'
    BY <1>1, <1>2 DEF Admitted, Upgraded, Enlist, Registered, Opened, Steps, Receiving
  <1>3. ASSUME NEW c \in Conns, Arrive(c) \/ Greeted(c) \/ Authenticated(c)
        PROVE  ChannelInv'
    BY <1>1, <1>3 DEF Arrive, Greeted, Authenticated, Opened, Steps
  <1>4. ASSUME NEW c \in Conns, NEW kind \in {"quiet", "bad"}, HelloWaits(c, kind)
        PROVE  ChannelInv'
    <2>1. Ends(c) \/ UNCHANGED <<step, outbox, allowance, lag>>
      BY <1>4 DEF HelloWaits
    <2> QED BY <2>1, ChannelEnds, ChannelKept
  <1>5. ASSUME NEW c \in Conns, HearShutdown(c) \/ Heartbeat(c) \/ Closes(c) \/ Ignore(c)
                                \/ Request(c) \/ Quiet(c)
        PROVE  ChannelInv'
    <2>1. UNCHANGED <<outbox, allowance, lag>>
      BY <1>5 DEF HearShutdown, Heartbeat, Closes, Ignore, Request, Quiet, Read
    <2>2. MayLeave(c)
      BY <1>5, LoopStep
    <2> QED BY <2>1, <2>2, LoopReceives, ChannelKept
  <1>12. ASSUME NEW c \in Conns, SendDisconnect(c)
         PROVE  ChannelInv'
    <2>1. UNCHANGED <<outbox, allowance, lag>> /\ MayLeave(c)
      BY <1>12 DEF SendDisconnect, MayLeave, Left
    <2> QED BY <2>1, LoopReceives, ChannelKept
  <1>6. ASSUME NEW c \in Conns, Receive(c)
        PROVE  ChannelInv'
    <2>1. UNCHANGED <<outbox, allowance>> /\ MayLeave(c)
      BY <1>6, LoopStep DEF Receive
    <2>2. lag[c] > 0 /\ c \in Spectators
      BY <1>6 DEF Receive, Turn, Ready
    <2>3. SpectatorBuffer \in 0..(SpectatorBuffer + 1) /\ lag[c] - 1 \in 0..(SpectatorBuffer + 1)
      BY <2>2 DEF ChannelInv
    <2>4. \E n \in 0..(SpectatorBuffer + 1) : lag' = [lag EXCEPT ![c] = n]
      BY <1>6, <2>3 DEF Receive
    <2>5. lag' \in [Spectators -> 0..(SpectatorBuffer + 1)]
      BY <2>4 DEF ChannelInv
    <2> QED BY <2>1, <2>5, LoopReceives DEF ChannelInv
  <1>7. ASSUME NEW c \in Conns, NEW f \in Frames, Command(c, f)
        PROVE  ChannelInv'
    <2>1. /\ allowance' = [allowance EXCEPT ![c] = @ \ {f}] /\ UNCHANGED <<outbox, lag>>
          /\ c \in Bots
      BY <1>7 DEF Command, Read
    <2>2. MayLeave(c)
      BY <1>7, LoopStep
    <2>3. \A b \in Bots : step[b] \in Receiving => step'[b] \in Receiving
      BY <2>2, LoopReceives
    <2>4. /\ allowance' \in [Bots -> SUBSET Frames]
          /\ \A b \in Bots : allowance'[b] = {} \/ allowance'[b] = allowance[b]
      BY <2>1 DEF ChannelInv
    <2> QED BY <2>1, <2>3, <2>4 DEF ChannelInv
  <1>8. ASSUME NEW c \in Conns, Task(c) \/ Client(c) PROVE ChannelInv'
    BY <1>2, <1>3, <1>4, <1>5, <1>6, <1>7, <1>8, <1>12, ChannelEnds, ChannelWrite
       DEF Task, Client, Refused, UpgradeFails, HandshakeFails, Leave, CloseFlushed, WriteFrame
  <1>9. ASSUME UNCHANGED <<step, outbox, allowance, lag>> PROVE ChannelInv'
    BY <1>9, ChannelKept
  <1>10. ASSUME NEW c \in Conns, Clocks(c) \/ Shutdown \/ UNCHANGED vars
         PROVE  UNCHANGED <<step, outbox, allowance, lag>>
    BY <1>10 DEF Clocks, SecondPasses, Beat, Revoke, Stall, Shutdown, vars
  <1>11. ASSUME Shutdown \/ UNCHANGED vars PROVE UNCHANGED <<step, outbox, allowance, lag>>
    BY <1>11 DEF Shutdown, vars
  <1> QED BY <1>8, <1>9, <1>10, <1>11, ChannelRoom DEF Next

\* Budgets, windows and channels keep their bounds (the buffers and counters of net.rs).
THEOREM TypeCorrect == Spec => []TypeOK
  <1>1. Init => SlotsInv /\ PaceInv /\ WindowInv /\ ChannelInv
    BY SlotsStart, PaceStart, WindowStart, ChannelStart
  <1>2. SlotsInv /\ PaceInv /\ WindowInv /\ ChannelInv /\ [Next]_vars
          => SlotsInv' /\ PaceInv' /\ WindowInv' /\ ChannelInv'
    BY SlotsStep, PaceStep, WindowStep, ChannelStep
  <1>3. SlotsInv /\ PaceInv /\ WindowInv /\ ChannelInv => TypeOK
    <2> SUFFICES ASSUME SlotsInv, PaceInv, WindowInv, ChannelInv PROVE TypeOK
      OBVIOUS
    <2>1. step \in [Conns -> Steps] /\ free \in 0..Permits /\ \A a \in Addresses : count[a] \in Nat
      <3>1. Cardinality(permitted) \in Nat /\ free + Cardinality(permitted) = Permits /\ free \in Nat
        BY PermitsFinite DEF SlotsInv, SlotsAreReturned
      <3> QED BY <3>1, GatewayAssumption DEF SlotsInv
    <2>2. \A b \in Bots : Cardinality(allowance[b]) <= 1 /\ Cardinality(window[b]) <= 1
      <3>1. \A x : Cardinality({x}) = 1
        BY FS_Singleton
      <3>2. Cardinality({}) = 0
        BY FS_EmptySet
      <3>3. \A b \in Bots : (allowance[b] = {} \/ \E f \in Frames : allowance[b] = {f})
                          /\ (window[b] = {} \/ window[b] = {Now})
        <4>1. \A b \in Bots : window[b] \subseteq {Now}
          BY DEF WindowInv
        <4>2. \A b \in Bots : allowance[b] = {} \/ \E f \in Frames : allowance[b] = {f}
          BY DEF ChannelInv
        <4> QED BY <4>1, <4>2
      <3>4. 0 <= 1 /\ 1 <= 1
        OBVIOUS
      <3> TAKE b \in Bots
      <3>5. Cardinality(allowance[b]) <= 1
        BY <3>1, <3>2, <3>3, <3>4, Zenon
      <3>6. Cardinality(window[b]) <= 1
        BY <3>1, <3>2, <3>3, <3>4, Zenon
      <3> QED BY <3>5, <3>6
    <2> QED BY <2>1, <2>2 DEF TypeOK, PaceInv, WindowInv, ChannelInv
  <1> QED BY <1>1, <1>2, <1>3, PTL DEF Spec

-----------------------------------------------------------------------------
(* A connection whose token went bad. *)

\* Its heartbeat stays due until the loop takes it, which ends it.
CutInv ==
  /\ due \subseteq Conns /\ overdue \subseteq Conns
  /\ \A c \in overdue : /\ c \notin valid /\ step[c] \in Open \cup Left
                        /\ step[c] \in Open => c \in due

\* The heartbeat goes before frames and messages.
LEMMA HeartbeatFirst ==
  ASSUME NEW c \in Conns, c \in due,
         NEW branch \in {"outbound", "broadcast", "message"}, Turn(c, branch)
  PROVE  FALSE
  <1>1. PICK j \in 1..4 : /\ Order(c)[j] = branch
                          /\ \A i \in 1..(j - 1) : ~Ready(c, Order(c)[i])
    BY DEF Turn
  <1>2. Ready(c, "heartbeat")
    BY DEF Ready
  <1>3. CASE c \in Bots
    <2>1. /\ Order(c)[1] = "shutdown" /\ Order(c)[2] = "heartbeat"
          /\ Order(c)[3] = "outbound" /\ Order(c)[4] = "message"
      BY <1>3 DEF Order
    <2>2. j \in {3, 4} /\ 2 \in 1..(j - 1)
      BY <1>1, <2>1
    <2> QED BY <1>1, <1>2, <2>1, <2>2
  <1>4. CASE c \notin Bots
    <2>1. /\ Order(c)[1] = "heartbeat" /\ Order(c)[2] = "shutdown"
          /\ Order(c)[3] = "broadcast" /\ Order(c)[4] = "message"
      BY <1>4 DEF Order
    <2>2. j \in {3, 4} /\ 1 \in 1..(j - 1)
      BY <1>1, <2>1
    <2> QED BY <1>1, <1>2, <2>1, <2>2
  <1> QED BY <1>3, <1>4

LEMMA CutKept ==
  ASSUME CutInv, due \subseteq due', due' \subseteq Conns, UNCHANGED overdue, valid' \subseteq valid,
         \A c \in overdue : step'[c] = step[c] \/ step'[c] \in Left
  PROVE  CutInv'
  BY DEF CutInv, Open, Left

LEMMA CutTask ==
  ASSUME PaceInv, CutInv, NEW c \in Conns, Task(c) \/ Client(c)
  PROVE  CutInv'
  <1> USE Sizes
  <1>1. ASSUME Ends(c) PROVE CutInv'
    BY <1>1 DEF Ends, CutInv, PaceInv
  <1>2. ASSUME step[c] \notin Open \cup Left, UNCHANGED <<due, overdue, valid>>,
               UNCHANGED step \/ \E s \in Steps : step' = [step EXCEPT ![c] = s]
        PROVE  CutInv'
    <2>1. c \notin overdue
      BY <1>2 DEF CutInv
    <2> QED BY <1>2, <2>1, CutKept DEF CutInv, PaceInv
  <1>3. CASE Admitted(c) \/ Upgraded(c) \/ Arrive(c) \/ Greeted(c) \/ Enlist(c)
    BY <1>2, <1>3 DEF Admitted, Upgraded, Arrive, Greeted, Enlist, Steps, Open, Left, pace, peers
  <1>4. ASSUME NEW kind \in {"quiet", "bad"}, HelloWaits(c, kind) PROVE CutInv'
    BY <1>1, <1>2, <1>4 DEF HelloWaits, Open, Left
  <1>5. ASSUME NEW at \in Open, Opened(c, at) PROVE CutInv'
    BY <1>5 DEF Opened, CutInv, PaceInv
  <1>6. CASE Heartbeat(c)
    <2>1. /\ due' = due \ {c} /\ UNCHANGED <<overdue, valid>>
          /\ MayLeave(c)
          /\ c \notin valid => step' = [step EXCEPT ![c] = "leaving"]
      BY <1>6 DEF Heartbeat, Breaks, GoesOn, peers, MayLeave, Left
    <2> QED BY <2>1 DEF CutInv, PaceInv, Open, MayLeave, Left
  <1>7. CASE \/ HearShutdown(c) \/ WriteFrame(c) \/ Receive(c) \/ Closes(c) \/ Ignore(c)
             \/ Request(c) \/ Quiet(c) \/ \E f \in Frames : Command(c, f)
    <2>1. UNCHANGED <<due, overdue, valid>>
      BY <1>7 DEF HearShutdown, WriteFrame, Receive, Closes, Ignore, Request, Quiet, Command, Read,
                  pace, peers
    <2>2. MayLeave(c)
      BY <1>7, LoopStep
    <2> QED BY <2>1, <2>2, CutKept DEF CutInv, PaceInv, MayLeave
  <1>8. CASE SendDisconnect(c)
    <2>1. UNCHANGED <<due, overdue, valid>> /\ MayLeave(c)
      BY <1>8 DEF SendDisconnect, pace, peers, MayLeave, Left
    <2> QED BY <2>1, CutKept DEF CutInv, PaceInv, MayLeave
  <1> QED BY <1>1, <1>3, <1>4, <1>5, <1>6, <1>7, <1>8
          DEF Task, Client, Refused, UpgradeFails, HandshakeFails, Leave, CloseFlushed, Registered,
              Authenticated, Open

LEMMA CutStep == PaceInv /\ CutInv /\ [Next]_vars => CutInv'
  <1> SUFFICES ASSUME PaceInv, CutInv, [Next]_vars PROVE CutInv'
    OBVIOUS
  <1>1. ASSUME UNCHANGED <<step, due, overdue, valid>> PROVE CutInv'
    BY <1>1 DEF CutInv
  <1>2. ASSUME NEW c \in Conns, Clocks(c) PROVE CutInv'
    <2>1. CASE SecondPasses(c) \/ Stall(c)
      BY <1>1, <2>1 DEF SecondPasses, Stall, pace, peers
    <2>2. CASE Revoke(c)
      BY <2>2 DEF Revoke, CutInv, pace
    <2>3. CASE Beat(c)
      BY <2>3 DEF Beat, CutInv, Open
    <2> QED BY <1>2, <2>1, <2>2, <2>3 DEF Clocks
  <1>3. ASSUME RoomSteps PROVE UNCHANGED <<step, due, overdue, valid>>
    BY <1>3 DEF RoomSteps, StartMatch, TickBegins, MatchEnds, TickEnds, CutoffPasses, Disconnected, Kick, Publish,
                roomElse, pace, peers
  <1>4. ASSUME Shutdown \/ UNCHANGED vars PROVE UNCHANGED <<step, due, overdue, valid>>
    BY <1>4 DEF Shutdown, vars, pace, peers
  <1> QED BY <1>1, <1>2, <1>3, <1>4, CutTask DEF Next

\* What RevokedIsCut says of one connection and one step.
Served(c) == IF c \in Bots THEN Len(outbox'[c]) < Len(outbox[c]) \/ (c \in answered' /\ c \notin answered)
                           ELSE lag'[c] < lag[c]

LEMMA NotServed ==
  ASSUME PaceInv, ChannelInv, CutInv, NEW c \in overdue, step[c] \in Open, [Next]_vars
  PROVE  ~Served(c)
  <1> USE Sizes
  <1>0. c \in Conns /\ c \in due /\ (c \in Bots => Len(outbox[c]) \in Nat)
        /\ (c \notin Bots => c \in Spectators /\ lag[c] \in Nat)
    BY DEF CutInv, ChannelInv, Spectators
  <1>1. ASSUME c \in Bots => outbox'[c] = outbox[c] /\ (c \in answered' => c \in answered),
               c \notin Bots => lag'[c] = lag[c]
        PROVE  ~Served(c)
    BY <1>0, <1>1 DEF Served
  <1>2. ASSUME NEW d \in Conns, Task(d) \/ Client(d) PROVE ~Served(c)
    <2>1. CASE Ends(d) /\ step[d] \notin Open
      <3>1. c # d
        BY <2>1
      <3> QED BY <1>0, <1>1, <2>1, <3>1 DEF Ends, roomVars
    <2>2. CASE WriteFrame(d)
      <3>1. c # d
        BY <1>0, <2>2, HeartbeatFirst DEF WriteFrame
      <3>2. answered' \subseteq answered /\ UNCHANGED lag
        BY <2>2 DEF WriteFrame, Breaks, GoesOn
      <3>3. c \in Bots => outbox'[c] = outbox[c]
        BY <2>2, <3>1 DEF WriteFrame, ChannelInv
      <3> QED BY <1>1, <3>2, <3>3
    <2>3. CASE Receive(d)
      <3>1. c # d
        BY <1>0, <2>3, HeartbeatFirst DEF Receive
      <3>2. answered' \subseteq answered /\ UNCHANGED outbox
        BY <2>3 DEF Receive, Breaks, GoesOn
      <3>3. c \notin Bots => lag'[c] = lag[c]
        BY <1>0, <2>3, <3>1 DEF Receive, ChannelInv
      <3> QED BY <1>1, <3>2, <3>3
    <2>4. CASE Request(d) \/ Quiet(d) \/ \E f \in Frames : Command(d, f)
      <3>1. Turn(d, "message") /\ answered' \subseteq answered \cup {d} /\ UNCHANGED <<outbox, lag>>
        BY <2>4 DEF Request, Quiet, Command, Read, Breaks
      <3>2. c # d
        BY <1>0, <3>1, HeartbeatFirst
      <3> QED BY <1>1, <3>1, <3>2
    <2>5. CASE UNCHANGED <<outbox, lag>> /\ answered' \subseteq answered
      BY <1>1, <2>5
    <2>6. CASE HearShutdown(d) \/ Heartbeat(d) \/ Closes(d) \/ Ignore(d)
      BY <2>5, <2>6 DEF HearShutdown, Heartbeat, Closes, Ignore, Breaks, GoesOn, roomVars
    <2>7. CASE \/ Admitted(d) \/ Upgraded(d) \/ Enlist(d) \/ Registered(d) \/ Arrive(d)
               \/ Greeted(d) \/ Authenticated(d) \/ SendDisconnect(d)
      BY <2>5, <2>7 DEF Admitted, Upgraded, Enlist, Registered, Arrive, Greeted, Authenticated,
                          SendDisconnect, Opened, roomVars
    <2>8. ASSUME NEW kind \in {"quiet", "bad"}, HelloWaits(d, kind) PROVE ~Served(c)
      BY <2>1, <2>5, <2>8 DEF HelloWaits, roomVars, Open
    <2> QED BY <1>2, <2>1, <2>2, <2>3, <2>4, <2>6, <2>7, <2>8
            DEF Task, Client, Refused, UpgradeFails, HandshakeFails, Leave, CloseFlushed, Open
  <1>3. ASSUME RoomSteps PROVE ~Served(c)
    <2>1. CASE Publish
      <3>1. UNCHANGED <<outbox, answered>>
        BY <2>1 DEF Publish, roomVars
      <3>2. c \notin Bots => lag'[c] \in {lag[c], lag[c] + 1}
        BY <1>0, <2>1 DEF Publish
      <3> QED BY <1>0, <3>1, <3>2 DEF Served
    <2>2. ASSUME NEW lost \in SUBSET Bots, TickEnds(lost) PROVE ~Served(c)
      <3>1. answered' \subseteq answered /\ UNCHANGED lag
        BY <2>2 DEF TickEnds, roomElse
      <3>2. c \in Bots => outbox'[c] = outbox[c] \/ \E f : outbox'[c] = Append(outbox[c], f)
        BY <2>2 DEF TickEnds
      <3>3. c \in Bots => Len(outbox'[c]) \in {Len(outbox[c]), Len(outbox[c]) + 1}
        BY <3>2 DEF ChannelInv
      <3> QED BY <1>0, <3>1, <3>3 DEF Served
    <2>3. CASE UNCHANGED <<outbox, lag>> /\ answered' \subseteq answered
      BY <1>1, <2>3
    <2> QED BY <1>3, <2>1, <2>2, <2>3
            DEF RoomSteps, StartMatch, TickBegins, MatchEnds, CutoffPasses, Disconnected, Kick, Unlisted, Closed, roomElse
  <1>4. ASSUME UNCHANGED <<outbox, lag, answered>> PROVE ~Served(c)
    BY <1>1, <1>4
  <1>5. ASSUME NEW d \in Conns, Clocks(d) PROVE UNCHANGED <<outbox, lag, answered>>
    BY <1>5 DEF Clocks, SecondPasses, Beat, Revoke, Stall, roomVars
  <1>6. ASSUME Shutdown \/ UNCHANGED vars PROVE UNCHANGED <<outbox, lag, answered>>
    BY <1>6 DEF Shutdown, vars, roomVars
  <1> QED BY <1>2, <1>3, <1>4, <1>5, <1>6 DEF Next

\* Once a heartbeat came due after its token went bad, a connection gets no frame and has no
\* command accepted (the recheck of handle_bot and handle_spectator).
THEOREM RevokedCut == Spec => RevokedIsCut
  <1>1. Init => PaceInv /\ WindowInv /\ ChannelInv /\ CutInv
    <2>1. Init => CutInv
      BY DEF Init, CutInv
    <2> QED BY <2>1, PaceStart, WindowStart, ChannelStart
  <1>2. PaceInv /\ WindowInv /\ ChannelInv /\ CutInv /\ [Next]_vars
          => PaceInv' /\ WindowInv' /\ ChannelInv' /\ CutInv'
    BY PaceStep, WindowStep, ChannelStep, CutStep
  <1>3. PaceInv /\ ChannelInv /\ ChannelInv' /\ CutInv /\ [Next]_vars =>
          [\A c \in overdue : step[c] \in Open =>
             IF c \in Bots THEN Len(outbox'[c]) >= Len(outbox[c]) /\ (c \in answered' => c \in answered)
                           ELSE lag'[c] >= lag[c]]_vars
    <2> SUFFICES ASSUME PaceInv, ChannelInv, ChannelInv', CutInv, [Next]_vars,
                        NEW c \in overdue, step[c] \in Open
                 PROVE  IF c \in Bots THEN /\ Len(outbox'[c]) >= Len(outbox[c])
                                           /\ c \in answered' => c \in answered
                                      ELSE lag'[c] >= lag[c]
      OBVIOUS
    <2>1. ~Served(c)
      BY NotServed
    <2>2. c \in Bots => Len(outbox[c]) \in Nat /\ Len(outbox'[c]) \in Nat
      BY DEF ChannelInv
    <2>3. c \notin Bots => lag[c] \in Nat /\ lag'[c] \in Nat
      BY DEF ChannelInv, CutInv, Spectators
    <2> QED BY <2>1, <2>2, <2>3 DEF Served
  <1> QED BY <1>1, <1>2, <1>3, PTL DEF Spec, RevokedIsCut

-----------------------------------------------------------------------------
(* The frames a bot is sent, in the order of their matches and ticks. *)

Older(f, g) == f[1] < g[1] \/ (f[1] = g[1] /\ f[2] < g[2])

\* What a client got is older than what is still on its way, and none is newer than the
\* room's tick; so the frame of an open window, if the client got it, was written last.
FramesInv ==
  /\ got \in [Bots -> SUBSET Frames]
  /\ \A b \in Bots :
       /\ \A f \in got[b] : /\ ~Older(Now, f)
                            /\ \A i \in 1..Len(outbox[b]) : Older(f, outbox[b][i])
       /\ \A i \in 1..Len(outbox[b]) :
            /\ ~Older(Now, outbox[b][i])
            /\ \A j \in 1..Len(outbox[b]) : i < j => Older(outbox[b][i], outbox[b][j])
       /\ window[b] \cap got[b] \subseteq allowance[b]

Dated(f) == f[1] \in Nat /\ f[2] \in Nat

LEMMA FrameDated == \A f \in Frames : Dated(f)
  BY Sizes DEF Frames, Dated

LEMMA NowDated == WindowInv => Dated(Now) /\ Now[1] = room.match /\ Now[2] = room.tick
  BY DEF WindowInv, Now, Dated

LEMMA OlderOrder ==
  ASSUME NEW f, NEW g, NEW h, Dated(f), Dated(g), Dated(h)
  PROVE  /\ ~Older(f, f)
         /\ Older(f, g) /\ ~Older(h, g) => Older(f, h)
         /\ ~Older(g, f) /\ Older(g, h) => Older(f, h) /\ ~Older(h, f)
  BY DEF Older, Dated

LEMMA FramesStart == Init => FramesInv
  <1> SUFFICES ASSUME Init PROVE FramesInv
    OBVIOUS
  <1>1. \A b \in Bots : Len(outbox[b]) = 0
    BY DEF Init
  <1> QED BY <1>1 DEF Init, FramesInv

LEMMA FramesKept ==
  ASSUME FramesInv, Now' = Now, UNCHANGED <<outbox, allowance>>, got' \in [Bots -> SUBSET Frames],
         \A b \in Bots : got'[b] \subseteq got[b] /\ window'[b] \subseteq window[b]
  PROVE  FramesInv'
  BY DEF FramesInv

\* No window closes but by what this says, when the room does not move.
LEMMA FramesSame ==
  ASSUME FramesInv, WindowInv, UNCHANGED <<room, outbox, allowance, got>>,
         UNCHANGED window \/ \E c : window' = [b \in Bots |-> IF b = c THEN {} ELSE window[b]]
  PROVE  FramesInv'
  <1>1. Now' = Now
    BY DEF Now
  <1>2. \A b \in Bots : window'[b] \subseteq window[b]
    BY DEF WindowInv
  <1> QED BY <1>1, <1>2, FramesKept DEF FramesInv

LEMMA FramesEnds ==
  ASSUME FramesInv, ChannelInv, NEW c \in Conns, Ends(c)
  PROVE  FramesInv'
  <1>1. Now' = Now /\ UNCHANGED window
    BY DEF Ends, roomVars, Now
  <1>2. got' \in [Bots -> SUBSET Frames]
    BY DEF Ends, FramesInv
  <1>3. \A b \in Bots : b # c => got'[b] = got[b] /\ outbox'[b] = outbox[b] /\ allowance'[b] = allowance[b]
    BY DEF Ends
  <1>4. c \in Bots => got'[c] = {} /\ Len(outbox'[c]) = 0
    BY DEF Ends
  <1> QED BY <1>1, <1>2, <1>3, <1>4 DEF FramesInv

LEMMA FramesWrite ==
  ASSUME FramesInv, WindowInv, ChannelInv, NEW b \in Bots, WriteFrame(b)
  PROVE  FramesInv'
  <1>1. UNCHANGED room /\ (UNCHANGED window \/ window' = [d \in Bots |-> IF d = b THEN {} ELSE window[d]])
    BY DEF WriteFrame, Breaks, GoesOn
  <1>2. CASE outbox[b] = <<>>
    BY <1>1, <1>2, FramesSame DEF WriteFrame
  <1>3. CASE outbox[b] # <<>>
    <2> DEFINE h == outbox[b][1]
               s == Tail(outbox[b])
    <2>1. /\ outbox' = [outbox EXCEPT ![b] = Tail(@)]
          /\ allowance' = [allowance EXCEPT ![b] = {Head(outbox[b])}]
          /\ UNCHANGED got \/ got' = [got EXCEPT ![b] = @ \cup {Head(outbox[b])}]
      BY <1>3 DEF WriteFrame, Allowed
    <2>2. /\ outbox[b] \in Seq(Frames) /\ Head(outbox[b]) = h /\ h \in Frames
          /\ 1 \in 1..Len(outbox[b]) /\ Len(s) = Len(outbox[b]) - 1 /\ Len(outbox[b]) \in Nat
          /\ \A i \in 1..Len(s) : s[i] = outbox[b][i + 1]
      BY <1>3 DEF ChannelInv
    <2>3. /\ outbox'[b] = s /\ allowance'[b] = {h} /\ got'[b] \subseteq got[b] \cup {h}
          /\ got' \in [Bots -> SUBSET Frames]
          /\ \A d \in Bots : d # b => /\ outbox'[d] = outbox[d] /\ allowance'[d] = allowance[d]
                                      /\ got'[d] = got[d]
      <3>1. /\ outbox'[b] = s /\ allowance'[b] = {h}
            /\ \A d \in Bots : d # b => outbox'[d] = outbox[d] /\ allowance'[d] = allowance[d]
        BY <2>1, <2>2 DEF ChannelInv
      <3>2. got' = got \/ got' = [got EXCEPT ![b] = @ \cup {h}]
        BY <2>1, <2>2
      <3>3. /\ got' \in [Bots -> SUBSET Frames] /\ got'[b] \subseteq got[b] \cup {h}
            /\ \A d \in Bots : d # b => got'[d] = got[d]
        <4> HIDE DEF h
        <4> QED BY <2>2, <3>2 DEF FramesInv
      <3> QED BY <3>1, <3>3
    <2>4. Now' = Now /\ \A d \in Bots : window'[d] \subseteq window[d]
      BY <1>1 DEF Now
    <2>5. \A i \in 1..Len(s) : i + 1 \in 1..Len(outbox[b]) /\ 1 < i + 1
      BY <2>2
    <2> HIDE DEF h, s
    <2>6. \A f \in got'[b] : ~Older(Now, f)
      BY <2>2, <2>3 DEF FramesInv, h
    <2>7. \A f \in got'[b], i \in 1..Len(s) : Older(f, s[i])
      <3>1. \A i \in 1..Len(s) : Older(h, s[i])
        BY <2>2, <2>5 DEF FramesInv, h
      <3>2. \A f \in got[b], i \in 1..Len(s) : Older(f, s[i])
        BY <2>2, <2>5 DEF FramesInv
      <3> QED BY <2>3, <3>1, <3>2
    <2>8. \A i \in 1..Len(s) : /\ ~Older(Now, s[i])
                               /\ \A j \in 1..Len(s) : i < j => Older(s[i], s[j])
      <3>1. \A i \in 1..Len(s), j \in 1..Len(s) : i < j => i + 1 < j + 1
        OBVIOUS
      <3> QED BY <2>2, <2>5, <3>1 DEF FramesInv
    <2>9. window[b] \cap got[b] = {}
      <3>1. \A f \in got[b] : Older(f, h)
        BY <2>2 DEF FramesInv, h
      <3>2. ~Older(Now, h)
        BY <2>2 DEF FramesInv, h
      <3>3. window[b] \subseteq {Now}
        BY DEF WindowInv
      <3> QED BY <3>1, <3>2, <3>3
    <2>10. window'[b] \cap got'[b] \subseteq allowance'[b]
      BY <2>3, <2>4, <2>9
    <2> QED BY <2>3, <2>4, <2>6, <2>7, <2>8, <2>10 DEF FramesInv
  <1> QED BY <1>2, <1>3

LEMMA FramesCommand ==
  ASSUME FramesInv, WindowInv, ChannelInv, NEW b \in Bots, NEW f \in Frames, Command(b, f)
  PROVE  FramesInv'
  <1>1. /\ allowance' = [allowance EXCEPT ![b] = @ \ {f}]
        /\ got' = [got EXCEPT ![b] = IF f \in @ THEN @ \ {f} ELSE {}]
        /\ UNCHANGED <<room, outbox>>
        /\ UNCHANGED window \/ window' = [d \in Bots |-> IF d = b THEN {} ELSE window[d]]
    BY DEF Command, Read, Breaks
  <1>2. /\ got' \in [Bots -> SUBSET Frames] /\ got'[b] \subseteq got[b] \ {f}
        /\ allowance'[b] = allowance[b] \ {f}
        /\ \A d \in Bots : d # b => got'[d] = got[d] /\ allowance'[d] = allowance[d]
    BY <1>1 DEF ChannelInv, FramesInv
  <1>3. Now' = Now /\ \A d \in Bots : window'[d] \subseteq window[d]
    BY <1>1 DEF Now
  <1>4. \A d \in Bots : got'[d] \subseteq got[d] /\ window'[d] \cap got'[d] \subseteq allowance'[d]
    BY <1>2, <1>3 DEF FramesInv
  <1> QED BY <1>1, <1>2, <1>3, <1>4 DEF FramesInv

\* The frames that are on their way stay as they are when the room moves on.
LEMMA FramesAge ==
  ASSUME FramesInv, ChannelInv, WindowInv, WindowInv', Now' = Now \/ Older(Now, Now')
  PROVE  \A b \in Bots : /\ \A f \in got[b] : ~Older(Now', f)
                         /\ \A i \in 1..Len(outbox[b]) : ~Older(Now', outbox[b][i])
  <1>1. Dated(Now) /\ Dated(Now')
    <2>1. Dated(Now)
      BY NowDated
    <2>2. Now' = <<room'.match, room'.tick>> /\ room'.match \in Nat /\ room'.tick \in Nat
      BY DEF Now, WindowInv
    <2> QED BY <2>1, <2>2 DEF Dated
  <1>2. ASSUME NEW f \in Frames, ~Older(Now, f) PROVE ~Older(Now', f)
    BY <1>1, <1>2, FrameDated, OlderOrder
  <1>3. \A b \in Bots : got[b] \subseteq Frames /\ \A i \in 1..Len(outbox[b]) : outbox[b][i] \in Frames
    BY DEF FramesInv, ChannelInv
  <1> QED BY <1>2, <1>3 DEF FramesInv

LEMMA FramesTick ==
  ASSUME FramesInv, ChannelInv, WindowInv, WindowInv', NEW lost \in SUBSET Bots, TickEnds(lost)
  PROVE  FramesInv'
  <1> DEFINE f == <<room.match, room.tick + 1>>
  <1>1. /\ f \in Frames /\ f = Now' /\ room.match \in Nat /\ room.tick \in Nat
    BY TickFrame
  <1>2. Older(Now, f) /\ Dated(Now) /\ Dated(f)
    <2>1. Now[1] = room.match /\ Now[2] = room.tick /\ f[1] = room.match /\ f[2] = room.tick + 1
      BY DEF Now
    <2> QED BY <1>1, <2>1 DEF Older, Dated
  <1>3. \A g \in Frames : ~Older(Now, g) => Older(g, f)
    BY <1>2, FrameDated, OlderOrder
  <1>4. \A b \in Bots : /\ \A g \in got[b] : ~Older(f, g) /\ Older(g, f)
                        /\ \A i \in 1..Len(outbox[b]) : /\ ~Older(f, outbox[b][i])
                                                        /\ Older(outbox[b][i], f)
    <2>1. \A b \in Bots : got[b] \subseteq Frames /\ \A i \in 1..Len(outbox[b]) : outbox[b][i] \in Frames
      BY DEF FramesInv, ChannelInv
    <2> QED BY <1>1, <1>2, <1>3, <2>1, FramesAge DEF FramesInv
  <1>5. /\ UNCHANGED got
        /\ \A b \in Bots : window[b] = {}
        /\ \A b \in Bots : window'[b] \subseteq {f}
        /\ \A b \in Bots : outbox'[b] = outbox[b] \/ outbox'[b] = Append(outbox[b], f)
    BY DEF TickEnds, roomElse, WindowInv
  <1>6. ~Older(f, f)
    BY <1>2, OlderOrder
  <1> HIDE DEF f
  <1>7. ASSUME NEW b \in Bots
        PROVE  /\ \A g \in got[b] : \A i \in 1..Len(outbox'[b]) : Older(g, outbox'[b][i])
               /\ \A i \in 1..Len(outbox'[b]) :
                    /\ ~Older(f, outbox'[b][i])
                    /\ \A j \in 1..Len(outbox'[b]) : i < j => Older(outbox'[b][i], outbox'[b][j])
    <2>1. CASE outbox'[b] = outbox[b]
      BY <1>4, <2>1 DEF FramesInv
    <2>2. CASE outbox'[b] = Append(outbox[b], f)
      <3>1. outbox[b] \in Seq(Frames) /\ Len(outbox[b]) \in Nat
        BY DEF ChannelInv
      <3>2. /\ Len(outbox'[b]) = Len(outbox[b]) + 1
            /\ \A i \in 1..Len(outbox[b]) : outbox'[b][i] = outbox[b][i]
            /\ outbox'[b][Len(outbox[b]) + 1] = f
        BY <1>1, <2>2, <3>1
      <3>3. \A i \in 1..Len(outbox'[b]) : i \in 1..Len(outbox[b]) \/ i = Len(outbox[b]) + 1
        BY <3>1, <3>2
      <3>4. \A i \in 1..Len(outbox'[b]), j \in 1..Len(outbox'[b]) : i < j => i \in 1..Len(outbox[b])
        BY <3>1, <3>2
      <3> QED BY <1>4, <1>6, <3>2, <3>3, <3>4 DEF FramesInv
    <2> QED BY <1>5, <2>1, <2>2
  <1>8. \A b \in Bots : window'[b] \cap got[b] = {}
    BY <1>2, <1>4, <1>5, <1>6
  <1> QED BY <1>1, <1>4, <1>5, <1>7, <1>8 DEF FramesInv

LEMMA FramesRoom ==
  ASSUME PaceInv, FramesInv, ChannelInv, WindowInv, WindowInv', RoomSteps
  PROVE  FramesInv'
  <1>1. ASSUME UNCHANGED <<outbox, allowance, got>>, Closed, Now' = Now \/ Older(Now, Now')
        PROVE  FramesInv'
    <2>1. \A b \in Bots : window'[b] = {}
      BY <1>1 DEF Closed
    <2> QED BY <1>1, <2>1, FramesAge DEF FramesInv
  <1>2. ASSUME NEW from \in {"lobby", "busy"}, StartMatch(from) PROVE FramesInv'
    <2>1. Now = <<room.match, room.tick>> /\ Now' = <<room.match + 1, 0>> /\ room.match \in Nat
      BY <1>2 DEF StartMatch, Now, WindowInv
    <2>2. Older(Now, Now')
      BY <2>1 DEF Older
    <2> QED BY <1>1, <1>2, <2>2 DEF StartMatch, roomElse
  <1>3. CASE TickBegins \/ MatchEnds
    <2>1. Now' = Now
      BY <1>3 DEF TickBegins, MatchEnds, Now, WindowInv
    <2> QED BY <1>1, <1>3, <2>1 DEF TickBegins, MatchEnds, roomElse
  <1>4. ASSUME NEW b \in Bots, CutoffPasses(b) \/ Disconnected(b) \/ Kick(b) PROVE FramesInv'
    <2>1. UNCHANGED window \/ window' = [d \in Bots |-> IF d = b THEN {} ELSE window[d]]
      BY <1>4 DEF CutoffPasses, Disconnected, Kick, Unlisted, WindowInv
    <2> QED BY <1>4, <2>1, FramesSame DEF CutoffPasses, Disconnected, Kick, roomElse
  <1>5. CASE Publish
    BY <1>5, FramesSame DEF Publish, roomVars
  <1> QED BY <1>2, <1>3, <1>4, <1>5, FramesTick DEF RoomSteps

LEMMA FramesStep ==
  ASSUME PaceInv, WindowInv, WindowInv', ChannelInv, FramesInv, [Next]_vars
  PROVE  FramesInv'
  <1>1. ASSUME UNCHANGED <<roomVars, outbox, allowance, got>> PROVE FramesInv'
    BY <1>1, FramesSame DEF roomVars
  <1>2. ASSUME NEW c \in Conns, \/ Admitted(c) \/ Upgraded(c) \/ Enlist(c) \/ Registered(c)
                                \/ Arrive(c) \/ Greeted(c) \/ Authenticated(c) \/ SendDisconnect(c)
        PROVE  FramesInv'
    BY <1>1, <1>2 DEF Admitted, Upgraded, Enlist, Registered, Arrive, Greeted, Authenticated,
                        SendDisconnect, Opened
  <1>3. ASSUME NEW c \in Conns, NEW kind \in {"quiet", "bad"}, HelloWaits(c, kind)
        PROVE  FramesInv'
    BY <1>1, <1>3, FramesEnds DEF HelloWaits
  <1>4. ASSUME NEW c \in Conns, \/ HearShutdown(c) \/ Heartbeat(c) \/ Closes(c) \/ Ignore(c)
                                \/ Receive(c)
        PROVE  FramesInv'
    <2>1. UNCHANGED <<room, outbox, allowance, got>>
          /\ (UNCHANGED window \/ window' = [b \in Bots |-> IF b = c THEN {} ELSE window[b]])
      BY <1>4 DEF HearShutdown, Heartbeat, Closes, Ignore, Receive, Breaks, GoesOn, roomVars
    <2> QED BY <2>1, FramesSame
  <1>5. ASSUME NEW c \in Conns, Request(c) \/ Quiet(c) PROVE FramesInv'
    <2>1. /\ UNCHANGED <<room, outbox, allowance>> /\ c \in Bots
          /\ (UNCHANGED window \/ window' = [b \in Bots |-> IF b = c THEN {} ELSE window[b]])
          /\ UNCHANGED got \/ got' = [got EXCEPT ![c] = {}]
      BY <1>5 DEF Request, Quiet, Read, Breaks
    <2>2. Now' = Now /\ \A b \in Bots : window'[b] \subseteq window[b]
      BY <2>1 DEF Now
    <2>3. got' \in [Bots -> SUBSET Frames] /\ \A b \in Bots : got'[b] \subseteq got[b]
      BY <2>1 DEF FramesInv
    <2> QED BY <2>1, <2>2, <2>3, FramesKept
  <1>6. ASSUME NEW c \in Conns, Task(c) \/ Client(c) PROVE FramesInv'
    BY <1>2, <1>3, <1>4, <1>5, <1>6, FramesEnds, FramesWrite, FramesCommand
       DEF Task, Client, Refused, UpgradeFails, HandshakeFails, Leave, CloseFlushed, WriteFrame, Command
  <1>7. ASSUME NEW c \in Conns, Clocks(c) PROVE UNCHANGED <<roomVars, outbox, allowance, got>>
    BY <1>7 DEF Clocks, SecondPasses, Beat, Revoke, Stall
  <1>8. ASSUME Shutdown \/ UNCHANGED vars PROVE UNCHANGED <<roomVars, outbox, allowance, got>>
    BY <1>8 DEF Shutdown, vars
  <1> QED BY <1>1, <1>6, <1>7, <1>8, FramesRoom DEF Next

-----------------------------------------------------------------------------
(* A bot that answers in time. *)

Limits == {"message or byte limit exceeded", "protocol violation limit exceeded"}
Reasons == {"none", "connection closed", "credentials revoked", "heartbeat timeout"} \cup Limits

\* It is blamed for nothing, and was charged one pong at most.
PromptInv ==
  /\ prompt \subseteq Bots
  /\ why \in [Conns -> Reasons] /\ \A c \in Conns : step[c] \notin Left => why[c] = "none"
  /\ \A b \in prompt : /\ violations[b] = 0 /\ (step[b] \in Open => spent[b] <= 1)
                       /\ why[b] \notin Limits

LEMMA PromptStart == Init => PromptInv
  BY Sizes DEF Init, PromptInv, Reasons, Limits, Open

\* Only the connection that moves is in question.
LEMMA PromptAt ==
  ASSUME PromptInv, PaceInv, NEW c \in Conns, NEW s \in Steps, NEW r \in Reasons,
         step' = [step EXCEPT ![c] = s], why' = [why EXCEPT ![c] = r],
         s \notin Left => r = "none",
         \A d \in Conns : d # c => violations'[d] = violations[d] /\ spent'[d] = spent[d],
         prompt' \subseteq Bots, \A d \in prompt' : d # c => d \in prompt,
         c \in prompt' => /\ violations'[c] = 0 /\ r \notin Limits
                          /\ s \in Open => spent'[c] <= 1
  PROVE  PromptInv'
  <1>1. \A d \in Conns : /\ step'[d] = IF d = c THEN s ELSE step[d]
                         /\ why'[d] = IF d = c THEN r ELSE why[d]
    BY DEF PromptInv, PaceInv
  <1>2. why' \in [Conns -> Reasons]
    BY DEF PromptInv
  <1>3. \A d \in Conns : step'[d] \notin Left => why'[d] = "none"
    BY <1>1 DEF PromptInv
  <1>4. ASSUME NEW d \in prompt'
        PROVE  violations'[d] = 0 /\ (step'[d] \in Open => spent'[d] <= 1) /\ why'[d] \notin Limits
    <2>1. d \in Conns
      BY Sizes
    <2>2. CASE d = c
      BY <1>1, <2>1, <2>2
    <2>3. CASE d # c
      BY <1>1, <2>1, <2>3 DEF PromptInv
    <2> QED BY <2>2, <2>3
  <1> QED BY <1>2, <1>3, <1>4 DEF PromptInv

LEMMA PromptEnds ==
  ASSUME PromptInv, PaceInv, NEW c \in Conns, Ends(c)
  PROVE  PromptInv'
  <1>1. /\ step' = [step EXCEPT ![c] = "idle"] /\ why' = [why EXCEPT ![c] = "none"]
        /\ prompt' = prompt \ {c}
        /\ \A d \in Conns : d # c => violations'[d] = violations[d] /\ spent'[d] = spent[d]
    BY DEF Ends, PaceInv
  <1>2. "idle" \in Steps /\ "none" \in Reasons
    BY DEF Steps, Reasons
  <1> QED BY <1>1, <1>2, PromptAt DEF PromptInv

\* A loop that is left for another reason than the two limits, or goes on.
LEMMA PromptLoops ==
  ASSUME PromptInv, PaceInv, NEW c \in Conns, step[c] \in Open, prompt' \subseteq prompt,
         UNCHANGED violations,
         \A d \in Conns : d # c => spent'[d] = spent[d],
         c \in prompt' => spent'[c] <= 1,
         \/ UNCHANGED <<step, why>>
         \/ \E s \in Left, r \in Reasons : /\ step' = [step EXCEPT ![c] = s]
                                           /\ why' = [why EXCEPT ![c] = r]
                                           /\ c \in prompt' => r \notin Limits
  PROVE  PromptInv'
  <1>1. \E s \in Steps, r \in Reasons :
          /\ step' = [step EXCEPT ![c] = s] /\ why' = [why EXCEPT ![c] = r]
          /\ s \notin Left => r = "none"
          /\ c \in prompt' => r \notin Limits
    <2>1. CASE UNCHANGED <<step, why>>
      <3>1. /\ step[c] \in Steps /\ why[c] \in Reasons /\ (step[c] \notin Left => why[c] = "none")
            /\ (c \in prompt' => why[c] \notin Limits)
            /\ step' = [step EXCEPT ![c] = step[c]] /\ why' = [why EXCEPT ![c] = why[c]]
        BY <2>1 DEF PaceInv, PromptInv
      <3> QED BY <3>1
    <2>2. CASE \E s \in Left, r \in Reasons : /\ step' = [step EXCEPT ![c] = s]
                                              /\ why' = [why EXCEPT ![c] = r]
                                              /\ c \in prompt' => r \notin Limits
      <3>1. PICK s \in Left, r \in Reasons : /\ step' = [step EXCEPT ![c] = s]
                                             /\ why' = [why EXCEPT ![c] = r]
                                             /\ c \in prompt' => r \notin Limits
        BY <2>2
      <3>2. s \in Steps
        BY DEF Steps, Left
      <3> QED BY <3>1, <3>2
    <2> QED BY <2>1, <2>2
  <1>2. c \in prompt' => violations'[c] = 0
    BY DEF PromptInv
  <1>3. PICK s \in Steps, r \in Reasons :
          /\ step' = [step EXCEPT ![c] = s] /\ why' = [why EXCEPT ![c] = r]
          /\ s \notin Left => r = "none"
          /\ c \in prompt' => r \notin Limits
    BY <1>1
  <1>4. prompt' \subseteq Bots /\ \A d \in prompt' : d \in prompt
    BY DEF PromptInv
  <1> QED BY <1>2, <1>3, <1>4, PromptAt

\* What a prompt bot sends is free, or the first of its second, and no violation.
LEMMA PromptRead ==
  ASSUME PromptInv, PaceInv, NEW b \in Bots, NEW isFree, NEW verdict, Read(b, isFree, verdict),
         prompt' \subseteq prompt,
         b \in prompt' => verdict \in Tolerated /\ (isFree = TRUE \/ spent[b] = 0)
  PROVE  PromptInv'
  <1> USE Sizes
  <1> DEFINE paid  == IF isFree THEN spent[b] ELSE spent[b] + 1
             bad   == IF verdict \in Tolerated THEN 0 ELSE 1
             wrong == violations[b] + bad >= MaxViolations /\ bad = 1
  <1>1. step[b] \in Open /\ b \in Conns /\ spent[b] \in Nat /\ violations[b] \in Nat
    BY DEF Read, Turn, PaceInv
  <1>2. b \in prompt' => paid <= 1 /\ bad = 0
    BY <1>1 DEF PromptInv
  <1>3. {"message or byte limit exceeded", "protocol violation limit exceeded"} \subseteq Reasons
    BY DEF Reasons, Limits
  <1>4. CASE paid > Budget
    <2>1. /\ step' = [step EXCEPT ![b] = "leaving"]
          /\ why' = [why EXCEPT ![b] = "message or byte limit exceeded"]
          /\ UNCHANGED <<violations, spent>>
      BY <1>4 DEF Read, Breaks
    <2>2. b \notin prompt'
      BY <1>1, <1>2, <1>4
    <2> HIDE DEF paid, bad, wrong
    <2>3. "leaving" \in Left
      BY DEF Left
    <2> QED BY <1>1, <1>3, <2>1, <2>2, <2>3, PromptLoops
  <1>5. CASE ~(paid > Budget)
    <2>1. /\ spent' = [spent EXCEPT ![b] = paid]
          /\ violations' = [violations EXCEPT ![b] = @ + bad]
          /\ IF wrong THEN /\ step' = [step EXCEPT ![b] = "leaving"]
                           /\ why' = [why EXCEPT ![b] = "protocol violation limit exceeded"]
                      ELSE UNCHANGED <<step, why>>
      BY <1>5 DEF Read, Breaks
    <2>2. b \in prompt' => ~wrong
      BY <1>2
    <2>3. /\ \A d \in Conns : d # b => violations'[d] = violations[d] /\ spent'[d] = spent[d]
          /\ spent'[b] = paid /\ violations'[b] = violations[b] + bad
      BY <1>1, <2>1 DEF PaceInv
    <2>4. b \in prompt' => violations'[b] = 0 /\ spent'[b] <= 1
      BY <1>1, <1>2, <2>3 DEF PromptInv
    <2>5. \E s \in Steps, r \in Reasons :
            /\ step' = [step EXCEPT ![b] = s] /\ why' = [why EXCEPT ![b] = r]
            /\ s \notin Left => r = "none"
            /\ b \in prompt' => r \notin Limits
      <3>1. CASE wrong
        BY <1>3, <2>1, <2>2, <3>1 DEF Steps, Left
      <3>2. CASE ~wrong
        <4>1. /\ step[b] \in Steps /\ why[b] \in Reasons /\ why[b] = "none"
              /\ step' = [step EXCEPT ![b] = step[b]] /\ why' = [why EXCEPT ![b] = why[b]]
              /\ "none" \notin Limits
          BY <1>1, <2>1, <3>2 DEF PaceInv, PromptInv, Open, Left, Limits
        <4> QED BY <4>1
      <3> QED BY <3>1, <3>2
    <2>6. PICK s \in Steps, r \in Reasons :
            /\ step' = [step EXCEPT ![b] = s] /\ why' = [why EXCEPT ![b] = r]
            /\ s \notin Left => r = "none"
            /\ b \in prompt' => r \notin Limits
      BY <2>5
    <2>7. prompt' \subseteq Bots /\ \A d \in prompt' : d \in prompt
      BY DEF PromptInv
    <2> HIDE DEF paid, bad, wrong
    <2> QED BY <1>1, <2>3, <2>4, <2>6, <2>7, PromptAt
  <1> QED BY <1>4, <1>5

\* The frame it answers was the last written, so its command is free.
LEMMA PromptClient ==
  ASSUME PromptInv, PaceInv, WindowInv, FramesInv, NEW b \in Bots,
         Request(b) \/ Quiet(b) \/ \E f \in Frames : Command(b, f)
  PROVE  PromptInv'
  <1>1. CASE Request(b)
    <2>1. PICK verdict \in {"none", "server_busy", "invalid_message"} : Read(b, FALSE, verdict)
      BY <1>1 DEF Request
    <2>2. prompt' \subseteq prompt /\ b \notin prompt'
      BY <1>1 DEF Request
    <2> QED BY <2>1, <2>2, PromptRead
  <1>2. CASE Quiet(b)
    <2>1. Read(b, FALSE, "none") /\ prompt' \subseteq prompt /\ (b \in prompt' => spent[b] = 0)
      BY <1>2 DEF Quiet
    <2>2. "none" \in Tolerated
      BY DEF Tolerated
    <2> QED BY <2>1, <2>2, PromptRead
  <1>3. ASSUME NEW f \in Frames, Command(b, f) PROVE PromptInv'
    <2>1. /\ Read(b, f \in allowance[b], Verdict(b, f)) /\ prompt' \subseteq prompt
          /\ b \in prompt' => f \in got[b] /\ Verdict(b, f) = "accepted"
      BY <1>3 DEF Command
    <2>2. Verdict(b, f) = "accepted" => f \in window[b]
      BY DEF Verdict
    <2>3. b \in prompt' => (f \in allowance[b]) = TRUE /\ Verdict(b, f) \in Tolerated
      BY <2>1, <2>2 DEF FramesInv, Tolerated
    <2> QED BY <2>1, <2>3, PromptRead
  <1> QED BY <1>1, <1>2, <1>3

LEMMA PromptTask ==
  ASSUME PromptInv, PaceInv, WindowInv, FramesInv, NEW c \in Conns, Task(c) \/ Client(c)
  PROVE  PromptInv'
  <1> USE Sizes
  <1>1. ASSUME step[c] \notin Open \cup Left, UNCHANGED why,
               \E s \in Steps \ Left :
                 /\ step' = [step EXCEPT ![c] = s]
                 /\ s \in Open => spent'[c] = 0,
               \A d \in Conns : d # c => violations'[d] = violations[d] /\ spent'[d] = spent[d],
               prompt' \subseteq Bots, \A d \in prompt' : d # c => d \in prompt,
               c \in prompt' => violations'[c] = 0
        PROVE  PromptInv'
    <2>1. why[c] = "none" /\ why' = [why EXCEPT ![c] = "none"]
          /\ "none" \in Reasons /\ "none" \notin Limits
      BY <1>1 DEF PromptInv, Reasons, Limits
    <2>2. PICK s \in Steps \ Left :
            step' = [step EXCEPT ![c] = s] /\ (s \in Open => spent'[c] = 0)
      BY <1>1
    <2>3. s \in Open => spent'[c] <= 1
      BY <2>2
    <2> QED BY <1>1, <2>1, <2>2, <2>3, PromptAt
  <1>2. CASE Admitted(c) \/ Arrive(c) \/ Greeted(c) \/ Enlist(c)
    <2>1. /\ UNCHANGED <<violations, spent, why, prompt>>
          /\ step[c] \notin Open \cup Left
          /\ \E s \in Steps \ (Open \cup Left) : step' = [step EXCEPT ![c] = s]
      BY <1>2 DEF Admitted, Arrive, Greeted, Enlist, pace, peers, Steps, Open, Left
    <2>2. prompt' \subseteq Bots /\ (c \in prompt' => violations'[c] = 0)
      BY <2>1 DEF PromptInv
    <2> QED BY <1>1, <2>1, <2>2
  <1>3. CASE Upgraded(c)
    BY <1>1, <1>3 DEF Upgraded, pace, Steps, Open, Left, PromptInv, PaceInv, Waiting
  <1>4. ASSUME NEW at \in Open, step[c] \notin Open \cup Left, Opened(c, at) PROVE PromptInv'
    <2>1. /\ spent'[c] = 0 /\ (\A d \in Conns : d # c => spent'[d] = spent[d])
          /\ UNCHANGED <<violations, why, prompt>> /\ step' = [step EXCEPT ![c] = at]
      BY <1>4 DEF Opened, PaceInv
    <2>2. at \in Steps \ Left
      BY DEF Open, Steps, Left
    <2> QED BY <1>1, <1>4, <2>1, <2>2 DEF PromptInv
  <1>5. ASSUME NEW kind \in {"quiet", "bad"}, HelloWaits(c, kind) PROVE PromptInv'
    <2>1. CASE ~Ends(c)
      <3>1. /\ step[c] = "hello" /\ UNCHANGED <<step, why>>
            /\ spent' = [spent EXCEPT ![c] = @ + 1]
            /\ violations' = [violations EXCEPT ![c] = IF kind = "bad" THEN @ + 1 ELSE @]
            /\ prompt' = IF kind = "bad" THEN prompt \ {c} ELSE prompt
        BY <1>5, <2>1 DEF HelloWaits
      <3>2. step' = [step EXCEPT ![c] = "hello"]
        BY <3>1 DEF PaceInv
      <3>3. \A d \in Conns : d # c => violations'[d] = violations[d] /\ spent'[d] = spent[d]
        BY <3>1 DEF PaceInv
      <3>4. c \in prompt' => violations'[c] = 0
        BY <3>1 DEF PaceInv, PromptInv
      <3> QED BY <1>1, <3>1, <3>2, <3>3, <3>4 DEF PromptInv, Open, Steps, Left
    <2> QED BY <2>1, PromptEnds
  <1>6. CASE HearShutdown(c) \/ Heartbeat(c) \/ WriteFrame(c) \/ Receive(c) \/ Closes(c)
    <2>1. UNCHANGED <<violations, spent, prompt>>
      BY <1>6 DEF HearShutdown, Heartbeat, WriteFrame, Receive, Closes, pace, peers
    <2>2. \/ UNCHANGED <<step, why>>
          \/ \E s \in Left, r \in Reasons \ Limits : /\ step' = [step EXCEPT ![c] = s]
                                                     /\ why' = [why EXCEPT ![c] = r]
      <3>1. CASE HearShutdown(c) /\ UNCHANGED why
        <4>1. /\ step[c] \in Open /\ \E s \in Left : step' = [step EXCEPT ![c] = s]
              /\ why' = [why EXCEPT ![c] = "none"] /\ "none" \in Reasons \ Limits
          BY <3>1, LoopStep DEF HearShutdown, Breaks, PromptInv, Open, Left, Reasons, Limits
        <4> QED BY <4>1 DEF Left
      <3>2. CASE ~(HearShutdown(c) /\ UNCHANGED why)
        BY <1>6, <3>2 DEF HearShutdown, Heartbeat, WriteFrame, Receive, Closes, Breaks, GoesOn, Left,
                          Reasons, Limits
      <3> QED BY <3>1, <3>2
    <2>3. step[c] \in Open
      BY <1>6, LoopStep
    <2>4. c \in prompt' => spent'[c] <= 1
      BY <2>1, <2>3 DEF PromptInv
    <2> QED BY <2>1, <2>2, <2>3, <2>4, PromptLoops
  <1>7. CASE Ignore(c)
    <2>1. /\ UNCHANGED <<violations, prompt>> /\ c \notin prompt
          /\ \A d \in Conns : d # c => spent'[d] = spent[d]
      BY <1>7 DEF Ignore, peers, PromptInv, Spectators, PaceInv
    <2>2. \/ UNCHANGED <<step, why>>
          \/ \E s \in Left, r \in Reasons : /\ step' = [step EXCEPT ![c] = s]
                                            /\ why' = [why EXCEPT ![c] = r]
      BY <1>7 DEF Ignore, Breaks, GoesOn, Left, Reasons, Limits
    <2>3. step[c] \in Open
      BY <1>7, LoopStep
    <2> QED BY <2>1, <2>2, <2>3, PromptLoops
  <1>8. CASE Request(c) \/ Quiet(c) \/ \E f \in Frames : Command(c, f)
    BY <1>8, PromptClient DEF Request, Quiet, Command
  <1>9. CASE Registered(c)
    BY <1>4, <1>9 DEF Registered, Open, Left
  <1>10. CASE Authenticated(c)
    BY <1>4, <1>10 DEF Authenticated, Open, Left
  <1>11. CASE SendDisconnect(c)
    <2>1. /\ UNCHANGED <<violations, spent, prompt, why>>
          /\ step' = [step EXCEPT ![c] = "closing"] /\ why' = [why EXCEPT ![c] = why[c]]
      BY <1>11 DEF SendDisconnect, pace, peers, PromptInv
    <2>2. "closing" \in Steps /\ "closing" \in Left /\ "closing" \notin Open /\ why[c] \in Reasons
      BY DEF Steps, Left, Open, PromptInv
    <2> QED BY <2>1, <2>2, PromptAt DEF PromptInv
  <1> QED BY <1>2, <1>3, <1>5, <1>6, <1>7, <1>8, <1>9, <1>10, <1>11, PromptEnds
          DEF Task, Client, Refused, UpgradeFails, HandshakeFails, Leave, CloseFlushed

LEMMA PromptStep ==
  ASSUME PaceInv, WindowInv, FramesInv, PromptInv, [Next]_vars
  PROVE  PromptInv'
  <1>1. ASSUME UNCHANGED <<step, violations, spent, why, prompt>> PROVE PromptInv'
    BY <1>1 DEF PromptInv
  <1>2. ASSUME NEW c \in Conns, SecondPasses(c) PROVE PromptInv'
    BY <1>2, Sizes DEF SecondPasses, PromptInv, PaceInv, peers
  <1>3. ASSUME NEW c \in Conns, Beat(c) \/ Revoke(c) \/ Stall(c)
        PROVE  UNCHANGED <<step, violations, spent, why, prompt>>
    BY <1>3 DEF Beat, Revoke, Stall, pace
  <1>4. ASSUME RoomSteps PROVE UNCHANGED <<step, violations, spent, why, prompt>>
    BY <1>4 DEF RoomSteps, StartMatch, TickBegins, MatchEnds, TickEnds, CutoffPasses, Disconnected, Kick, Publish,
                roomElse, pace, peers
  <1>5. ASSUME Shutdown \/ UNCHANGED vars PROVE UNCHANGED <<step, violations, spent, why, prompt>>
    BY <1>5 DEF Shutdown, vars, pace, peers
  <1> QED BY <1>1, <1>2, <1>3, <1>4, <1>5, PromptTask DEF Next, Clocks

\* A bot that answers every frame it gets at most once and in time, and sends no more than a
\* pong a second besides, is never closed for its messages (the allowance of handle_bot).
THEOREM PromptKept == Spec => []PromptBotIsKept
  <1>1. Init => PaceInv /\ WindowInv /\ ChannelInv /\ FramesInv /\ PromptInv
    BY PaceStart, WindowStart, ChannelStart, FramesStart, PromptStart
  <1>2. PaceInv /\ WindowInv /\ ChannelInv /\ FramesInv /\ PromptInv /\ [Next]_vars
          => PaceInv' /\ WindowInv' /\ ChannelInv' /\ FramesInv' /\ PromptInv'
    BY PaceStep, WindowStep, ChannelStep, FramesStep, PromptStep
  <1>3. PromptInv => PromptBotIsKept
    BY DEF PromptInv, PromptBotIsKept, Limits
  <1> QED BY <1>1, <1>2, <1>3, PTL DEF Spec
=============================================================================
