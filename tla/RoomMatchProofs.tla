-------------------------- MODULE RoomMatchProofs --------------------------
(***************************************************************************)
(* What a match of the room promises, proved for every number of bots,     *)
(* matches, hulls and configurations: who plays it, how it is reported,    *)
(* what its replay log and its training round say, and that the room       *)
(* implements MatchLife.                                                   *)
(***************************************************************************)
EXTENDS RoomProofs

-----------------------------------------------------------------------------
(* The crews.  A lost bot stays in the tables until the match is over, a      *)
(* batch never has one (it ends with its first loss), and the hulls afloat    *)
(* are those of bots still connected.                                         *)

Crews ==
  /\ ships = roster /\ gone \subseteq roster /\ alive \subseteq roster \ gone
  /\ mc # NoRun => gone = {}

CrewInv == BatchInv /\ Crews /\ LobbyIsClean /\ RosterFrozen

\* The parts of the invariant that must be shown anew in a step that ends a match.
LEMMA EndedCrew ==
  ASSUME CrewInv, BatchInv', state' = "Ended", UNCHANGED ships,
         roster' = roster, gone' \subseteq roster, alive' \subseteq roster \ gone'
  PROVE  CrewInv'
  BY DEF CrewInv, Crews, BatchInv, BatchOnlyWhileRunning, LobbyIsClean, RosterFrozen

\* A step that leaves the crews and the fitted hulls of a match as they are.
LEMMA QuietCrew ==
  ASSUME CrewInv, BatchInv', UNCHANGED <<state, rosterVars, ships, fitted, starters, startCount>>,
         mc' = mc \/ mc' = NoRun, alive' \subseteq alive,
         state = "Lobby" => UNCHANGED <<alive, hp, ammo, endTick>>
  PROVE  CrewInv'
  BY DEF CrewInv, Crews, LobbyIsClean, RosterFrozen, rosterVars

\* A new match: the bots of the room are its starters, each on a fresh hull.
LEMMA StartCrew ==
  ASSUME CrewInv, BatchInv', gone = {}, NEW logOpens, ApplyMatchLayout(logOpens)
  PROVE  CrewInv'
  <1>1. /\ ships' = roster' /\ roster' = roster /\ gone' = {} /\ alive' \subseteq roster
        /\ UNCHANGED <<ships, selected>>
    BY DEF CrewInv, Crews, ApplyMatchLayout, rosterVars
  <1>2. RosterFrozen'
    <2>1. /\ starters' = roster /\ startCount' = Cardinality(roster)
          /\ \A b \in Ids : b \in roster => fitted'[b] = selected[b]
      BY <1>1 DEF ApplyMatchLayout, CrewInv, Crews
    <2>2. roster \subseteq Ids
      BY DEF CrewInv, BatchInv, TypeOK, RosterTyped
    <2> QED
      BY <1>1, <2>1, <2>2 DEF RosterFrozen
  <1>3. LobbyIsClean'
    BY DEF LobbyIsClean, ApplyMatchLayout
  <1> QED
    BY <1>1, <1>2, <1>3 DEF CrewInv, Crews

\* The return to the lobby leaves the connected bots, all of them afloat.
LEMMA LobbyCrew ==
  ASSUME CrewInv, BatchInv', NEW t, TransitionToLobby(t)
  PROVE  CrewInv'
  <1>1. /\ roster' = roster \ gone /\ ships' = roster' /\ gone' = {} /\ alive' = roster'
        /\ mc' = NoRun /\ endTick' = NoTick /\ state' = "Lobby"
    BY DEF CrewInv, Crews, TransitionToLobby, Remaining
  <1>2. \A b \in roster' : hp'[b] = HullHp /\ ammo'[b] = Magazine
    <2>1. roster \subseteq Ids
      BY DEF CrewInv, BatchInv, TypeOK, RosterTyped
    <2> QED
      BY <1>1, <2>1 DEF TransitionToLobby
  <1> QED
    BY <1>1, <1>2 DEF CrewInv, Crews, LobbyIsClean, RosterFrozen

LEMMA CrewInit == Init => CrewInv
  BY BatchInit DEF Init, CrewInv, Crews, LobbyIsClean, RosterFrozen

LEMMA CrewStep == CrewInv /\ [Next]_vars => CrewInv'
  <1> SUFFICES ASSUME CrewInv, [Next]_vars PROVE CrewInv'
    OBVIOUS
  <1>0. BatchInv'
    BY BatchStep DEF CrewInv
  <1>t. TypeOK
    BY DEF CrewInv, BatchInv
  <1>1. CASE StepIdle
    <2>1. CASE TransitionToLobby(1)
      BY <1>0, <2>1, LobbyCrew
    <2>2. CASE ~TransitionToLobby(1)
      BY <1>0, <1>1, <2>2, QuietCrew DEF StepIdle, shipVars, matchVars, batchVars
    <2> QED
      BY <2>1, <2>2
  <1>2. ASSUME NEW dmg \in Damage, NEW shots \in Shots, StepContinue(dmg, shots)
        PROVE  CrewInv'
    BY <1>0, <1>2, QuietCrew DEF StepContinue, Afloat, matchVars, batchVars
  <1>3. ASSUME NEW dmg \in Damage, NEW shots \in Shots, StepFinish(dmg, shots)
        PROVE  CrewInv'
    <2>1. /\ state' = "Ended" /\ UNCHANGED ships /\ roster' = roster /\ gone' = gone
          /\ alive' \subseteq alive
      BY <1>3 DEF StepFinish, rosterVars, Afloat
    <2> QED
      BY <1>0, <2>1, EndedCrew DEF CrewInv, Crews
  <1>4. ASSUME NEW dmg \in Damage, NEW shots \in Shots, NEW logOpens \in BOOLEAN,
               StepChain(dmg, shots, logOpens)
        PROVE  CrewInv'
    BY <1>0, <1>4, StartCrew DEF StepChain, CrewInv, Crews
  <1>5. ASSUME NEW n \in Names, NEW awaited \in BOOLEAN, BotConnect(n, awaited)
        PROVE  CrewInv'
    <2>1. /\ nextIndex \in Ids /\ state = "Lobby" /\ state' = "Lobby" /\ gone' = gone /\ gone = {}
          /\ mc' = mc /\ mc = NoRun /\ endTick' = endTick
      BY <1>t, <1>5 DEF BotConnect, TypeOK, RosterTyped, Ids, batchVars, matchVars,
                        CrewInv, LobbyIsClean, BatchInv, BatchOnlyWhileRunning
    <2>2. CASE awaited
      <3>1. /\ roster' = roster \cup {nextIndex} /\ ships' = ships \cup {nextIndex}
            /\ alive' = alive \cup {nextIndex}
            /\ hp' = [hp EXCEPT ![nextIndex] = HullHp] /\ ammo' = [ammo EXCEPT ![nextIndex] = Magazine]
        BY <1>5, <2>2 DEF BotConnect
      <3>2. \A b \in roster' : hp'[b] = HullHp /\ ammo'[b] = Magazine
        BY <1>t, <2>1, <3>1 DEF TypeOK, RosterTyped, ShipsTyped, CrewInv, LobbyIsClean
      <3> QED
        BY <1>0, <2>1, <3>1, <3>2 DEF CrewInv, Crews, LobbyIsClean, RosterFrozen
    <2>3. CASE ~awaited
      <3>1. UNCHANGED <<roster, ships, alive, hp, ammo>>
        BY <1>5, <2>3 DEF BotConnect
      <3> QED
        BY <1>0, <2>1, <3>1 DEF CrewInv, Crews, LobbyIsClean, RosterFrozen
    <2> QED
      BY <2>2, <2>3
  <1>6. ASSUME NEW b \in Ids, NEW hash, BotReadyChecked(b, hash)
        PROVE  CrewInv'
    BY <1>0, <1>6 DEF BotReadyChecked, shipVars, matchVars, batchVars,
                      CrewInv, Crews, LobbyIsClean, RosterFrozen
  <1>7. ASSUME NEW b \in Ids, NEW l \in Loadouts, SelectPowerups(b, l)
        PROVE  CrewInv'
    BY <1>0, <1>7 DEF SelectPowerups, shipVars, matchVars, batchVars,
                      CrewInv, Crews, LobbyIsClean, RosterFrozen
  <1>8. ASSUME NEW b \in Ids, BotDisconnect(b)
        PROVE  CrewInv'
    <2>1. CASE RemoveBotAndShip(b) /\ state # "Running" /\ UNCHANGED <<state, tick, matchVars, logVars>>
      <3>1. mc' = NoRun /\ state' # "Running"
        BY <1>0, <2>1 DEF BatchInv, BatchOnlyWhileRunning
      <3>2. /\ roster' = roster \ {b} /\ gone' = gone \ {b} /\ ships' = ships \ {b}
            /\ alive' = alive \ {b} /\ endTick' = endTick
        BY <2>1 DEF RemoveBotAndShip, matchVars
      <3>3. \A c \in roster' : hp'[c] = hp[c] /\ ammo'[c] = ammo[c]
        BY <1>t, <2>1, <3>2 DEF RemoveBotAndShip, TypeOK, RosterTyped, ShipsTyped
      <3> QED
        BY <1>0, <2>1, <3>1, <3>2, <3>3 DEF CrewInv, Crews, LobbyIsClean, RosterFrozen
    <2>2. CASE ForfeitBot(b) /\ mc = NoRun /\ state = "Running"
               /\ UNCHANGED <<state, tick, matchVars, batchVars, config, seed,
                              round, openRounds, replayId, lastLog, gameOvers>>
      BY <1>0, <1>8, <2>2 DEF ForfeitBot, BotDisconnect, matchVars, batchVars,
                              CrewInv, Crews, LobbyIsClean, RosterFrozen
    <2>3. CASE ForfeitBot(b)
               /\ AbortMatch(alive \ {b}, [hp EXCEPT ![b] = 0], gone \cup {b}, Drop(writer, b))
      <3>1. /\ state' = "Ended" /\ UNCHANGED ships /\ roster' = roster
            /\ gone' = gone \cup {b} /\ alive' = alive \ {b}
        BY <2>3 DEF ForfeitBot, AbortMatch
      <3> QED
        BY <1>0, <1>8, <3>1, EndedCrew DEF BotDisconnect, CrewInv, Crews
    <2> QED
      BY <1>8, <2>1, <2>2, <2>3 DEF BotDisconnect
  <1>9. ASSUME NEW c \in Configs, Configure(c)
        PROVE  CrewInv'
    BY <1>0, <1>9 DEF Configure, shipVars, matchVars, batchVars,
                      CrewInv, Crews, LobbyIsClean, RosterFrozen
  <1>10. ASSUME NEW begin \in TrainingBegin, NEW logOpens \in BOOLEAN, OperatorStart(begin, logOpens)
         PROVE  CrewInv'
    <2>1. CASE UNCHANGED <<state, tick, rosterVars, shipVars, matchVars, logVars>>
      BY <1>0, <1>10, <2>1, QuietCrew DEF OperatorStart, shipVars, matchVars, batchVars
    <2>2. CASE ApplyMatchLayout(logOpens)
      BY <1>0, <1>10, <2>2, StartCrew DEF OperatorStart, CrewInv, LobbyIsClean
    <2> QED
      BY <1>10, <2>1, <2>2 DEF OperatorStart
  <1>11. ASSUME OperatorAbort
         PROVE  CrewInv'
    <2>1. UNCHANGED <<rosterVars, shipVars>>
      BY <1>11 DEF OperatorAbort
    <2>2. CASE state' = "Ended"
      BY <1>0, <2>1, <2>2, EndedCrew DEF rosterVars, shipVars, CrewInv, Crews
    <2>3. CASE UNCHANGED <<state, tick, matchVars, logVars>>
      <3>1. mc' = mc \/ mc' = NoRun
        BY <1>11 DEF OperatorAbort, batchVars, DropRun
      <3> QED
        BY <1>0, <2>1, <2>3, <3>1, QuietCrew DEF shipVars, matchVars
    <2> QED
      BY <1>11, <2>2, <2>3 DEF OperatorAbort, AbortMatch
  <1>12. ASSUME OperatorReset
         PROVE  CrewInv'
    BY <1>0, <1>12, LobbyCrew DEF OperatorReset
  <1>13. ASSUME NEW n \in 1..MaxBatch, NEW c \in Configs, NEW logOpens \in BOOLEAN,
                StartMonteCarlo(n, c, logOpens)
         PROVE  CrewInv'
    BY <1>0, <1>13, StartCrew DEF StartMonteCarlo, CrewInv, LobbyIsClean
  <1>14. ASSUME NEW force \in BOOLEAN, StopMonteCarlo(force)
         PROVE  CrewInv'
    <2>1. UNCHANGED <<rosterVars, shipVars>>
      BY <1>14 DEF StopMonteCarlo
    <2>2. CASE state' = "Ended"
      BY <1>0, <2>1, <2>2, EndedCrew DEF rosterVars, shipVars, CrewInv, Crews
    <2>3. CASE UNCHANGED <<state, tick, matchVars, logVars>>
      <3>1. mc' = mc \/ mc' = NoRun
        BY <1>14 DEF StopMonteCarlo, DropRun
      <3> QED
        BY <1>0, <2>1, <2>3, <3>1, QuietCrew DEF shipVars, matchVars
    <2> QED
      BY <1>14, <2>2, <2>3 DEF StopMonteCarlo, AbortMatch
  <1>15. CASE UNCHANGED vars
    BY <1>0, <1>15, QuietCrew DEF vars, shipVars, matchVars, batchVars
  <1> QED
    BY <1>1, <1>2, <1>3, <1>4, <1>5, <1>6, <1>7, <1>8, <1>9, <1>10, <1>11, <1>12, <1>13, <1>14, <1>15
       DEF Next, StepTick, HandleEvent

\* The players of a running match are the bots it started with, on the loadouts they chose.
THEOREM Frozen == Spec => []RosterFrozen
  <1>1. CrewInv => RosterFrozen
    BY DEF CrewInv
  <1> QED
    BY <1>1, CrewInit, CrewStep, PTL DEF Spec

\* The lobby holds connected bots only, on undamaged ships, whatever path led back to it.
THEOREM CleanLobby == Spec => []LobbyIsClean
  <1>1. CrewInv => LobbyIsClean
    BY DEF CrewInv
  <1> QED
    BY <1>1, CrewInit, CrewStep, PTL DEF Spec

-----------------------------------------------------------------------------
(* The records of a match: the report, the training round, the replay log.   *)

\* A running match has time left, and a bot still in it has taken part in all of it.
MatchClock ==
  state = "Running" =>
    /\ tick < MatchTimeout
    /\ \A b \in roster \ gone : played[b] = tick

Records ==
  /\ ReportCoversStarters /\ ForfeitNeverWins /\ VerdictIsFair
  /\ LogFollowsMatch /\ LogAgreesWithReport /\ MatchClock
  /\ OneGameOverPerMatch /\ NoOrphanRound
  /\ state = "Running" => report = NoReport /\ matchId > 0

MatchInv == CrewInv /\ Records

\* What match_outcome decides at the timeout: its winner outranks every other ship
\* afloat, and if it picks nobody then no ship does.
ClockWinner(al, h, am, w) ==
  IF w = NoBot
  THEN \A a \in al : \E b \in al \ {a} : ~Outranks(a, b, h, am)
  ELSE w \in al /\ \A b \in al \ {w} : Outranks(w, b, h, am)

LEMMA WinnerOutranks ==
  ASSUME NEW al \in SUBSET Ids, NEW h \in [Ids -> Int], NEW am \in [Ids -> Int],
         ~LastStanding(al), NEW w, w = Winner(al, h, am)
  PROVE  ClockWinner(al, h, am, w)
  <1> DEFINE first == Leaders(al, h, am)
  <1>1. w = IF \E b \in first : first = {b} THEN CHOOSE b \in first : TRUE ELSE NoBot
    BY DEF Winner
  <1>2. \A a \in al : h[a] \in Int /\ am[a] \in Int
    OBVIOUS
  <1>3. \A a \in al : a # NoBot
    BY RoomAssumption DEF Ids, NoBot
  <1>4. CASE \E b \in first : first = {b}
    <2>1. w \in first /\ first = {w}
      BY <1>1, <1>4
    <2>2. w \in al /\ \A c \in al : ~Outranks(c, w, h, am)
      BY <2>1 DEF Leaders
    <2>3. ASSUME NEW b \in al \ {w}, ~Outranks(w, b, h, am)
          PROVE  FALSE
      <3>1. \A c \in al : Outranks(c, b, h, am) => Outranks(c, w, h, am)
        BY <1>2, <2>2, <2>3 DEF Outranks
      <3>2. b \in first
        BY <2>2, <3>1 DEF Leaders
      <3> QED
        BY <2>1, <3>2
    <2> QED
      BY <1>3, <2>2, <2>3 DEF ClockWinner
  <1>5. CASE ~\E b \in first : first = {b}
    <2>1. ASSUME NEW a \in al, \A b \in al \ {a} : Outranks(a, b, h, am)
          PROVE  FALSE
      <3>1. \A b \in al : ~Outranks(b, a, h, am)
        BY <1>2, <2>1 DEF Outranks
      <3>2. first = {a}
        BY <2>1, <3>1 DEF Leaders
      <3> QED
        BY <1>5, <3>2
    <2>2. w = NoBot
      BY <1>1, <1>5
    <2> QED
      BY <2>1, <2>2 DEF ClockWinner
  <1> QED
    BY <1>4, <1>5

\* The winner of a match that is decided by who is left: the last ship, or nobody.
LEMMA WinnerStands ==
  ASSUME NEW al \in SUBSET Ids, NEW h, NEW am, LastStanding(al), NEW w, w = Winner(al, h, am)
  PROVE  IF w = NoBot THEN al = {} ELSE al = {w}
  <1>1. IsFiniteSet(al) /\ Cardinality(al) \in Nat
    <2>1. MaxIndex \in Int
      BY RoomAssumption
    <2>2. IsFiniteSet(Ids)
      BY <2>1, FS_Interval DEF Ids
    <2> QED
      BY <2>2, RosterCardinality, FS_Subset
  <1>2. al = {} \/ \E b : al = {b}
    <2>1. Cardinality(al) = 0 \/ Cardinality(al) = 1
      BY <1>1 DEF LastStanding
    <2> QED
      BY <1>1, <2>1, FS_EmptySet, FS_Singleton
  <1>3. w = IF \E b \in al : al = {b} THEN CHOOSE b \in al : TRUE ELSE NoBot
    BY DEF Winner
  <1>4. CASE al = {}
    BY <1>3, <1>4
  <1>5. ASSUME NEW b, al = {b} PROVE w = b /\ w # NoBot
    BY <1>3, <1>5, RoomAssumption DEF Ids, NoBot
  <1> QED
    BY <1>2, <1>4, <1>5

\* What the report of a match that is over says, for every way it can end.
LEMMA ReportSound ==
  ASSUME CrewInv, state = "Running", NEW w, NEW aborted \in BOOLEAN,
         NEW al \in SUBSET roster, NEW gn \in SUBSET roster, al \cap gn = {},
         NEW h \in [Ids -> Int], NEW am \in [Ids -> Int],
         w = IF aborted THEN NoBot ELSE Winner(al, h, am),
         NEW t \in Nat, t <= MatchTimeout, aborted \/ MatchOver(al, t),
         report' = BuildReport(w, aborted, al, h, am, gn, t), UNCHANGED <<matchId, starters>>
  PROVE  /\ ReportCoversStarters' /\ ForfeitNeverWins' /\ VerdictIsFair'
         /\ report'.match = matchId /\ report'.winner = w /\ report'.round = round
         /\ report'.forfeited = gn /\ report'.ticks = t
  <1>0. roster \subseteq Ids /\ al \in SUBSET Ids /\ MatchTimeout \in Nat
    BY RoomAssumption DEF CrewInv, BatchInv, TypeOK, RosterTyped
  <1>1. /\ report'.match = matchId /\ report'.winner = w /\ report'.round = round
        /\ report'.bots = roster /\ report'.survivors = al /\ report'.forfeited = gn
        /\ report'.reason = EndReason(aborted, al, w) /\ report'.ticks = t
        /\ report'.hp = [b \in roster |-> h[b]] /\ report'.ammo = [b \in roster |-> am[b]]
    BY DEF BuildReport, ReportRows
  <1>2. ReportCoversStarters'
    BY <1>1 DEF ReportCoversStarters, CrewInv, RosterFrozen
  <1>3. w \in al \cup {NoBot}
    BY WinnerAfloat
  <1>4. ForfeitNeverWins'
    <2>1. NoBot \notin gn
      BY <1>0, RoomAssumption DEF Ids, NoBot
    <2> QED
      BY <1>1, <1>3, <2>1 DEF ForfeitNeverWins
  <1>5. startCount = Cardinality(roster)
    BY DEF CrewInv, RosterFrozen
  <1>6. report'.reason = "timeout" => ClockVerdict'
    <2> SUFFICES ASSUME report'.reason = "timeout" PROVE ClockVerdict'
      OBVIOUS
    <2>1. ~aborted /\ ~LastStanding(al) /\ w = Winner(al, h, am)
      BY <1>1 DEF EndReason
    <2>2. t = MatchTimeout
      BY <1>0, <2>1 DEF MatchOver
    <2>3. Cardinality(roster) >= 2 => Cardinality(al) >= 2
      BY <1>0, <1>5, <2>1, RosterCardinality DEF LastStanding
    <2>4. \A a, b \in al : Outranks(a, b, report'.hp, report'.ammo) <=> Outranks(a, b, h, am)
      BY <1>1 DEF Outranks
    <2>5. ClockWinner(al, h, am, w)
      BY <1>0, <2>1, WinnerOutranks
    <2>6. ClockWinner(al, report'.hp, report'.ammo, w)
      BY <2>4, <2>5 DEF ClockWinner
    <2> QED
      BY <1>1, <2>2, <2>3, <2>6 DEF ClockVerdict, ClockWinner
  <1>7. ASSUME report'.reason \in {"last_survivor", "no_survivors"}
        PROVE  /\ Cardinality(roster) >= 2
               /\ IF report'.reason = "last_survivor" THEN al = {w} ELSE al = {} /\ w = NoBot
    <2>1. /\ LastStanding(al) /\ w = Winner(al, h, am)
          /\ report'.reason = IF w # NoBot THEN "last_survivor" ELSE "no_survivors"
      BY <1>1, <1>7 DEF EndReason
    <2>2. IF w = NoBot THEN al = {} ELSE al = {w}
      BY <1>0, <2>1, WinnerStands
    <2> QED
      BY <1>5, <2>1, <2>2 DEF LastStanding
  <1>8. report'.reason = "operator_abort" => w = NoBot
    BY <1>1 DEF EndReason
  <1>9. VerdictIsFair'
    BY <1>1, <1>6, <1>7, <1>8 DEF VerdictIsFair
  <1> QED
    BY <1>1, <1>2, <1>4, <1>9

\* The training round and the counter of a match that ends.
LEMMA RoundClosed ==
  ASSUME MatchInv, state = "Running", NEW rep, FinishRound(rep),
         rep.match = matchId, rep.round = round
  PROVE  openRounds' = {}
  BY DEF MatchInv, Records, NoOrphanRound, FinishRound

\* A log, as a step leaves the ships: its losses are those of lost up to tick t, each at
\* the last tick its bot took part in.
LogOf(log, lost, t) ==
  /\ log.match = matchId
  /\ RecordsLosses(log.drops, lost, t)
  /\ \A i \in DOMAIN log.drops : log.drops[i].tick = played'[log.drops[i].bot]

\* Every way a match ends without another following leaves sound records.
LEMMA EndRecords ==
  ASSUME MatchInv, CrewInv', state = "Running", state' = "Ended", NEW w, NEW aborted \in BOOLEAN,
         NEW al \in SUBSET roster, NEW gn \in SUBSET roster, al \cap gn = {},
         NEW h \in [Ids -> Int], NEW am \in [Ids -> Int],
         w = IF aborted THEN NoBot ELSE Winner(al, h, am),
         NEW t \in Nat, t <= MatchTimeout, aborted \/ MatchOver(al, t),
         NEW log, BroadcastGameOver(BuildReport(w, aborted, al, h, am, gn, t), log),
         log # NoLog => LogOf(log, gn, t),
         UNCHANGED <<matchId, starters, round>>, writer' = NoLog
  PROVE  Records'
  <1> DEFINE rep == BuildReport(w, aborted, al, h, am, gn, t)
  <1>1. /\ report' = rep /\ FinishRound(rep) /\ gameOvers' = gameOvers + 1
        /\ lastLog' = Sealed(log, rep)
    BY DEF BroadcastGameOver
  <1>2. /\ ReportCoversStarters' /\ ForfeitNeverWins' /\ VerdictIsFair'
        /\ rep.match = matchId /\ rep.round = round /\ rep.forfeited = gn /\ rep.ticks = t
    BY <1>1, ReportSound DEF MatchInv
  <1> HIDE DEF rep
  <1>3. NoOrphanRound'
    BY <1>1, <1>2, RoundClosed DEF NoOrphanRound
  <1>4. OneGameOverPerMatch'
    BY <1>1 DEF MatchInv, Records, OneGameOverPerMatch, CrewInv, BatchInv, TypeOK, MatchTyped
  <1>5. LogAgreesWithReport'
    <2> SUFFICES ASSUME log # NoLog PROVE LogAgreesWithReport'
      BY <1>1 DEF LogAgreesWithReport, Sealed
    <2>1. lastLog' = [log |-> log, tick |-> rep.ticks, winner |-> rep.winner,
                      outcome |-> rep.outcome, reason |-> rep.reason]
      BY <1>1 DEF Sealed
    <2>2. /\ lastLog'.log = log /\ lastLog'.tick = rep.ticks /\ lastLog'.winner = rep.winner
          /\ lastLog'.outcome = rep.outcome /\ lastLog'.reason = rep.reason
      BY <2>1
    <2> QED
      BY <1>1, <1>2, <2>2 DEF LogAgreesWithReport, LogOf, RecordsLastTicks
  <1>6. LogFollowsMatch' /\ MatchClock'
    BY DEF LogFollowsMatch, MatchClock
  <1> QED
    BY <1>2, <1>3, <1>4, <1>5, <1>6 DEF Records

\* A match that starts has no report yet, and a log, if it has one, of its own.
LEMMA StartRecords ==
  ASSUME MatchInv, CrewInv', gone = {}, NEW logOpens, ApplyMatchLayout(logOpens),
         report' = NoReport, gameOvers' = matchId,
         openRounds' = IF round' = NoRound THEN {} ELSE {matchId'}
  PROVE  Records'
  <1>1. /\ matchId \in Nat /\ matchId' = matchId + 1 /\ state' = "Running" /\ tick' = 0
        /\ roster' = roster /\ gone' = {} /\ UNCHANGED selected /\ played' = [b \in Ids |-> 0]
    BY DEF ApplyMatchLayout, rosterVars, MatchInv, CrewInv, BatchInv, TypeOK, MatchTyped
  <1>2. LogFollowsMatch'
    <2> SUFFICES ASSUME writer' # NoLog PROVE LogFollowsMatch'
      BY DEF LogFollowsMatch
    <2>1. /\ writer'.match = matchId' /\ writer'.seed = seed' /\ writer'.config = config'
          /\ writer'.roster = roster /\ writer'.loadouts = selected /\ writer'.drops = <<>>
      BY DEF ApplyMatchLayout, Header
    <2>2. \A b \in roster : fitted'[b] = selected[b]
      <3>1. \A b \in starters' : fitted'[b] = selected'[b]
        BY <1>1 DEF CrewInv, RosterFrozen
      <3>2. starters' = roster
        BY DEF ApplyMatchLayout
      <3> QED
        BY <1>1, <3>1, <3>2
    <2>3. RecordsLosses(writer'.drops, gone', tick')
      BY <1>1, <2>1 DEF RecordsLosses
    <2>4. \A i \in DOMAIN writer'.drops : writer'.drops[i].tick = played'[writer'.drops[i].bot]
      BY <2>1
    <2> QED
      BY <1>1, <2>1, <2>2, <2>3, <2>4 DEF LogFollowsMatch, RecordsLastTicks
  <1>3. OneGameOverPerMatch' /\ NoOrphanRound'
    BY <1>1 DEF OneGameOverPerMatch, NoOrphanRound
  <1>4. ReportCoversStarters' /\ ForfeitNeverWins' /\ VerdictIsFair' /\ LogAgreesWithReport'
    BY DEF ReportCoversStarters, ForfeitNeverWins, VerdictIsFair, LogAgreesWithReport
  <1>5. MatchClock'
    <2>1. roster \subseteq Ids
      BY DEF MatchInv, CrewInv, BatchInv, TypeOK, RosterTyped
    <2> QED
      BY <1>1, <2>1, RoomAssumption DEF MatchClock
  <1> QED
    BY <1>1, <1>2, <1>3, <1>4, <1>5 DEF Records

\* A step that concerns neither the match nor its records, and, while a match runs,
\* nothing its log carries.
LEMMA QuietRecords ==
  ASSUME MatchInv, UNCHANGED <<state, matchVars, logVars>>,
         state = "Running" => UNCHANGED <<tick, seed, config, roster, fitted, gone>>,
         state # "Lobby" => UNCHANGED played
  PROVE  Records'
  <1>1. LogFollowsMatch' /\ MatchClock'
    BY DEF MatchInv, Records, LogFollowsMatch, MatchClock, RecordsLastTicks, matchVars, logVars
  <1>2. LogAgreesWithReport'
    BY DEF MatchInv, Records, LogAgreesWithReport, RecordsLastTicks, matchVars, logVars
  <1>3. VerdictIsFair'
    BY DEF MatchInv, Records, VerdictIsFair, ClockVerdict, matchVars
  <1>4. ReportCoversStarters' /\ ForfeitNeverWins' /\ OneGameOverPerMatch' /\ NoOrphanRound'
    BY DEF MatchInv, Records, ReportCoversStarters, ForfeitNeverWins,
           OneGameOverPerMatch, NoOrphanRound, matchVars, logVars
  <1> QED
    BY <1>1, <1>2, <1>3, <1>4 DEF MatchInv, Records, matchVars

\* The return to the lobby keeps the records of the match.
LEMMA LobbyRecords ==
  ASSUME MatchInv, state # "Running", NEW t, TransitionToLobby(t)
  PROVE  Records'
  <1>1. state' = "Lobby" /\ UNCHANGED <<matchId, starters, report, logVars>>
    BY DEF TransitionToLobby
  <1>2. writer' = NoLog
    BY <1>1 DEF MatchInv, Records, LogFollowsMatch, logVars
  <1>3. VerdictIsFair'
    BY <1>1 DEF MatchInv, Records, VerdictIsFair, ClockVerdict
  <1>4. LogAgreesWithReport'
    BY <1>1 DEF MatchInv, Records, LogAgreesWithReport, logVars
  <1>5. ReportCoversStarters' /\ ForfeitNeverWins' /\ OneGameOverPerMatch' /\ NoOrphanRound'
    BY <1>1 DEF MatchInv, Records, ReportCoversStarters, ForfeitNeverWins,
           OneGameOverPerMatch, NoOrphanRound, logVars
  <1> QED
    BY <1>1, <1>2, <1>3, <1>4, <1>5 DEF Records, LogFollowsMatch, MatchClock

\* The log of a running match has one more record for one more lost bot, at this tick.
LEMMA DropRecorded ==
  ASSUME MatchInv, state = "Running", NEW b \in roster \ gone, writer # NoLog
  PROVE  LET log == Drop(writer, b)
         IN  /\ log.match = writer.match /\ log.seed = writer.seed /\ log.config = writer.config
             /\ log.roster = writer.roster /\ log.loadouts = writer.loadouts
             /\ RecordsLosses(log.drops, gone \cup {b}, tick) /\ RecordsLastTicks(log.drops)
  <1> DEFINE log == Drop(writer, b)
             new == [bot |-> b, tick |-> tick]
             old == writer.drops
  <1>0. b \in Ids /\ tick \in Nat /\ played[b] = tick
    BY DEF MatchInv, Records, MatchClock, CrewInv, BatchInv, TypeOK, RosterTyped
  <1>1. writer \in Logs /\ old \in Seq(Drops)
    BY DEF MatchInv, CrewInv, BatchInv, TypeOK, LogTyped, Logs
  <1>2. log = [writer EXCEPT !.drops = Append(old, new)]
    BY DEF Drop
  <1>3. /\ log.match = writer.match /\ log.seed = writer.seed /\ log.config = writer.config
        /\ log.roster = writer.roster /\ log.loadouts = writer.loadouts
        /\ log.drops = Append(old, new)
    BY <1>1, <1>2 DEF Logs
  <1>4. RecordsLosses(old, gone, tick) /\ RecordsLastTicks(old)
    BY DEF MatchInv, Records, LogFollowsMatch
  <1> DEFINE n == Len(old)
             all == Append(old, new)
  <1>5. /\ n \in Nat /\ DOMAIN old = 1..n /\ DOMAIN all = 1..(n + 1)
        /\ all[n + 1] = new /\ \A i \in 1..n : all[i] = old[i]
        /\ \A i \in 1..n : old[i].tick \in Nat
    <2>1. new \in Drops
      BY <1>0 DEF Drops
    <2> HIDE DEF new, old
    <2>2. /\ n \in Nat /\ DOMAIN old = 1..n /\ \A i \in 1..n : old[i] \in Drops
      BY <1>1
    <2>3. DOMAIN all = 1..(n + 1) /\ all[n + 1] = new /\ \A i \in 1..n : all[i] = old[i]
      BY <1>1, <2>1
    <2>4. \A d \in Drops : d.tick \in Nat
      BY DEF Drops
    <2> QED
      BY <2>2, <2>3, <2>4
  <1>6. new.bot = b /\ new.tick = tick
    OBVIOUS
  <1> HIDE DEF log, new, old, n, all
  <1>7. {all[i].bot : i \in 1..(n + 1)} = gone \cup {b}
    <2>1. {old[i].bot : i \in 1..n} = gone
      BY <1>4, <1>5 DEF RecordsLosses
    <2>2. \A i \in 1..(n + 1) : i = n + 1 \/ i \in 1..n
      BY <1>5
    <2>3. \A i \in 1..n : i \in 1..(n + 1)
      BY <1>5
    <2>4. n + 1 \in 1..(n + 1)
      BY <1>5
    <2> QED
      BY <1>5, <1>6, <2>1, <2>2, <2>3, <2>4
  <1>8. ASSUME NEW i \in 1..(n + 1), NEW j \in 1..(n + 1), i < j
        PROVE  all[i].bot # all[j].bot /\ all[i].tick <= all[j].tick
    <2>1. i \in 1..n
      BY <1>5, <1>8
    <2>2. old[i].bot \in gone /\ old[i].tick <= tick
      BY <1>4, <1>5, <2>1 DEF RecordsLosses
    <2>3. CASE j = n + 1
      BY <1>5, <1>6, <2>1, <2>2, <2>3
    <2>4. CASE j \in 1..n
      BY <1>4, <1>5, <1>8, <2>1, <2>4 DEF RecordsLosses
    <2> QED
      BY <1>5, <2>3, <2>4
  <1>9. ASSUME NEW i \in 1..(n + 1)
        PROVE  all[i].tick <= tick /\ all[i].tick = played[all[i].bot]
    <2>1. CASE i = n + 1
      BY <1>0, <1>5, <1>6, <2>1
    <2>2. CASE i \in 1..n
      BY <1>4, <1>5, <2>2 DEF RecordsLosses, RecordsLastTicks
    <2> QED
      BY <1>5, <2>1, <2>2
  <1>10. RecordsLosses(all, gone \cup {b}, tick) /\ RecordsLastTicks(all)
    BY <1>5, <1>7, <1>8, <1>9 DEF RecordsLosses, RecordsLastTicks
  <1>11. log.drops = all
    BY <1>3 DEF all
  <1> QED
    BY <1>3, <1>10, <1>11 DEF log

\* A step of the clock leaves the records of the losses so far as they are.
LEMMA TickKeepsLosses ==
  ASSUME MatchInv, state = "Running", writer # NoLog, played' = PlayedAfter
  PROVE  LogOf(writer, gone, tick) /\ LogOf(writer, gone, tick + 1)
  <1>1. /\ writer.match = matchId /\ RecordsLosses(writer.drops, gone, tick)
        /\ RecordsLastTicks(writer.drops)
    BY DEF MatchInv, Records, LogFollowsMatch
  <1>2. writer.drops \in Seq(Drops) /\ tick \in Nat
    BY DEF MatchInv, CrewInv, BatchInv, TypeOK, LogTyped, Logs
  <1>3. \A i \in DOMAIN writer.drops :
          /\ writer.drops[i].bot \in gone /\ writer.drops[i].bot \in Ids
          /\ writer.drops[i].tick \in Nat
    <2>1. \A d \in Drops : d.bot \in Ids /\ d.tick \in Nat
      BY DEF Drops
    <2>2. \A i \in DOMAIN writer.drops : writer.drops[i] \in Drops
      BY <1>2
    <2> QED
      BY <1>1, <2>1, <2>2 DEF RecordsLosses
  <1>4. \A i \in DOMAIN writer.drops : writer.drops[i].tick = played'[writer.drops[i].bot]
    BY <1>1, <1>3 DEF RecordsLastTicks, PlayedAfter
  <1>5. RecordsLosses(writer.drops, gone, tick + 1)
    BY <1>1, <1>2, <1>3 DEF RecordsLosses
  <1> QED
    BY <1>1, <1>4, <1>5 DEF LogOf

\* abort_match, whether or not it comes with the loss of a bot.
LEMMA AbortRecords ==
  ASSUME MatchInv, CrewInv', state = "Running",
         NEW al \in SUBSET roster, NEW h \in [Ids -> 0..HullHp], NEW gn \in SUBSET roster,
         al \cap gn = {}, NEW log, AbortMatch(al, h, gn, log),
         log # NoLog => LogOf(log, gn, tick)
  PROVE  Records'
  <1>1. /\ BroadcastGameOver(BuildReport(NoBot, TRUE, al, h, ammo, gn, tick), log)
        /\ state' = "Ended" /\ UNCHANGED <<matchId, starters, round>> /\ writer' = NoLog
    BY DEF AbortMatch
  <1>2. h \in [Ids -> Int] /\ ammo \in [Ids -> Int]
    BY RoomAssumption DEF MatchInv, CrewInv, BatchInv, TypeOK, ShipsTyped
  <1>3. tick \in Nat /\ tick <= MatchTimeout
    BY RoomAssumption DEF MatchInv, Records, MatchClock, CrewInv, BatchInv, TypeOK
  <1> QED
    BY <1>1, <1>2, <1>3, EndRecords

\* An abort that loses nobody.
LEMMA PlainAbortRecords ==
  ASSUME MatchInv, CrewInv', state = "Running", AbortMatch(alive, hp, gone, writer),
         UNCHANGED played
  PROVE  Records'
  <1>1. alive \in SUBSET roster /\ gone \in SUBSET roster /\ alive \cap gone = {}
    BY DEF MatchInv, CrewInv, Crews
  <1>2. hp \in [Ids -> 0..HullHp]
    BY DEF MatchInv, CrewInv, BatchInv, TypeOK, ShipsTyped
  <1>3. writer # NoLog => LogOf(writer, gone, tick)
    BY DEF MatchInv, Records, LogFollowsMatch, LogOf, RecordsLastTicks
  <1> QED
    BY <1>1, <1>2, <1>3, AbortRecords

LEMMA RecordsInit == Init => Records
  BY DEF Init, Records, ReportCoversStarters, ForfeitNeverWins, VerdictIsFair, LogFollowsMatch,
         LogAgreesWithReport, MatchClock, OneGameOverPerMatch, NoOrphanRound

LEMMA RecordsStep == MatchInv /\ [Next]_vars => Records'
  <1> SUFFICES ASSUME MatchInv, [Next]_vars PROVE Records'
    OBVIOUS
  <1>0. CrewInv'
    BY CrewStep DEF MatchInv
  <1>t. TypeOK /\ matchId \in Nat /\ gameOvers \in Nat
    BY DEF MatchInv, CrewInv, BatchInv, TypeOK, MatchTyped, LogTyped
  <1>c. alive \in SUBSET roster /\ gone \in SUBSET roster /\ alive \cap gone = {}
    BY DEF MatchInv, CrewInv, Crews
  <1>1. CASE StepIdle
    <2>1. CASE TransitionToLobby(1)
      BY <1>1, <2>1, LobbyRecords DEF StepIdle
    <2>2. CASE ~TransitionToLobby(1)
      BY <1>1, <2>2, QuietRecords DEF StepIdle, shipVars
    <2> QED
      BY <2>1, <2>2
  <1>2. ASSUME NEW dmg \in Damage, NEW shots \in Shots, StepContinue(dmg, shots)
        PROVE  Records'
    <2>1. /\ state = "Running" /\ state' = "Running" /\ tick' = tick + 1 /\ played' = PlayedAfter
          /\ ~MatchOver(Afloat(dmg), tick + 1)
          /\ UNCHANGED <<roster, gone, fitted, setupVars, matchVars, logVars>>
      BY <1>2 DEF StepContinue, rosterVars
    <2>2. MatchClock'
      <3>1. tick + 1 < MatchTimeout
        BY <1>t, <2>1, RoomAssumption DEF MatchOver, TypeOK
      <3>2. \A b \in roster \ gone : PlayedAfter[b] = tick + 1
        BY <1>t, <2>1 DEF PlayedAfter, MatchInv, Records, MatchClock, TypeOK, RosterTyped
      <3> QED
        BY <2>1, <3>1, <3>2 DEF MatchClock
    <2>3. LogFollowsMatch'
      <3> SUFFICES ASSUME writer # NoLog PROVE LogFollowsMatch'
        BY <2>1 DEF LogFollowsMatch, logVars
      <3>1. LogOf(writer, gone, tick + 1)
        BY <2>1, TickKeepsLosses
      <3> QED
        BY <2>1, <3>1 DEF MatchInv, Records, LogFollowsMatch, LogOf, RecordsLastTicks,
                          setupVars, matchVars, logVars
    <2>4. /\ ReportCoversStarters' /\ ForfeitNeverWins' /\ VerdictIsFair'
          /\ LogAgreesWithReport' /\ OneGameOverPerMatch' /\ NoOrphanRound'
          /\ report' = NoReport /\ matchId' > 0
      BY <2>1 DEF MatchInv, Records, ReportCoversStarters, ForfeitNeverWins, VerdictIsFair,
             LogAgreesWithReport, OneGameOverPerMatch, NoOrphanRound, matchVars, logVars
    <2> QED
      BY <2>2, <2>3, <2>4 DEF Records
  <1>3. ASSUME NEW dmg \in Damage, NEW shots \in Shots, StepFinish(dmg, shots)
        PROVE  Records'
    <2> DEFINE h == HpAfter(dmg)
               am == AmmoAfter(shots)
    <2>1. h \in [Ids -> Int] /\ am \in [Ids -> Int]
      BY <1>t, SimulationTyped, RoomAssumption
    <2>2. Afloat(dmg) \in SUBSET roster /\ Afloat(dmg) \cap gone = {}
      BY <1>c DEF Afloat
    <2>3. /\ BroadcastGameOver(BuildReport(Winner(Afloat(dmg), h, am), FALSE, Afloat(dmg), h, am, gone, tick + 1), writer)
          /\ state = "Running" /\ state' = "Ended" /\ played' = PlayedAfter
          /\ MatchOver(Afloat(dmg), tick + 1)
          /\ UNCHANGED <<matchId, starters, round>> /\ writer' = NoLog
      BY <1>3 DEF StepFinish, FinalReport, DecidedBy
    <2>4. tick + 1 \in Nat /\ tick + 1 <= MatchTimeout
      BY <1>t, <2>3, RoomAssumption DEF MatchInv, Records, MatchClock, TypeOK
    <2>5. writer # NoLog => LogOf(writer, gone, tick + 1)
      BY <2>3, TickKeepsLosses
    <2> HIDE DEF h, am
    <2> QED
      BY <1>0, <1>c, <2>1, <2>2, <2>3, <2>4, <2>5, EndRecords
  <1>4. ASSUME NEW dmg \in Damage, NEW shots \in Shots, NEW logOpens \in BOOLEAN,
               StepChain(dmg, shots, logOpens)
        PROVE  Records'
    <2> DEFINE rep == FinalReport(dmg, shots)
    <2>1. rep.match = matchId /\ rep.round = round /\ rep.forfeited = gone
      BY DEF FinalReport, BuildReport
    <2>2. /\ state = "Running" /\ mc # NoRun /\ FinishRound(rep) /\ gameOvers' = gameOvers + 1
          /\ ApplyMatchLayout(logOpens)
          /\ round' = NoRound /\ report' = NoReport
      BY <1>4 DEF StepChain
    <2> HIDE DEF rep
    <2>3. gone = {} /\ openRounds' = {}
      BY <2>1, <2>2, RoundClosed DEF MatchInv, CrewInv, Crews
    <2>4. gameOvers' = matchId
      BY <1>t, <2>2 DEF MatchInv, Records, OneGameOverPerMatch
    <2> QED
      BY <1>0, <2>2, <2>3, <2>4, StartRecords
  <1>5. ASSUME NEW n \in Names, NEW awaited \in BOOLEAN, BotConnect(n, awaited)
        PROVE  Records'
    BY <1>5, QuietRecords DEF BotConnect
  <1>6. ASSUME NEW b \in Ids, NEW hash, BotReadyChecked(b, hash)
        PROVE  Records'
    BY <1>6, QuietRecords DEF BotReadyChecked
  <1>7. ASSUME NEW b \in Ids, NEW l \in Loadouts, SelectPowerups(b, l)
        PROVE  Records'
    BY <1>7, QuietRecords DEF SelectPowerups
  <1>8. ASSUME NEW b \in Ids, BotDisconnect(b)
        PROVE  Records'
    <2>0. b \in roster /\ b \notin gone
      BY <1>8 DEF BotDisconnect
    <2>p. UNCHANGED played
      BY <1>8 DEF BotDisconnect, RemoveBotAndShip, ForfeitBot
    <2>d. state = "Running" /\ writer # NoLog => LogOf(Drop(writer, b), gone \cup {b}, tick)
      BY <2>0, <2>p, DropRecorded DEF LogOf, RecordsLastTicks, MatchInv, Records, LogFollowsMatch
    <2>n. Drop(writer, b) # NoLog => writer # NoLog
      BY DEF Drop
    <2>1. CASE state # "Running" /\ UNCHANGED <<state, tick, matchVars, logVars>>
      BY <2>1, <2>p, QuietRecords
    <2>2. CASE /\ state = "Running" /\ ForfeitBot(b) /\ writer' = Drop(writer, b)
               /\ UNCHANGED <<state, tick, matchVars, batchVars, config, seed,
                              round, openRounds, replayId, lastLog, gameOvers>>
      <3>1. roster' = roster /\ gone' = gone \cup {b} /\ UNCHANGED fitted
        BY <2>2 DEF ForfeitBot
      <3>2. LogFollowsMatch'
        <4>1. CASE writer = NoLog
          BY <2>2, <4>1 DEF Drop, LogFollowsMatch
        <4>2. CASE writer # NoLog
          <5>1. /\ writer'.match = writer.match /\ writer'.seed = writer.seed
                /\ writer'.config = writer.config /\ writer'.roster = writer.roster
                /\ writer'.loadouts = writer.loadouts
                /\ RecordsLosses(writer'.drops, gone', tick) /\ RecordsLastTicks(writer'.drops)
            BY <2>0, <2>2, <3>1, <4>2, DropRecorded
          <5>2. RecordsLastTicks(writer.drops)'
            BY <2>p, <5>1 DEF RecordsLastTicks
          <5> QED
            BY <2>2, <3>1, <4>2, <5>1, <5>2 DEF MatchInv, Records, LogFollowsMatch, matchVars
        <4> QED
          BY <4>1, <4>2
      <3>3. /\ ReportCoversStarters' /\ ForfeitNeverWins' /\ VerdictIsFair'
            /\ LogAgreesWithReport' /\ OneGameOverPerMatch' /\ NoOrphanRound'
        BY <2>2 DEF MatchInv, Records, ReportCoversStarters, ForfeitNeverWins, VerdictIsFair,
               LogAgreesWithReport, OneGameOverPerMatch, NoOrphanRound, matchVars
      <3>4. MatchClock'
        BY <2>2, <2>p, <3>1 DEF MatchInv, Records, MatchClock
      <3> QED
        BY <2>2, <3>2, <3>3, <3>4 DEF MatchInv, Records, matchVars
    <2>3. CASE /\ state = "Running"
               /\ AbortMatch(alive \ {b}, [hp EXCEPT ![b] = 0], gone \cup {b}, Drop(writer, b))
      <3>1. [hp EXCEPT ![b] = 0] \in [Ids -> 0..HullHp]
        BY <1>t, RoomAssumption DEF TypeOK, ShipsTyped
      <3>2. /\ alive \ {b} \in SUBSET roster /\ gone \cup {b} \in SUBSET roster
            /\ (alive \ {b}) \cap (gone \cup {b}) = {}
        BY <1>c, <2>0
      <3> QED
        BY <1>0, <2>3, <2>d, <2>n, <3>1, <3>2, AbortRecords
    <2> QED
      BY <1>8, <2>1, <2>2, <2>3 DEF BotDisconnect
  <1>9. ASSUME NEW c \in Configs, Configure(c)
        PROVE  Records'
    BY <1>9, QuietRecords DEF Configure
  <1>10. ASSUME NEW begin \in TrainingBegin, NEW logOpens \in BOOLEAN, OperatorStart(begin, logOpens)
         PROVE  Records'
    <2>0. state = "Lobby"
      BY <1>10 DEF OperatorStart
    <2>1. CASE UNCHANGED <<state, tick, rosterVars, shipVars, matchVars, logVars>>
      BY <2>0, <2>1, QuietRecords
    <2>2. CASE /\ ApplyMatchLayout(logOpens)
               /\ round' = IF begin = "tagged" THEN matchId' ELSE NoRound
               /\ openRounds' = IF begin = "tagged" THEN openRounds \cup {matchId'} ELSE openRounds
               /\ report' = NoReport
               /\ UNCHANGED gameOvers
      <3>1. gone = {} /\ openRounds = {} /\ gameOvers = matchId
        BY <2>0 DEF MatchInv, CrewInv, LobbyIsClean, Records, NoOrphanRound, OneGameOverPerMatch
      <3>2. matchId' # NoRound
        BY <1>t, <2>2 DEF ApplyMatchLayout, NoRound
      <3> QED
        BY <1>0, <2>2, <3>1, <3>2, StartRecords
    <2> QED
      BY <1>10, <2>1, <2>2 DEF OperatorStart
  <1>11. ASSUME OperatorAbort
         PROVE  Records'
    <2>1. CASE state = "Running"
      BY <1>0, <1>11, <2>1, PlainAbortRecords DEF OperatorAbort, shipVars
    <2>2. CASE state # "Running"
      BY <1>11, <2>2, QuietRecords DEF OperatorAbort, shipVars
    <2> QED
      BY <2>1, <2>2
  <1>12. ASSUME OperatorReset
         PROVE  Records'
    BY <1>12, LobbyRecords DEF OperatorReset
  <1>13. ASSUME NEW n \in 1..MaxBatch, NEW c \in Configs, NEW logOpens \in BOOLEAN,
                StartMonteCarlo(n, c, logOpens)
         PROVE  Records'
    <2>1. /\ state = "Lobby" /\ ApplyMatchLayout(logOpens) /\ round' = NoRound
          /\ report' = NoReport /\ UNCHANGED <<openRounds, gameOvers>>
      BY <1>13 DEF StartMonteCarlo
    <2>2. gone = {} /\ openRounds = {} /\ gameOvers = matchId
      BY <2>1 DEF MatchInv, CrewInv, LobbyIsClean, Records, NoOrphanRound, OneGameOverPerMatch
    <2> QED
      BY <1>0, <2>1, <2>2, StartRecords
  <1>14. ASSUME NEW force \in BOOLEAN, StopMonteCarlo(force)
         PROVE  Records'
    <2>0. UNCHANGED <<roster, gone, fitted, played>>
      BY <1>14 DEF StopMonteCarlo, rosterVars, shipVars
    <2>1. CASE AbortMatch(alive, hp, gone, writer) /\ state = "Running"
      BY <1>0, <2>0, <2>1, PlainAbortRecords
    <2>2. CASE UNCHANGED <<state, tick, matchVars, logVars>> /\ UNCHANGED <<config, seed>>
      BY <2>0, <2>2, QuietRecords
    <2>3. CASE UNCHANGED <<state, tick, matchVars, logVars>> /\ state # "Running"
      BY <2>0, <2>3, QuietRecords
    <2> QED
      BY <1>14, <2>1, <2>2, <2>3 DEF StopMonteCarlo
  <1>15. CASE UNCHANGED vars
    BY <1>15, QuietRecords DEF vars, rosterVars, shipVars, setupVars
  <1> QED
    BY <1>1, <1>2, <1>3, <1>4, <1>5, <1>6, <1>7, <1>8, <1>9, <1>10, <1>11, <1>12, <1>13, <1>14, <1>15
       DEF Next, StepTick, HandleEvent

LEMMA MatchInit == Init => MatchInv
  BY CrewInit, RecordsInit DEF MatchInv

LEMMA MatchStep == MatchInv /\ [Next]_vars => MatchInv'
  BY CrewStep, RecordsStep DEF MatchInv

THEOREM MatchInvariance == Spec => []MatchInv
  BY MatchInit, MatchStep, PTL DEF Spec

\* The report of a match has a row for every starter, lost ones included (build_report).
THEOREM ReportComplete == Spec => []ReportCoversStarters
  <1>1. MatchInv => ReportCoversStarters
    BY DEF MatchInv, Records
  <1> QED
    BY <1>1, MatchInvariance, PTL

\* Who forfeits neither survives nor wins (forfeit_bot and match_outcome).
THEOREM NoForfeitWinner == Spec => []ForfeitNeverWins
  <1>1. MatchInv => ForfeitNeverWins
    BY DEF MatchInv, Records
  <1> QED
    BY <1>1, MatchInvariance, PTL

\* The verdict of a match follows the hulls, the clock and who is left, with any number of
\* ships: at the timeout only a strict leader wins (match_outcome, build_match_report).
THEOREM FairVerdict == Spec => []VerdictIsFair
  <1>1. MatchInv => VerdictIsFair
    BY DEF MatchInv, Records
  <1> QED
    BY <1>1, MatchInvariance, PTL

\* An open log is the running match's and has every forfeit so far once, at its tick
\* (write_replay_header and write_replay_disconnect).
THEOREM LogFaithful == Spec => []LogFollowsMatch
  <1>1. MatchInv => LogFollowsMatch
    BY DEF MatchInv, Records
  <1> QED
    BY <1>1, MatchInvariance, PTL

\* A sealed log ends as its report says and has each of its forfeits once, at the last
\* tick the bot took part in (broadcast_game_over, write_replay_disconnect).
THEOREM LogSealed == Spec => []LogAgreesWithReport
  <1>1. MatchInv => LogAgreesWithReport
    BY DEF MatchInv, Records
  <1> QED
    BY <1>1, MatchInvariance, PTL

\* Every match is ended once (broadcast_game_over).
THEOREM EndedOnce == Spec => []OneGameOverPerMatch
  <1>1. MatchInv => OneGameOverPerMatch
    BY DEF MatchInv, Records
  <1> QED
    BY <1>1, MatchInvariance, PTL

\* A training round runs exactly while its match does (operator_start, broadcast_game_over).
THEOREM NoRoundLeft == Spec => []NoOrphanRound
  <1>1. MatchInv => NoOrphanRound
    BY DEF MatchInv, Records
  <1> QED
    BY <1>1, MatchInvariance, PTL

-----------------------------------------------------------------------------
(* The configuration. *)

\* In the lobby a ready bot has acknowledged the configuration in force.
LEMMA ReadyStep ==
  ASSUME BatchInv, ReadyAcknowledged, [Next]_vars
  PROVE  ReadyAcknowledged'
  <1> SUFFICES ASSUME state' = "Lobby" PROVE \A b \in ready' : acked'[b] = ConfigHash'
    BY DEF ReadyAcknowledged
  <1>1. CASE ready' = {}
    BY <1>1
  <1>2. CASE UNCHANGED <<state, acked, config, revision>> /\ ready' \subseteq ready
    BY <1>2 DEF ReadyAcknowledged, ConfigHash
  <1>3. CASE StepIdle
    BY <1>1, <1>2, <1>3 DEF StepIdle, TransitionToLobby, rosterVars, setupVars
  <1>4. ASSUME NEW dmg \in Damage, NEW shots \in Shots,
               \/ StepContinue(dmg, shots) \/ StepFinish(dmg, shots)
               \/ \E logOpens \in BOOLEAN : StepChain(dmg, shots, logOpens)
        PROVE  FALSE
    BY <1>4 DEF StepContinue, StepFinish, StepChain, ApplyMatchLayout
  <1>5. ASSUME NEW n \in Names, NEW awaited \in BOOLEAN, BotConnect(n, awaited)
        PROVE  \A b \in ready' : acked'[b] = ConfigHash'
    BY <1>2, <1>5 DEF BotConnect, setupVars
  <1>6. ASSUME NEW b \in Ids, NEW hash, BotReadyChecked(b, hash)
        PROVE  \A c \in ready' : acked'[c] = ConfigHash'
    <2>1. acked' = [acked EXCEPT ![b] = ConfigHash] /\ acked \in [Ids -> Nat \X Configs]
      BY <1>6 DEF BotReadyChecked, Acknowledges, BatchInv, TypeOK, RosterTyped
    <2>2. ConfigHash' = ConfigHash /\ ready' = ready \cup {b} /\ state = "Lobby"
      BY <1>6 DEF BotReadyChecked, setupVars, ConfigHash
    <2>3. ready \subseteq Ids
      BY DEF BatchInv, TypeOK, RosterTyped
    <2> QED
      BY <2>1, <2>2, <2>3 DEF ReadyAcknowledged
  <1>7. ASSUME NEW b \in Ids, NEW l \in Loadouts, SelectPowerups(b, l)
        PROVE  \A c \in ready' : acked'[c] = ConfigHash'
    BY <1>2, <1>7 DEF SelectPowerups, setupVars
  <1>8. ASSUME NEW b \in Ids, BotDisconnect(b)
        PROVE  \A c \in ready' : acked'[c] = ConfigHash'
    <2>1. state = "Lobby" /\ UNCHANGED state /\ RemoveBotAndShip(b)
      BY <1>8 DEF BotDisconnect, AbortMatch
    <2>2. mc = NoRun
      BY <2>1 DEF BatchInv, BatchOnlyWhileRunning
    <2>3. /\ ready' = ready \ {b} /\ acked' = [acked EXCEPT ![b] = Unanswered]
          /\ UNCHANGED <<revision, config>>
      BY <1>8, <2>1, <2>2 DEF BotDisconnect, RemoveBotAndShip
    <2>4. \A c \in ready' : acked'[c] = acked[c]
      BY <2>3 DEF BatchInv, TypeOK, RosterTyped
    <2> QED
      BY <2>1, <2>3, <2>4 DEF ReadyAcknowledged, ConfigHash
  <1>9. ASSUME NEW c \in Configs, Configure(c)
        PROVE  \A b \in ready' : acked'[b] = ConfigHash'
    BY <1>1, <1>9 DEF Configure
  <1>10. ASSUME NEW begin \in TrainingBegin, NEW logOpens \in BOOLEAN, OperatorStart(begin, logOpens)
         PROVE  \A b \in ready' : acked'[b] = ConfigHash'
    BY <1>2, <1>10 DEF OperatorStart, ApplyMatchLayout, rosterVars
  <1>11. CASE OperatorAbort
    <2>1. mc # NoRun /\ state = "Lobby"
      BY <1>11 DEF OperatorAbort, AbortMatch
    <2> QED
      BY <2>1 DEF BatchInv, BatchOnlyWhileRunning
  <1>12. CASE OperatorReset
    BY <1>1, <1>12 DEF OperatorReset, TransitionToLobby
  <1>13. ASSUME NEW n \in 1..MaxBatch, NEW c \in Configs, NEW logOpens \in BOOLEAN,
                StartMonteCarlo(n, c, logOpens)
         PROVE  FALSE
    BY <1>13 DEF StartMonteCarlo, ApplyMatchLayout
  <1>14. ASSUME NEW force \in BOOLEAN, StopMonteCarlo(force)
         PROVE  FALSE
    BY <1>14 DEF StopMonteCarlo, AbortMatch, BatchInv, BatchOnlyWhileRunning
  <1>15. CASE UNCHANGED vars
    BY <1>2, <1>15 DEF vars, rosterVars, setupVars
  <1> QED
    BY <1>3, <1>4, <1>5, <1>6, <1>7, <1>8, <1>9, <1>10, <1>11, <1>12, <1>13, <1>14, <1>15
       DEF Next, StepTick, HandleEvent

\* Readiness in the lobby is for the rules in force (configure, BotReadyChecked).
THEOREM ReadyIsInformed == Spec => []ReadyAcknowledged
  <1>1. Init => ReadyAcknowledged
    BY DEF Init, ReadyAcknowledged
  <1> QED
    BY <1>1, BatchInit, BatchStep, ReadyStep, PTL DEF Spec

\* Nothing changes the rules or the seed under a running match, batches included.
THEOREM FrozenConfig == Spec => ConfigFrozen
  <1> DEFINE Frozen1 == state = "Running" /\ state' = "Running" /\ matchId' = matchId
                         => UNCHANGED <<config, seed, revision>>
  <1>1. ASSUME BatchInv, [Next]_vars, state = "Running", state' = "Running", matchId' = matchId
        PROVE  UNCHANGED <<config, seed, revision>>
    <2>0. matchId \in Nat
      BY <1>1 DEF BatchInv, TypeOK, MatchTyped
    <2>1. ~\E logOpens : ApplyMatchLayout(logOpens)
      BY <1>1, <2>0 DEF ApplyMatchLayout
    <2>2. CASE StepTick
      BY <1>1, <2>1, <2>2 DEF StepTick, StepIdle, StepContinue, StepFinish, StepChain, setupVars
    <2>3. CASE HandleEvent
      <3>1. CASE \E b \in Ids : BotDisconnect(b)
        BY <1>1, <3>1 DEF BotDisconnect, AbortMatch
      <3>2. CASE OperatorAbort
        BY <1>1, <3>2 DEF OperatorAbort, AbortMatch
      <3>3. CASE \E force \in BOOLEAN : StopMonteCarlo(force)
        BY <1>1, <3>3 DEF StopMonteCarlo, AbortMatch
      <3>4. ASSUME ~OperatorAbort, ~(\E b \in Ids : BotDisconnect(b)),
                   ~(\E force \in BOOLEAN : StopMonteCarlo(force))
            PROVE  state # "Running"
        BY <2>3, <3>4 DEF HandleEvent, BotConnect, BotReadyChecked, SelectPowerups, Configure,
                          OperatorStart, OperatorReset, StartMonteCarlo
      <3> QED
        BY <1>1, <3>1, <3>2, <3>3, <3>4
    <2>4. CASE UNCHANGED vars
      BY <2>4 DEF vars, setupVars
    <2> QED
      BY <1>1, <2>2, <2>3, <2>4 DEF Next
  <1>2. BatchInv /\ [Next]_vars => [Frozen1]_vars
    BY <1>1
  <1> QED
    BY <1>2, BatchInit, BatchStep, PTL DEF Spec, ConfigFrozen

-----------------------------------------------------------------------------
(* The figures of a batch. *)

\* The run in progress: every match recorded was won or drawn, and one is left.
RunAddsUp(run) == run.wins + run.draws = run.index /\ run.index <= run.n

FiguresInv ==
  /\ mc # NoRun => RunAddsUp(mc)
  /\ BatchAccounting

LEMMA RecordedAddsUp ==
  ASSUME TypeOK, mc # NoRun, RunAddsUp(mc), mc.index < mc.n, NEW w
  PROVE  RunAddsUp(Recorded(mc, w)) /\ Recorded(mc, w).n = mc.n
  <1>1. mc \in Runs
    BY DEF TypeOK, BatchTyped
  <1>2. /\ Recorded(mc, w).index = mc.index + 1 /\ Recorded(mc, w).n = mc.n
        /\ Recorded(mc, w).wins = IF w # NoBot THEN mc.wins + 1 ELSE mc.wins
        /\ Recorded(mc, w).draws = IF w = NoBot THEN mc.draws + 1 ELSE mc.draws
    BY <1>1 DEF Recorded, Runs
  <1>3. mc.index \in Nat /\ mc.wins \in Nat /\ mc.draws \in Nat /\ mc.n \in Nat
    BY <1>1 DEF Runs
  <1> QED
    BY <1>2, <1>3 DEF RunAddsUp

\* A batch that is dropped publishes figures that add up; it is called completed only
\* when nothing was left to play.
LEMMA DropRunFigures ==
  ASSUME NEW run, NEW why, DropRun(run, why), RunAddsUp(run),
         why = "completed" => run.index = run.n
  PROVE  FiguresInv'
  <1>1. mc' = NoRun /\ mcStatus' = Status(run, why)
    BY DEF DropRun
  <1>2. /\ mcStatus'.reason = why /\ mcStatus'.completed = run.index /\ mcStatus'.total = run.n
        /\ mcStatus'.wins = run.wins /\ mcStatus'.draws = run.draws
    BY <1>1 DEF Status
  <1> QED
    BY <1>1, <1>2 DEF FiguresInv, BatchAccounting, RunAddsUp

LEMMA FiguresStep ==
  ASSUME BatchInv, FiguresInv, [Next]_vars
  PROVE  FiguresInv'
  <1>t. TypeOK
    BY DEF BatchInv
  <1>q. ASSUME UNCHANGED <<mc, mcStatus>> PROVE FiguresInv'
    BY <1>q DEF FiguresInv, BatchAccounting
  <1>d. ASSUME mc # NoRun, NEW why, why # "completed", DropRun(mc, why) PROVE FiguresInv'
    BY <1>d, DropRunFigures DEF FiguresInv
  <1>l. ASSUME NEW t, TransitionToLobby(t) PROVE FiguresInv'
    BY <1>l DEF TransitionToLobby, FiguresInv, BatchAccounting
  <1>1. CASE StepIdle
    BY <1>q, <1>l, <1>1 DEF StepIdle, batchVars
  <1>2. ASSUME NEW dmg \in Damage, NEW shots \in Shots, StepContinue(dmg, shots)
        PROVE  FiguresInv'
    BY <1>q, <1>2 DEF StepContinue, batchVars
  <1>3. ASSUME NEW dmg \in Damage, NEW shots \in Shots, StepFinish(dmg, shots)
        PROVE  FiguresInv'
    <2>1. CASE UNCHANGED batchVars
      BY <1>q, <2>1 DEF batchVars
    <2>2. CASE mc # NoRun
      <3> DEFINE run == Recorded(mc, DecidedBy(dmg, shots))
      <3>1. ~Continues(run) /\ DropRun(run, EndedBecause(run))
        BY <1>3, <2>2 DEF StepFinish
      <3>2. RunAddsUp(run)
        BY <1>t, <2>2, RecordedAddsUp DEF FiguresInv, BatchAccounting
      <3>3. run \in Runs
        BY <1>t, <2>2, RecordedTyped
      <3>4. EndedBecause(run) = "completed" => run.index = run.n
        BY <3>2, <3>3 DEF EndedBecause, RunAddsUp, Runs
      <3> QED
        BY <3>1, <3>2, <3>4, DropRunFigures
    <2> QED
      BY <1>3, <2>1, <2>2 DEF StepFinish
  <1>4. ASSUME NEW dmg \in Damage, NEW shots \in Shots, NEW logOpens \in BOOLEAN,
               StepChain(dmg, shots, logOpens)
        PROVE  FiguresInv'
    <2> DEFINE run == Recorded(mc, FinalReport(dmg, shots).winner)
    <2>1. mc # NoRun /\ mc' = run /\ Continues(run) /\ mcStatus' = mcStatus
      BY <1>4 DEF StepChain
    <2>2. RunAddsUp(run)
      BY <1>t, <2>1, RecordedAddsUp DEF FiguresInv, BatchAccounting
    <2> QED
      BY <2>1, <2>2 DEF Continues, FiguresInv, BatchAccounting
  <1>5. ASSUME NEW n \in Names, NEW awaited \in BOOLEAN, BotConnect(n, awaited)
        PROVE  FiguresInv'
    BY <1>q, <1>5 DEF BotConnect, batchVars
  <1>6. ASSUME NEW b \in Ids, NEW hash, BotReadyChecked(b, hash)
        PROVE  FiguresInv'
    BY <1>q, <1>6 DEF BotReadyChecked, batchVars
  <1>7. ASSUME NEW b \in Ids, NEW l \in Loadouts, SelectPowerups(b, l)
        PROVE  FiguresInv'
    BY <1>q, <1>7 DEF SelectPowerups, batchVars
  <1>8. ASSUME NEW b \in Ids, BotDisconnect(b)
        PROVE  FiguresInv'
    BY <1>q, <1>d, <1>8 DEF BotDisconnect, batchVars
  <1>9. ASSUME NEW c \in Configs, Configure(c)
        PROVE  FiguresInv'
    BY <1>q, <1>9 DEF Configure, batchVars
  <1>10. ASSUME NEW begin \in TrainingBegin, NEW logOpens \in BOOLEAN, OperatorStart(begin, logOpens)
         PROVE  FiguresInv'
    BY <1>q, <1>10 DEF OperatorStart, batchVars
  <1>11. CASE OperatorAbort
    BY <1>q, <1>d, <1>11 DEF OperatorAbort, batchVars
  <1>12. CASE OperatorReset
    BY <1>l, <1>12 DEF OperatorReset
  <1>13. ASSUME NEW n \in 1..MaxBatch, NEW c \in Configs, NEW logOpens \in BOOLEAN,
                StartMonteCarlo(n, c, logOpens)
         PROVE  FiguresInv'
    <2>1. mc' = [n |-> n, index |-> 0, wins |-> 0, draws |-> 0] /\ mcStatus' = NoStatus
      BY <1>13 DEF StartMonteCarlo
    <2>2. n \in Nat /\ n > 0
      BY RoomAssumption
    <2> QED
      BY <2>1, <2>2 DEF FiguresInv, BatchAccounting, RunAddsUp
  <1>14. ASSUME NEW force \in BOOLEAN, StopMonteCarlo(force)
         PROVE  FiguresInv'
    BY <1>q, <1>d, <1>14 DEF StopMonteCarlo
  <1>15. CASE UNCHANGED vars
    BY <1>q, <1>15 DEF vars, batchVars
  <1> QED
    BY <1>1, <1>2, <1>3, <1>4, <1>5, <1>6, <1>7, <1>8, <1>9, <1>10, <1>11, <1>12, <1>13, <1>14, <1>15
       DEF Next, StepTick, HandleEvent

\* The published figures of a batch add up, for batches of any length
\* (mc_record_match_end, mc_finalize).
THEOREM FiguresAddUp == Spec => []BatchAccounting
  <1>1. Init => FiguresInv
    BY DEF Init, FiguresInv, BatchAccounting
  <1>2. FiguresInv => BatchAccounting
    BY DEF FiguresInv
  <1> QED
    BY <1>1, <1>2, BatchInit, BatchStep, FiguresStep, PTL DEF Spec

-----------------------------------------------------------------------------
(* The room implements MatchLife: a start is Begin, a forfeit Lose, the last    *)
(* tick or an abort End, a chained match EndAndBegin, the way back Return.      *)

LEMMA LifeStep ==
  ASSUME MatchInv, [Next]_vars
  PROVE  [Life!Next]_(Life!vars)
  <1> USE DEF Life!Next, Life!vars
  <1> DEFINE playing == IF state = "Running" THEN roster ELSE {}
             lost == IF state = "Running" THEN gone ELSE {}
  <1>0. CrewInv'
    BY CrewStep DEF MatchInv
  <1>t. roster \subseteq Ids
    BY DEF MatchInv, CrewInv, BatchInv, TypeOK, RosterTyped
  <1>s. ASSUME UNCHANGED <<state, matchVars, logVars>>,
               state = "Running" => UNCHANGED <<roster, gone>>
        PROVE  UNCHANGED Life!vars
    BY <1>s DEF matchVars, logVars
  <1>r. ASSUME NEW t, TransitionToLobby(t), state = "Ended"
        PROVE  Life!Return
    BY <1>r DEF TransitionToLobby, logVars, Life!Return
  <1>b. ASSUME NEW logOpens, ApplyMatchLayout(logOpens), state = "Lobby", roster # {},
               UNCHANGED gameOvers
        PROVE  Life!Begin
    <2>1. gone = {}
      BY <1>b DEF MatchInv, CrewInv, LobbyIsClean
    <2>2. /\ state' = "Running" /\ roster' = roster /\ gone' = gone
          /\ matchId' = matchId + 1 /\ lastWinner' = NoBot
      BY <1>b DEF ApplyMatchLayout, rosterVars
    <2> QED
      BY <1>b, <1>t, <2>1, <2>2 DEF Life!Begin, Life!BeginWith
  <1>e. ASSUME state = "Running", state' = "Ended", gameOvers' = gameOvers + 1,
               lastWinner' \in (roster \ gone) \cup {NoBot}, UNCHANGED matchId
        PROVE  Life!End
    BY <1>e DEF Life!End
  <1>a. ASSUME state = "Running", NEW al, NEW h, NEW gn, NEW log, AbortMatch(al, h, gn, log)
        PROVE  Life!End
    BY <1>a, <1>e DEF AbortMatch, BroadcastGameOver
  <1>1. CASE StepIdle
    BY <1>1, <1>s, <1>r DEF StepIdle
  <1>2. ASSUME NEW dmg \in Damage, NEW shots \in Shots, StepContinue(dmg, shots)
        PROVE  UNCHANGED Life!vars
    BY <1>2, <1>s DEF StepContinue, rosterVars
  <1>3. ASSUME NEW dmg \in Damage, NEW shots \in Shots, StepFinish(dmg, shots)
        PROVE  Life!End
    <2>1. DecidedBy(dmg, shots) \in (roster \ gone) \cup {NoBot}
      BY WinnerAfloat DEF DecidedBy, Afloat, MatchInv, CrewInv, Crews
    <2> QED
      BY <1>3, <1>e, <2>1 DEF StepFinish, BroadcastGameOver
  <1>4. ASSUME NEW dmg \in Damage, NEW shots \in Shots, NEW logOpens \in BOOLEAN,
               StepChain(dmg, shots, logOpens)
        PROVE  Life!EndAndBegin
    <2>1. gone = {}
      BY <1>4 DEF StepChain, MatchInv, CrewInv, Crews
    <2>2. /\ state = "Running" /\ state' = "Running" /\ roster' = roster /\ gone' = gone
          /\ matchId' = matchId + 1 /\ lastWinner' = NoBot /\ gameOvers' = gameOvers + 1
      BY <1>4 DEF StepChain, ApplyMatchLayout, rosterVars
    <2> QED
      BY <2>1, <2>2 DEF Life!EndAndBegin, Life!BeginWith
  <1>8. ASSUME NEW b \in Ids, BotDisconnect(b)
        PROVE  [Life!Next]_(Life!vars)
    <2>1. CASE state # "Running" /\ UNCHANGED <<state, tick, matchVars, logVars>>
      BY <1>s, <2>1
    <2>2. CASE /\ state = "Running" /\ ForfeitBot(b)
               /\ UNCHANGED <<state, matchVars, round, openRounds, replayId, lastLog, gameOvers>>
      <3>1. b \in roster \ gone /\ roster' = roster /\ gone' = gone \cup {b}
        BY <1>8, <2>2 DEF BotDisconnect, ForfeitBot
      <3>2. Life!Lose(b)
        BY <2>2, <3>1 DEF Life!Lose, matchVars
      <3> QED
        BY <3>2
    <2>3. CASE state = "Running" /\ AbortMatch(alive \ {b}, [hp EXCEPT ![b] = 0], gone \cup {b}, Drop(writer, b))
      BY <1>a, <2>3
    <2> QED
      BY <1>8, <2>1, <2>2, <2>3 DEF BotDisconnect
  <1>10. ASSUME NEW begin \in TrainingBegin, NEW logOpens \in BOOLEAN, OperatorStart(begin, logOpens)
         PROVE  [Life!Next]_(Life!vars)
    <2>1. CASE UNCHANGED <<state, tick, rosterVars, shipVars, matchVars, logVars>>
      BY <1>s, <2>1 DEF rosterVars
    <2>2. CASE ApplyMatchLayout(logOpens) /\ UNCHANGED gameOvers
      BY <1>10, <1>b, <2>2 DEF OperatorStart
    <2> QED
      BY <1>10, <2>1, <2>2 DEF OperatorStart
  <1>11. CASE OperatorAbort
    BY <1>11, <1>a, <1>s DEF OperatorAbort, rosterVars
  <1>12. CASE OperatorReset
    BY <1>12, <1>r DEF OperatorReset
  <1>13. ASSUME NEW n \in 1..MaxBatch, NEW c \in Configs, NEW logOpens \in BOOLEAN,
                StartMonteCarlo(n, c, logOpens)
         PROVE  Life!Begin
    <2>1. roster # {}
      <3>1. Cardinality({}) = 0
        BY FS_EmptySet
      <3> QED
        BY <1>13, <3>1 DEF StartMonteCarlo
    <2> QED
      BY <1>13, <1>b, <2>1 DEF StartMonteCarlo
  <1>14. ASSUME NEW force \in BOOLEAN, StopMonteCarlo(force)
         PROVE  [Life!Next]_(Life!vars)
    BY <1>14, <1>a, <1>s DEF StopMonteCarlo, rosterVars
  <1>16. ASSUME \/ \E n \in Names, awaited \in BOOLEAN : BotConnect(n, awaited)
                \/ \E b \in Ids, r \in 1..MaxRevision, c \in Configs : BotReadyChecked(b, <<r, c>>)
                \/ \E b \in Ids, l \in Loadouts : SelectPowerups(b, l)
                \/ \E c \in Configs : Configure(c)
         PROVE  UNCHANGED Life!vars
    BY <1>16, <1>s DEF BotConnect, BotReadyChecked, SelectPowerups, Configure
  <1>17. CASE UNCHANGED vars
    BY <1>17, <1>s DEF vars, rosterVars
  <1> QED
    BY <1>1, <1>2, <1>3, <1>4, <1>8, <1>10, <1>11, <1>12, <1>13, <1>14, <1>16, <1>17
       DEF Next, StepTick, HandleEvent

\* Whatever happens inside it, the room is a MatchLife to its participants.
THEOREM ImplementsMatchLife == Spec => Lifecycle
  <1>1. Init => Life!Init
    BY DEF Init, Life!Init
  <1>2. MatchInv /\ [Next]_vars => [Life!Next]_(Life!vars)
    BY LifeStep
  <1> QED
    BY <1>1, <1>2, MatchInvariance, PTL DEF Spec, Lifecycle, Life!Spec
=============================================================================
