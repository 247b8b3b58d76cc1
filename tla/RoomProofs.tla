---------------------------- MODULE RoomProofs ----------------------------
(***************************************************************************)
(* Theorems about Room, for every value of its constants.                  *)
(***************************************************************************)
EXTENDS Room, FiniteSetTheorems, TLAPS

-----------------------------------------------------------------------------
(* Lemmas about the operators the actions are built from. *)

\* The tables are finite, so the number of starters is a number.
LEMMA RosterCardinality ==
  ASSUME NEW S \in SUBSET Ids
  PROVE  Cardinality(S) \in Nat
  <1>1. MaxIndex \in Int
    BY RoomAssumption
  <1>2. IsFiniteSet(Ids)
    BY <1>1, FS_Interval DEF Ids
  <1> QED
    BY <1>2, FS_Subset, FS_CardinalityType

\* What a step leaves alone keeps its type.
LEMMA UnchangedTyped ==
  ASSUME TypeOK
  PROVE  /\ UNCHANGED rosterVars => RosterTyped'
         /\ UNCHANGED shipVars => ShipsTyped'
         /\ UNCHANGED setupVars => SetupTyped'
         /\ UNCHANGED matchVars => MatchTyped'
         /\ UNCHANGED batchVars => BatchTyped'
         /\ UNCHANGED logVars => LogTyped'
  <1>1. UNCHANGED rosterVars => RosterTyped'
    BY DEF TypeOK, RosterTyped, rosterVars
  <1>2. UNCHANGED shipVars => ShipsTyped'
    BY DEF TypeOK, ShipsTyped, shipVars
  <1>3. UNCHANGED setupVars => SetupTyped'
    BY DEF TypeOK, SetupTyped, setupVars
  <1>4. UNCHANGED matchVars => MatchTyped'
    BY DEF TypeOK, MatchTyped, matchVars
  <1>5. UNCHANGED batchVars => BatchTyped'
    BY DEF TypeOK, BatchTyped, batchVars
  <1>6. UNCHANGED logVars => LogTyped'
    BY DEF TypeOK, LogTyped, logVars
  <1> QED
    BY <1>1, <1>2, <1>3, <1>4, <1>5, <1>6

\* A tick keeps hulls and ammunition in range.
LEMMA SimulationTyped ==
  ASSUME TypeOK, NEW dmg \in Damage, NEW shots \in Shots
  PROVE  /\ HpAfter(dmg) \in [Ids -> 0..HullHp]
         /\ AmmoAfter(shots) \in [Ids -> 0..Magazine]
         /\ Afloat(dmg) \in SUBSET Ids
         /\ PlayedAfter \in [Ids -> Nat]
  <1>1. HpAfter(dmg) \in [Ids -> 0..HullHp]
    BY DEF TypeOK, ShipsTyped, Damage, HpAfter
  <1>2. ASSUME NEW b \in shots PROVE ammo[b] - 1 \in 0..Magazine
    BY RoomAssumption DEF TypeOK, ShipsTyped, Shots
  <1>3. AmmoAfter(shots) \in [Ids -> 0..Magazine]
    BY <1>2 DEF TypeOK, ShipsTyped, AmmoAfter
  <1>4. PlayedAfter \in [Ids -> Nat]
    BY DEF TypeOK, ShipsTyped, PlayedAfter
  <1> QED
    BY <1>1, <1>3, <1>4 DEF TypeOK, ShipsTyped, Afloat

\* A winner is one of the ships afloat, or nobody.
LEMMA WinnerAfloat ==
  ASSUME NEW al, NEW h, NEW am
  PROVE  Winner(al, h, am) \in al \cup {NoBot}
  <1> DEFINE first == IF LastStanding(al) THEN al ELSE Leaders(al, h, am)
  <1>1. first \subseteq al
    BY DEF Leaders
  <1>2. CASE \E b \in first : first = {b}
    <2>1. (CHOOSE b \in first : TRUE) \in first
      BY <1>2
    <2> QED
      BY <2>1, <1>1, <1>2 DEF Winner
  <1>3. CASE ~\E b \in first : first = {b}
    BY <1>3 DEF Winner
  <1> QED
    BY <1>2, <1>3

\* Restoring the operator's settings keeps the types.
LEMMA RestoreTyped ==
  ASSUME TypeOK, RestoreAfterMonteCarlo
  PROVE  /\ seed' \in Seeds /\ config' \in Configs
         /\ mcStop' \in BOOLEAN /\ mcSaved' \in {NoSave} \cup Saves
  BY DEF TypeOK, SetupTyped, BatchTyped, Saves, RestoreAfterMonteCarlo

\* Dropping a batch keeps the types.
LEMMA DropRunTyped ==
  ASSUME TypeOK, NEW run, NEW why, DropRun(run, why), UNCHANGED <<revision, configured>>
  PROVE  SetupTyped' /\ BatchTyped'
  BY RestoreTyped DEF TypeOK, SetupTyped, BatchTyped, DropRun

\* So does carrying on without one.
LEMMA NoBatchTyped ==
  ASSUME TypeOK, UNCHANGED <<batchVars, config, seed>>, UNCHANGED <<revision, configured>>
  PROVE  SetupTyped' /\ BatchTyped'
  <1>1. UNCHANGED setupVars /\ UNCHANGED batchVars
    BY DEF setupVars, batchVars
  <1> QED
    BY <1>1, UnchangedTyped

LEMMA RecordedTyped ==
  ASSUME TypeOK, mc # NoRun, NEW w
  PROVE  Recorded(mc, w) \in Runs
  <1>1. mc \in Runs
    BY DEF TypeOK, BatchTyped
  <1>2. ASSUME NEW i \in Nat, NEW x \in Nat, NEW y \in Nat
        PROVE  [mc EXCEPT !.index = i, !.wins = x, !.draws = y] \in Runs
    BY <1>1 DEF Runs
  <1>3. /\ mc.index + 1 \in Nat
        /\ (IF w # NoBot THEN mc.wins + 1 ELSE mc.wins) \in Nat
        /\ (IF w = NoBot THEN mc.draws + 1 ELSE mc.draws) \in Nat
    BY <1>1 DEF Runs
  <1> QED
    BY <1>2, <1>3 DEF Recorded

\* A started match: the roster stays, ships, match and log keep their types.
LEMMA LayoutTyped ==
  ASSUME TypeOK, NEW logOpens \in BOOLEAN, ApplyMatchLayout(logOpens),
         seed' \in Seeds, config' \in Configs
  PROVE  /\ state' = "Running" /\ tick' \in Nat
         /\ RosterTyped' /\ ShipsTyped' /\ MatchTyped'
         /\ matchId' \in Nat /\ replayId' \in Nat /\ writer' \in {NoLog} \cup Logs
  <1>1. RosterTyped'
    <2>1. UNCHANGED rosterVars
      BY DEF ApplyMatchLayout
    <2> QED
      BY <2>1, UnchangedTyped
  <1>2. ShipsTyped'
    <2>1. /\ hp' \in [Ids -> 0..HullHp] /\ ammo' \in [Ids -> 0..Magazine]
          /\ fitted' \in [Ids -> Loadouts] /\ played' \in [Ids -> Nat]
      BY RoomAssumption DEF TypeOK, RosterTyped, ShipsTyped, ApplyMatchLayout
    <2>2. ships' \subseteq Ids /\ alive' \subseteq Ids
      BY DEF TypeOK, RosterTyped, ShipsTyped, ApplyMatchLayout
    <2> QED
      BY <2>1, <2>2 DEF ShipsTyped
  <1>3. MatchTyped' /\ matchId' \in Nat
    <2>1. matchId' \in Nat /\ startCount' \in Nat
      BY RosterCardinality DEF TypeOK, RosterTyped, MatchTyped, ApplyMatchLayout
    <2> QED
      BY <2>1 DEF TypeOK, RosterTyped, MatchTyped, ApplyMatchLayout
  <1>4. replayId' \in Nat
    BY <1>3 DEF TypeOK, LogTyped, ApplyMatchLayout
  <1>5. writer' \in {NoLog} \cup Logs
    BY <1>3 DEF TypeOK, RosterTyped, ApplyMatchLayout, Header, Logs
  <1>6. state' = "Running" /\ tick' \in Nat
    BY DEF ApplyMatchLayout
  <1> QED
    BY <1>1, <1>2, <1>3, <1>4, <1>5, <1>6

\* The end of a match keeps the types of what it writes.
LEMMA GameOverTyped ==
  ASSUME TypeOK, NEW rep, NEW log, BroadcastGameOver(rep, log)
  PROVE  openRounds' \subseteq Nat /\ gameOvers' \in Nat
  <1>1. openRounds' \subseteq openRounds
    BY DEF BroadcastGameOver, FinishRound
  <1>2. gameOvers' = gameOvers + 1
    BY DEF BroadcastGameOver
  <1> QED
    BY <1>1, <1>2 DEF TypeOK, LogTyped

LEMMA AbortTyped ==
  ASSUME TypeOK, NEW al, NEW h, NEW gn, NEW log, AbortMatch(al, h, gn, log)
  PROVE  state' = "Ended" /\ tick' \in Nat /\ MatchTyped' /\ LogTyped'
  <1>1. BroadcastGameOver(BuildReport(NoBot, TRUE, al, h, ammo, gn, tick), log)
    BY DEF AbortMatch
  <1>2. openRounds' \subseteq Nat /\ gameOvers' \in Nat
    BY <1>1, GameOverTyped
  <1>3. LogTyped'
    BY <1>2 DEF TypeOK, LogTyped, AbortMatch
  <1>4. MatchTyped'
    BY DEF TypeOK, MatchTyped, AbortMatch
  <1> QED
    BY <1>3, <1>4 DEF AbortMatch, TypeOK

\* The return to the lobby.
LEMMA LobbyTyped ==
  ASSUME TypeOK, NEW t \in Nat, TransitionToLobby(t)
  PROVE  TypeOK'
  <1>1. SetupTyped' /\ BatchTyped'
    BY RestoreTyped DEF TransitionToLobby, TypeOK, SetupTyped, BatchTyped
  <1>2. RosterTyped'
    <2>1. /\ selected' \in [Ids -> Loadouts] /\ name' \in [Ids -> Names \cup {NoName}]
          /\ acked' \in [Ids -> Nat \X Configs]
      BY RoomAssumption DEF TypeOK, RosterTyped, TransitionToLobby, Unanswered
    <2> QED
      BY <2>1 DEF TypeOK, RosterTyped, TransitionToLobby, Remaining
  <1>3. ShipsTyped'
    <2>1. /\ hp' \in [Ids -> 0..HullHp] /\ ammo' \in [Ids -> 0..Magazine]
          /\ fitted' \in [Ids -> Loadouts] /\ played' \in [Ids -> Nat]
      BY RoomAssumption DEF TypeOK, ShipsTyped, TransitionToLobby
    <2>2. ships' \subseteq Ids /\ alive' \subseteq Ids
      BY DEF TypeOK, ShipsTyped, RosterTyped, TransitionToLobby, Remaining
    <2> QED
      BY <2>1, <2>2 DEF ShipsTyped
  <1>4. MatchTyped'
    BY DEF TypeOK, MatchTyped, TransitionToLobby
  <1>5. LogTyped'
    <2>1. UNCHANGED logVars
      BY DEF TransitionToLobby
    <2> QED
      BY <2>1, UnchangedTyped
  <1> QED
    BY <1>1, <1>2, <1>3, <1>4, <1>5 DEF TypeOK, TransitionToLobby

\* Dropping a bot, by removal or by forfeit.
LEMMA RemovalTyped ==
  ASSUME TypeOK, NEW b \in Ids, RemoveBotAndShip(b)
  PROVE  RosterTyped' /\ ShipsTyped'
  <1>1. RosterTyped'
    BY RoomAssumption DEF TypeOK, RosterTyped, RemoveBotAndShip, Unanswered
  <1>2. hp' \in [Ids -> 0..HullHp] /\ ammo' \in [Ids -> 0..Magazine]
    BY RoomAssumption DEF TypeOK, ShipsTyped, RemoveBotAndShip
  <1>3. ships' \subseteq Ids /\ alive' \subseteq Ids /\ fitted' \in [Ids -> Loadouts]
        /\ played' \in [Ids -> Nat]
    BY RoomAssumption DEF TypeOK, ShipsTyped, RemoveBotAndShip
  <1> QED
    BY <1>1, <1>2, <1>3 DEF ShipsTyped

LEMMA ForfeitTyped ==
  ASSUME TypeOK, NEW b \in Ids, ForfeitBot(b)
  PROVE  RosterTyped' /\ ShipsTyped'
  <1>1. RosterTyped'
    BY RoomAssumption DEF TypeOK, RosterTyped, ForfeitBot, Unanswered
  <1>2. hp' \in [Ids -> 0..HullHp]
    BY RoomAssumption DEF TypeOK, ShipsTyped, ForfeitBot
  <1> QED
    BY <1>1, <1>2 DEF TypeOK, ShipsTyped, ForfeitBot

\* The log of a running match grows by one forfeit.
LEMMA DropTyped ==
  ASSUME TypeOK, NEW b \in Ids
  PROVE  Drop(writer, b) \in {NoLog} \cup Logs
  <1>1. CASE writer = NoLog
    BY <1>1 DEF Drop
  <1>2. CASE writer # NoLog
    <2>1. writer \in Logs /\ Append(writer.drops, [bot |-> b, tick |-> tick]) \in Seq(Drops)
      BY <1>2 DEF TypeOK, LogTyped, Logs, Drops
    <2> QED
      BY <1>2, <2>1 DEF Drop, Logs
  <1> QED
    BY <1>1, <1>2

-----------------------------------------------------------------------------
(* Type correctness. *)

LEMMA TypeInit == Init => TypeOK
  <1> SUFFICES ASSUME Init PROVE TypeOK
    OBVIOUS
  <1>1. RosterTyped
    BY RoomAssumption DEF Init, RosterTyped, Unanswered
  <1>2. ShipsTyped
    BY RoomAssumption DEF Init, ShipsTyped
  <1>3. SetupTyped /\ MatchTyped
    BY RoomAssumption DEF Init, SetupTyped, MatchTyped, Seeds, OperatorSeed
  <1>4. BatchTyped /\ LogTyped
    BY DEF Init, BatchTyped, LogTyped, NoRound
  <1> QED
    BY <1>1, <1>2, <1>3, <1>4 DEF Init, TypeOK

LEMMA TypeStep == TypeOK /\ [Next]_vars => TypeOK'
  <1> SUFFICES ASSUME TypeOK, [Next]_vars PROVE TypeOK'
    OBVIOUS
  <1>1. CASE StepIdle
    <2>1. CASE TransitionToLobby(1)
      BY <2>1, LobbyTyped
    <2>2. CASE /\ tick' = IF tick < IdleBound THEN tick + 1 ELSE tick
               /\ UNCHANGED <<state, rosterVars, shipVars, setupVars, matchVars, batchVars, logVars>>
      <3>1. state' \in {"Lobby", "Running", "Ended"} /\ tick' \in Nat
        BY <2>2 DEF TypeOK
      <3> QED
        BY <2>2, <3>1, UnchangedTyped DEF TypeOK
    <2> QED
      BY <1>1, <2>1, <2>2 DEF StepIdle
  <1>2. ASSUME NEW dmg \in Damage, NEW shots \in Shots, StepContinue(dmg, shots)
        PROVE  TypeOK'
    <2>1. ShipsTyped'
      BY <1>2, SimulationTyped DEF StepContinue, TypeOK, ShipsTyped
    <2>2. UNCHANGED <<state, rosterVars, setupVars, matchVars, batchVars, logVars>> /\ tick' \in Nat
      BY <1>2 DEF StepContinue, TypeOK
    <2> QED
      BY <2>1, <2>2, UnchangedTyped DEF TypeOK
  <1>3. ASSUME NEW dmg \in Damage, NEW shots \in Shots, StepFinish(dmg, shots)
        PROVE  TypeOK'
    <2>1. openRounds' \subseteq Nat /\ gameOvers' \in Nat
      <3>1. BroadcastGameOver(FinalReport(dmg, shots), writer)
        BY <1>3 DEF StepFinish
      <3> QED
        BY <3>1, GameOverTyped
    <2>2. lastWinner' \in Ids \cup {NoBot}
      BY <1>3, SimulationTyped, WinnerAfloat DEF StepFinish, DecidedBy
    <2>3. SetupTyped' /\ BatchTyped'
      BY <1>3, NoBatchTyped, DropRunTyped DEF StepFinish
    <2>4. ShipsTyped'
      BY <1>3, SimulationTyped DEF StepFinish, TypeOK, ShipsTyped
    <2>5. MatchTyped'
      BY <1>3, <2>2 DEF StepFinish, TypeOK, MatchTyped
    <2>6. LogTyped'
      BY <1>3, <2>1 DEF StepFinish, TypeOK, LogTyped
    <2>7. UNCHANGED rosterVars /\ state' = "Ended" /\ tick' \in Nat
      BY <1>3 DEF StepFinish, TypeOK
    <2> QED
      BY <2>3, <2>4, <2>5, <2>6, <2>7, UnchangedTyped DEF TypeOK
  <1>4. ASSUME NEW dmg \in Damage, NEW shots \in Shots, NEW logOpens \in BOOLEAN,
               StepChain(dmg, shots, logOpens)
        PROVE  TypeOK'
    <2>1. mc' \in Runs /\ UNCHANGED <<config, revision, configured, mcStop, mcSaved>>
      BY <1>4, RecordedTyped DEF StepChain
    <2>2. SetupTyped'
      <3>1. mc'.index \in Nat /\ seed' = BatchSeed(mc'.index)
        BY <1>4, <2>1 DEF StepChain, Runs
      <3> QED
        BY <2>1, <3>1 DEF TypeOK, SetupTyped, Seeds, BatchSeed
    <2>3. BatchTyped'
      BY <2>1 DEF TypeOK, BatchTyped
    <2>4. /\ state' = "Running" /\ tick' \in Nat
          /\ RosterTyped' /\ ShipsTyped' /\ MatchTyped'
          /\ replayId' \in Nat /\ writer' \in {NoLog} \cup Logs
      <3>1. ApplyMatchLayout(logOpens) /\ seed' \in Seeds /\ config' \in Configs
        BY <1>4, <2>2 DEF StepChain, SetupTyped
      <3> QED
        BY <3>1, LayoutTyped
    <2>5. openRounds' \subseteq openRounds
      BY <1>4 DEF StepChain, FinishRound
    <2>6. LogTyped'
      BY <1>4, <2>4, <2>5 DEF StepChain, TypeOK, LogTyped, NoRound
    <2> QED
      BY <2>2, <2>3, <2>4, <2>6 DEF TypeOK
  <1>5. ASSUME NEW n \in Names, NEW awaited \in BOOLEAN, BotConnect(n, awaited)
        PROVE  TypeOK'
    <2>1. nextIndex \in Ids /\ nextIndex' \in Nat \ {0}
      BY <1>5, RoomAssumption DEF BotConnect, TypeOK, RosterTyped, Ids
    <2>2. /\ state' = state /\ tick' = tick
          /\ UNCHANGED <<setupVars, matchVars, batchVars, logVars>>
      BY <1>5 DEF BotConnect
    <2>3. CASE awaited
      <3>1. /\ roster' = roster \cup {nextIndex} /\ ships' = ships \cup {nextIndex}
            /\ name' = [name EXCEPT ![nextIndex] = n] /\ alive' = alive \cup {nextIndex}
            /\ hp' = [hp EXCEPT ![nextIndex] = HullHp]
            /\ ammo' = [ammo EXCEPT ![nextIndex] = Magazine]
            /\ UNCHANGED <<gone, ready, acked, selected, fitted, played>>
        BY <1>5, <2>3 DEF BotConnect
      <3>2. RosterTyped'
        BY <2>1, <3>1 DEF TypeOK, RosterTyped
      <3>3. ShipsTyped'
        BY <2>1, <3>1, RoomAssumption DEF TypeOK, ShipsTyped
      <3> QED
        BY <2>2, <3>2, <3>3, UnchangedTyped DEF TypeOK
    <2>4. CASE ~awaited
      <3>1. UNCHANGED <<roster, ships, name, alive, hp, ammo, gone, ready, acked, selected, fitted, played>>
        BY <1>5, <2>4 DEF BotConnect
      <3>2. RosterTyped' /\ ShipsTyped'
        BY <2>1, <3>1 DEF TypeOK, RosterTyped, ShipsTyped
      <3> QED
        BY <2>2, <3>2, UnchangedTyped DEF TypeOK
    <2> QED
      BY <2>3, <2>4
  <1>6. ASSUME NEW b \in Ids, NEW r \in 1..MaxRevision, NEW c \in Configs,
               BotReadyChecked(b, <<r, c>>)
        PROVE  TypeOK'
    <2>1. <<r, c>> \in Nat \X Configs
      BY RoomAssumption
    <2>2. RosterTyped'
      BY <1>6, <2>1 DEF BotReadyChecked, TypeOK, RosterTyped
    <2> QED
      BY <1>6, <2>2, UnchangedTyped DEF BotReadyChecked, TypeOK
  <1>7. ASSUME NEW b \in Ids, NEW l \in Loadouts, SelectPowerups(b, l)
        PROVE  TypeOK'
    <2>1. RosterTyped'
      BY <1>7 DEF SelectPowerups, TypeOK, RosterTyped
    <2> QED
      BY <1>7, <2>1, UnchangedTyped DEF SelectPowerups, TypeOK
  <1>8. ASSUME NEW b \in Ids, BotDisconnect(b)
        PROVE  TypeOK'
    <2>1. RosterTyped' /\ ShipsTyped'
      BY <1>8, RemovalTyped, ForfeitTyped DEF BotDisconnect
    <2>2. SetupTyped' /\ BatchTyped'
      <3>1. UNCHANGED <<revision, configured>>
        BY <1>8 DEF BotDisconnect
      <3>2. CASE DropRun(mc, "bot_disconnected")
        BY <3>1, <3>2, DropRunTyped
      <3>3. CASE UNCHANGED <<batchVars, config, seed>>
        BY <3>1, <3>3, NoBatchTyped
      <3> QED
        BY <1>8, <3>2, <3>3 DEF BotDisconnect
    <2>3. state' \in {"Lobby", "Running", "Ended"} /\ tick' \in Nat /\ MatchTyped' /\ LogTyped'
      <3>1. CASE UNCHANGED <<state, tick, matchVars, logVars>>
        BY <3>1, UnchangedTyped DEF TypeOK
      <3>2. CASE /\ writer' = Drop(writer, b)
                 /\ UNCHANGED <<state, tick, matchVars, round, openRounds, replayId, lastLog, gameOvers>>
        BY <3>2, DropTyped, UnchangedTyped DEF TypeOK, LogTyped
      <3>3. CASE AbortMatch(alive \ {b}, [hp EXCEPT ![b] = 0], gone \cup {b}, Drop(writer, b))
        BY <3>3, AbortTyped
      <3> QED
        BY <1>8, <3>1, <3>2, <3>3 DEF BotDisconnect
    <2> QED
      BY <2>1, <2>2, <2>3 DEF TypeOK
  <1>9. ASSUME NEW c \in Configs, Configure(c)
        PROVE  TypeOK'
    <2>1. RosterTyped' /\ SetupTyped'
      BY <1>9, RoomAssumption DEF Configure, TypeOK, RosterTyped, SetupTyped, Unanswered
    <2> QED
      BY <1>9, <2>1, UnchangedTyped DEF Configure, TypeOK
  <1>10. ASSUME NEW begin \in TrainingBegin, NEW logOpens \in BOOLEAN, OperatorStart(begin, logOpens)
         PROVE  TypeOK'
    <2>1. SetupTyped'
      BY <1>10 DEF OperatorStart, TypeOK, SetupTyped, Seeds, FreshSeed
    <2>2. BatchTyped'
      BY <1>10, UnchangedTyped DEF OperatorStart
    <2>3. CASE UNCHANGED <<state, tick, rosterVars, shipVars, matchVars, logVars>>
      BY <2>1, <2>2, <2>3, UnchangedTyped DEF TypeOK
    <2>4. CASE /\ ApplyMatchLayout(logOpens)
               /\ round' = IF begin = "tagged" THEN matchId' ELSE NoRound
               /\ openRounds' = IF begin = "tagged" THEN openRounds \cup {matchId'} ELSE openRounds
               /\ UNCHANGED gameOvers
      <3>1. /\ state' = "Running" /\ tick' \in Nat
            /\ RosterTyped' /\ ShipsTyped' /\ MatchTyped'
            /\ matchId' \in Nat /\ replayId' \in Nat /\ writer' \in {NoLog} \cup Logs
        BY <2>1, <2>4, LayoutTyped DEF SetupTyped
      <3>2. LogTyped'
        BY <2>4, <3>1 DEF TypeOK, LogTyped, NoRound
      <3> QED
        BY <2>1, <2>2, <3>1, <3>2 DEF TypeOK
    <2> QED
      BY <1>10, <2>3, <2>4 DEF OperatorStart
  <1>11. ASSUME OperatorAbort
         PROVE  TypeOK'
    <2>1. UNCHANGED <<rosterVars, shipVars, revision, configured>>
      BY <1>11 DEF OperatorAbort
    <2>2. SetupTyped' /\ BatchTyped'
      BY <1>11, <2>1, NoBatchTyped, DropRunTyped DEF OperatorAbort
    <2>3. state' \in {"Lobby", "Running", "Ended"} /\ tick' \in Nat /\ MatchTyped' /\ LogTyped'
      BY <1>11, AbortTyped, UnchangedTyped DEF OperatorAbort, TypeOK
    <2> QED
      BY <2>1, <2>2, <2>3, UnchangedTyped DEF TypeOK
  <1>12. ASSUME OperatorReset
         PROVE  TypeOK'
    BY <1>12, LobbyTyped DEF OperatorReset
  <1>13. ASSUME NEW n \in 1..MaxBatch, NEW c \in Configs, NEW logOpens \in BOOLEAN,
                StartMonteCarlo(n, c, logOpens)
         PROVE  TypeOK'
    <2>1. SetupTyped'
      BY <1>13 DEF StartMonteCarlo, TypeOK, SetupTyped, Seeds, BatchSeed
    <2>2. BatchTyped'
      <3>1. mc' \in Runs
        BY <1>13, RoomAssumption DEF StartMonteCarlo, Runs
      <3>2. mcSaved' \in Saves /\ mcStop' \in BOOLEAN
        BY <1>13 DEF StartMonteCarlo, TypeOK, SetupTyped, Saves
      <3> QED
        BY <3>1, <3>2 DEF BatchTyped
    <2>3. /\ ApplyMatchLayout(logOpens) /\ round' \in Nat
          /\ UNCHANGED <<openRounds, gameOvers>>
      BY <1>13 DEF StartMonteCarlo, NoRound
    <2>4. /\ state' = "Running" /\ tick' \in Nat
          /\ RosterTyped' /\ ShipsTyped' /\ MatchTyped'
          /\ replayId' \in Nat /\ writer' \in {NoLog} \cup Logs
      BY <2>1, <2>3, LayoutTyped DEF SetupTyped
    <2>5. LogTyped'
      BY <2>3, <2>4 DEF TypeOK, LogTyped
    <2> QED
      BY <2>1, <2>2, <2>4, <2>5 DEF TypeOK
  <1>14. ASSUME NEW force \in BOOLEAN, StopMonteCarlo(force)
         PROVE  TypeOK'
    <2>1. UNCHANGED <<rosterVars, shipVars, revision, configured>>
      BY <1>14 DEF StopMonteCarlo
    <2>2. CASE /\ mcStop' = TRUE
               /\ UNCHANGED <<state, tick, mc, mcSaved, mcStatus, config, seed, matchVars, logVars>>
      <3>1. SetupTyped' /\ BatchTyped'
        BY <2>1, <2>2 DEF TypeOK, SetupTyped, BatchTyped
      <3> QED
        BY <2>1, <2>2, <3>1, UnchangedTyped DEF TypeOK
    <2>3. CASE AbortMatch(alive, hp, gone, writer) /\ DropRun(mc, "stopped")
      BY <2>1, <2>3, AbortTyped, DropRunTyped, UnchangedTyped DEF TypeOK
    <2>4. CASE UNCHANGED <<state, tick, matchVars, logVars>> /\ DropRun(mc, "stopped")
      BY <2>1, <2>4, DropRunTyped, UnchangedTyped DEF TypeOK
    <2> QED
      BY <1>14, <2>2, <2>3, <2>4 DEF StopMonteCarlo
  <1>15. CASE UNCHANGED vars
    BY <1>15, UnchangedTyped DEF TypeOK, vars
  <1> QED
    BY <1>1, <1>2, <1>3, <1>4, <1>5, <1>6, <1>7, <1>8, <1>9, <1>10, <1>11, <1>12, <1>13, <1>14, <1>15
       DEF Next, StepTick, HandleEvent

\* Every variable of the room keeps its type, whatever the order of ticks and events.
THEOREM TypeCorrect == Spec => []TypeOK
  BY TypeInit, TypeStep, PTL DEF Spec

-----------------------------------------------------------------------------
(* The batch controller.  That the operator's settings are in force outside a  *)
(* batch is not inductive by itself: a stale saved copy would be put back on   *)
(* the next return to the lobby, and a batch that outlived its match would be  *)
(* dropped there.  BatchInv adds that neither exists.                          *)

BatchInv ==
  /\ TypeOK
  /\ BatchOnlyWhileRunning
  /\ OperatorSettingsRestored
  /\ mc = NoRun => mcSaved = NoSave
  /\ mc # NoRun => ~Tournament

\* Dropping the batch puts the operator's settings back, whatever became of the match.
LEMMA DropRunRestores ==
  ASSUME BatchInv, mc # NoRun, NEW run, NEW why, DropRun(run, why), UNCHANGED configured
  PROVE  mc' = NoRun /\ mcSaved' = NoSave /\ OperatorSettingsRestored'
  <1>1. /\ mcSaved = [saved |-> TRUE, seed |-> OperatorSeed, config |-> configured]
        /\ mcSaved # NoSave
    BY DEF BatchInv, OperatorSettingsRestored, NoSave
  <1>2. seed' = OperatorSeed /\ config' = configured
    BY <1>1 DEF DropRun, RestoreAfterMonteCarlo
  <1> QED
    BY <1>2 DEF OperatorSettingsRestored, DropRun, RestoreAfterMonteCarlo

\* A run record is not the absence of one.
LEMMA RunIsNotNoRun == ASSUME NEW run \in Runs PROVE run # NoRun
  BY DEF Runs, NoRun

LEMMA LobbyKeepsBatchInv ==
  ASSUME BatchInv, state # "Running", NEW t \in Nat, TransitionToLobby(t)
  PROVE  BatchInv'
  <1>1. TypeOK'
    BY LobbyTyped DEF BatchInv
  <1>2. mc = NoRun /\ mcSaved = NoSave
    BY DEF BatchInv, BatchOnlyWhileRunning
  <1>3. UNCHANGED <<seed, config, configured>> /\ mc' = NoRun /\ mcSaved' = NoSave /\ ~mcStop'
    BY <1>2 DEF TransitionToLobby, RestoreAfterMonteCarlo
  <1> QED
    BY <1>1, <1>2, <1>3 DEF BatchInv, BatchOnlyWhileRunning, OperatorSettingsRestored

\* A step that leaves the batch and the settings alone, and does not leave a batch
\* behind, keeps the invariant.
LEMMA NoBatchStep ==
  ASSUME BatchInv, TypeOK', UNCHANGED <<mc, mcStop, mcSaved, config, seed, configured>>,
         mc = NoRun \/ state' = "Running"
  PROVE  BatchInv'
  BY DEF BatchInv, BatchOnlyWhileRunning, OperatorSettingsRestored

LEMMA DropRunStep ==
  ASSUME BatchInv, TypeOK', mc # NoRun, NEW run, NEW why, DropRun(run, why), UNCHANGED configured
  PROVE  BatchInv'
  BY DropRunRestores DEF BatchInv, BatchOnlyWhileRunning

LEMMA BatchInit == Init => BatchInv
  BY TypeInit DEF Init, BatchInv, BatchOnlyWhileRunning, OperatorSettingsRestored

LEMMA BatchStep == BatchInv /\ [Next]_vars => BatchInv'
  <1> SUFFICES ASSUME BatchInv, [Next]_vars PROVE BatchInv'
    OBVIOUS
  <1>0. TypeOK'
    BY TypeStep DEF BatchInv
  <1>1. CASE StepIdle
    <2>1. CASE TransitionToLobby(1)
      BY <1>1, <2>1, LobbyKeepsBatchInv DEF StepIdle
    <2>2. CASE ~TransitionToLobby(1)
      BY <1>0, <1>1, <2>2, NoBatchStep
         DEF StepIdle, setupVars, batchVars, BatchInv, BatchOnlyWhileRunning
    <2> QED
      BY <2>1, <2>2
  <1>2. ASSUME NEW dmg \in Damage, NEW shots \in Shots, StepContinue(dmg, shots)
        PROVE  BatchInv'
    BY <1>0, <1>2, NoBatchStep DEF StepContinue, setupVars, batchVars
  <1>3. ASSUME NEW dmg \in Damage, NEW shots \in Shots, StepFinish(dmg, shots)
        PROVE  BatchInv'
    <2>1. UNCHANGED configured
      BY <1>3 DEF StepFinish
    <2>2. CASE mc = NoRun
      <3>1. UNCHANGED <<batchVars, config, seed>>
        BY <1>3, <2>2 DEF StepFinish
      <3> QED
        BY <1>0, <2>1, <2>2, <3>1, NoBatchStep DEF batchVars
    <2>3. CASE mc # NoRun
      <3> DEFINE run == Recorded(mc, DecidedBy(dmg, shots))
      <3>1. DropRun(run, EndedBecause(run))
        BY <1>3, <2>3 DEF StepFinish
      <3> QED
        BY <1>0, <2>1, <2>3, <3>1, DropRunStep
    <2> QED
      BY <2>2, <2>3
  <1>4. ASSUME NEW dmg \in Damage, NEW shots \in Shots, NEW logOpens \in BOOLEAN,
               StepChain(dmg, shots, logOpens)
        PROVE  BatchInv'
    <2>1. mc # NoRun /\ mc' \in Runs /\ seed' = BatchSeed(mc'.index) /\ state' = "Running"
      BY <1>4, RecordedTyped DEF StepChain, ApplyMatchLayout, BatchInv
    <2>2. UNCHANGED <<configured, mcSaved>> /\ mc' # NoRun
      BY <1>4, <2>1, RunIsNotNoRun DEF StepChain
    <2> QED
      BY <1>0, <2>1, <2>2 DEF BatchInv, BatchOnlyWhileRunning, OperatorSettingsRestored
  <1>5. ASSUME NEW n \in Names, NEW awaited \in BOOLEAN, BotConnect(n, awaited)
        PROVE  BatchInv'
    BY <1>0, <1>5, NoBatchStep DEF BotConnect, setupVars, batchVars, BatchInv, BatchOnlyWhileRunning
  <1>6. ASSUME NEW b \in Ids, NEW hash, BotReadyChecked(b, hash)
        PROVE  BatchInv'
    BY <1>0, <1>6, NoBatchStep DEF BotReadyChecked, setupVars, batchVars, BatchInv, BatchOnlyWhileRunning
  <1>7. ASSUME NEW b \in Ids, NEW l \in Loadouts, SelectPowerups(b, l)
        PROVE  BatchInv'
    BY <1>0, <1>7, NoBatchStep DEF SelectPowerups, setupVars, batchVars, BatchInv, BatchOnlyWhileRunning
  <1>8. ASSUME NEW b \in Ids, BotDisconnect(b)
        PROVE  BatchInv'
    <2>1. UNCHANGED configured
      BY <1>8 DEF BotDisconnect
    <2>2. CASE mc = NoRun
      <3>1. UNCHANGED <<batchVars, config, seed>>
        BY <1>8, <2>2 DEF BotDisconnect, batchVars
      <3> QED
        BY <1>0, <2>1, <2>2, <3>1, NoBatchStep DEF batchVars
    <2>3. CASE mc # NoRun
      <3>1. DropRun(mc, "bot_disconnected")
        BY <1>8, <2>3 DEF BotDisconnect
      <3> QED
        BY <1>0, <2>1, <2>3, <3>1, DropRunStep
    <2> QED
      BY <2>2, <2>3
  <1>9. ASSUME NEW c \in Configs, Configure(c)
        PROVE  BatchInv'
    <2>1. mc = NoRun /\ UNCHANGED batchVars /\ config' = configured' /\ seed' = seed
      BY <1>9 DEF Configure, BatchInv, BatchOnlyWhileRunning
    <2> QED
      BY <1>0, <2>1 DEF batchVars, BatchInv, BatchOnlyWhileRunning, OperatorSettingsRestored
  <1>10. ASSUME NEW begin \in TrainingBegin, NEW logOpens \in BOOLEAN, OperatorStart(begin, logOpens)
         PROVE  BatchInv'
    <2>1. mc = NoRun /\ UNCHANGED <<config, configured, batchVars>> /\ (seed' = seed \/ Tournament)
      BY <1>10 DEF OperatorStart, BatchInv, BatchOnlyWhileRunning
    <2> QED
      BY <1>0, <2>1 DEF batchVars, BatchInv, BatchOnlyWhileRunning, OperatorSettingsRestored
  <1>11. ASSUME OperatorAbort
         PROVE  BatchInv'
    <2>1. UNCHANGED configured
      BY <1>11 DEF OperatorAbort
    <2>2. CASE mc = NoRun
      BY <1>0, <1>11, <2>1, <2>2, NoBatchStep DEF OperatorAbort, batchVars
    <2>3. CASE mc # NoRun
      BY <1>0, <1>11, <2>1, <2>3, DropRunStep DEF OperatorAbort
    <2> QED
      BY <2>2, <2>3
  <1>12. ASSUME OperatorReset
         PROVE  BatchInv'
    BY <1>12, LobbyKeepsBatchInv DEF OperatorReset
  <1>13. ASSUME NEW n \in 1..MaxBatch, NEW c \in Configs, NEW logOpens \in BOOLEAN,
                StartMonteCarlo(n, c, logOpens)
         PROVE  BatchInv'
    <2>1. /\ state = "Lobby" /\ mc = NoRun /\ ~Tournament
          /\ seed' = BatchSeed(0) /\ mc'.index = 0 /\ mc' \in Runs
          /\ mcSaved' = [saved |-> TRUE, seed |-> seed, config |-> config]
          /\ UNCHANGED configured /\ state' = "Running"
      BY <1>13, RoomAssumption DEF StartMonteCarlo, ApplyMatchLayout, Runs
    <2>2. seed = OperatorSeed /\ config = configured
      BY <2>1 DEF BatchInv, OperatorSettingsRestored
    <2>3. mc' # NoRun
      BY <2>1, RunIsNotNoRun
    <2> QED
      BY <1>0, <2>1, <2>2, <2>3 DEF BatchInv, BatchOnlyWhileRunning, OperatorSettingsRestored
  <1>14. ASSUME NEW force \in BOOLEAN, StopMonteCarlo(force)
         PROVE  BatchInv'
    <2>1. UNCHANGED configured /\ mc # NoRun
      BY <1>14 DEF StopMonteCarlo
    <2>2. CASE /\ mcStop' = TRUE
               /\ UNCHANGED <<state, tick, mc, mcSaved, mcStatus, config, seed, matchVars, logVars>>
      BY <1>0, <2>1, <2>2 DEF BatchInv, BatchOnlyWhileRunning, OperatorSettingsRestored
    <2>3. CASE DropRun(mc, "stopped")
      BY <1>0, <2>1, <2>3, DropRunStep
    <2> QED
      BY <1>14, <2>2, <2>3 DEF StopMonteCarlo
  <1>15. CASE UNCHANGED vars
    BY <1>0, <1>15, NoBatchStep DEF vars, setupVars, batchVars, BatchInv, BatchOnlyWhileRunning
  <1> QED
    BY <1>1, <1>2, <1>3, <1>4, <1>5, <1>6, <1>7, <1>8, <1>9, <1>10, <1>11, <1>12, <1>13, <1>14, <1>15
       DEF Next, StepTick, HandleEvent

\* A batch never outlives its match: whatever ended it (the last match, a stop, an
\* abort, a lost bot), the room that reaches Ended or the lobby holds no batch.
THEOREM BatchBounded == Spec => []BatchOnlyWhileRunning
  <1>1. BatchInv => BatchOnlyWhileRunning
    BY DEF BatchInv
  <1> QED
    BY <1>1, BatchInit, BatchStep, PTL DEF Spec

\* Outside a batch the operator's parameters and seed are in force; within one they
\* are kept aside and the seed is the one the current match is filed under.
THEOREM SettingsRestored == Spec => []OperatorSettingsRestored
  <1>1. BatchInv => OperatorSettingsRestored
    BY DEF BatchInv
  <1> QED
    BY <1>1, BatchInit, BatchStep, PTL DEF Spec
=============================================================================
