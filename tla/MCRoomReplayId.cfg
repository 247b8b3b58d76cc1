\* What the comment on MatchReport.replay_id says.
CONSTANTS
  n1 = n1
  n2 = n2
  c1 = c1
  c2 = c2
  none = none
  Names = {n1}
  MaxBots = 1
  Configs = {c1}
  InitialConfig = c1
  Loadouts = {none}
  NoLoadout = none
  HullHp = 1
  Magazine = 1
  MatchTimeout = 2
  PostGame = 1
  Tournament = FALSE
  MaxIndex = 1
  MaxRevision = 1
  MaxMatches = 2
  MaxBatch = 0
  IdleTicks = 1
SPECIFICATION Spec
INVARIANTS
  ReportNamesItsLog
