\* What the comment in match_outcome says of ties: two bots, the clock at the first tick.
CONSTANTS
  n1 = n1
  n2 = n2
  c1 = c1
  c2 = c2
  none = none
  Names = {n1, n2}
  MaxBots = 2
  Configs = {c1}
  InitialConfig = c1
  Loadouts = {none}
  NoLoadout = none
  HullHp = 2
  Magazine = 1
  MatchTimeout = 1
  PostGame = 1
  Tournament = FALSE
  MaxIndex = 2
  MaxRevision = 1
  MaxMatches = 1
  MaxBatch = 0
  IdleTicks = 1
SPECIFICATION Spec
INVARIANTS
  TiesGoToLaterBot
