\* Ordinary matches and batches, the room stepped for ever: two bots, hulls of two points, two
\* revisions, two matches of at most two ticks, batches of one or two matches; nobody fires.
CONSTANTS
  n1 = n1
  n2 = n2
  c1 = c1
  c2 = c2
  none = none
  Names = {n1, n2}
  MaxBots = 2
  Configs = {c1, c2}
  InitialConfig = c1
  Loadouts = {none}
  NoLoadout = none
  HullHp = 2
  Magazine = 0
  MatchTimeout = 2
  PostGame = 1
  Tournament = FALSE
  MaxIndex = 2
  MaxRevision = 2
  MaxMatches = 2
  MaxBatch = 2
  IdleTicks = 1
SPECIFICATION FairSpec
INVARIANTS
  ReportCoversStarters
  ForfeitNeverWins
  VerdictIsFair
  LogAgreesWithReport
  NoOrphanRound
  LobbyIsClean
  OperatorSettingsRestored
  BatchAccounting
  ReadyAcknowledged
PROPERTIES
  Lifecycle
  NothingWedges
