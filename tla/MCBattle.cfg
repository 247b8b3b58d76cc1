\* Two ships with every powerup, four ticks.
CONSTANTS
  a = a
  b = b
  Roster <- MCRoster
  Width = 4
  Config <- MCConfig
  Layouts <- MCLayouts
  Loadouts <- MCLoadouts
  Orders <- MCOrders
  Timeout = 4
  Throttle = 1
  Word = 1000
SPECIFICATION Spec
INVARIANTS
  TypeOK
  EffectsLastTheirDuration
  TraceIsTrue
  KillsMatchSinkings
PROPERTIES
  FramesKeepTheirWord
  HeardIsPinged
  OrderDoesNotDecide
  BattleIsHulls
