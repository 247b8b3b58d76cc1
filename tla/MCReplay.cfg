\* Two bots, three ticks, a writer that holds back two records; every prefix read.
CONSTANTS
  a = a
  b = b
  hold = hold
  fire = fire
  none = none
  plain = plain
  ring = ring
  apart = apart
  Bots = {a, b}
  Orders = {hold, fire}
  NoBot = none
  Rules = {plain}
  Spawns = {ring, apart}
  MatchTimeout = 3
  MaxReplayBots = 2
  BufferSize = 2
  Launch <- FreeLaunch
  Sail <- FreeSail
  Sunk <- ShotSunk
  Abandon <- FreeAbandon
  Leaders <- Quiet
SPECIFICATION Spec
INVARIANTS
  TypeOK
  ReplayIsFaithful
  ReplayCompletes
CHECK_DEADLOCK FALSE
