\* Two connections of one identity and one of another; a queue of two.
CONSTANTS
  a = a
  b = b
  c1 = c1
  c2 = c2
  c3 = c3
  Conns = {c1, c2, c3}
  Identities = {a, b}
  Identity <- PairAndOther
  MaxBots = 2
  QueueSize = 2
SPECIFICATION FairSpec
INVARIANTS
  OneSessionPerIdentity
  RosterIsBacked
PROPERTIES
  DuplicateIsOrphan
  DepartedIsDropped
