\* What docs/PROTOCOL.md says of revisions: a page open across a restart.
CONSTANTS
  s1 = s1
  s2 = s2
  p1 = p1
  p2 = p2
  blank = blank
  notes = notes
  a = a
  b = b
  Sessions = {s1}
  Scores = {p1}
  Texts = {blank}
  NoText = blank
  Clients = {a}
  SessionLimit = 2
  RoundLimit = 2
  MaxMatches = 1
  MaxRevision = 4
SPECIFICATION Spec
INVARIANTS
  StaleEditRefused
