\* One session, two matches, two pages, any write failing, any number of restarts.
CONSTANTS
  s1 = s1
  s2 = s2
  p1 = p1
  p2 = p2
  blank = blank
  notes = notes
  a = a
  b = b
  Sessions = {s1}
  Scores = {p1, p2}
  Texts = {blank}
  NoText = blank
  Clients = {a, b}
  SessionLimit = 1
  RoundLimit = 2
  MaxMatches = 2
  MaxRevision = 5
SPECIFICATION Spec
SYMMETRY Symmetry
INVARIANTS
  AcknowledgedSurvives
  ReportSurvives
  EditSawData
  RunningRoundIsPlayed
