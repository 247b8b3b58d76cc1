\* A batch whose spectators get every second frame; the third tick is the last.
CONSTANTS
  a = a
  b = b
  Roster <- MCRoster
  Width = 4
  Config <- MCConfig
  Layouts <- MCLayouts
  Loadouts <- MCLoadouts
  Orders <- MCOrders
  Timeout = 3
  Throttle = 2
  Word = 1000
SPECIFICATION Spec
INVARIANTS
  FinalFrameIsShown
