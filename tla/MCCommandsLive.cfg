\* Two bots with commands that differ, one match: the clock and the room task run.
CONSTANTS
  x = x
  y = y
  NBots = 2
  Orders = {x, y}
  MaxTick = 2
  MaxMatch = 1
SPECIFICATION FairSpec
PROPERTIES
  FirstCommandWins
  BatchMoves
