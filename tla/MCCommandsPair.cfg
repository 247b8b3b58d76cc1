\* Two bots, two matches of two ticks: every interleaving of the slots with the room.
CONSTANTS
  x = x
  y = y
  NBots = 2
  Orders = {x}
  MaxTick = 2
  MaxMatch = 2
SPECIFICATION Spec
INVARIANTS
  AppliedIsCurrent
  CountersAddUp
  NoLostWakeup
