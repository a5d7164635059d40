SPECIFICATION Spec
CONSTANTS
  Sessions = {s1, s2}
  MaxForwards = 1
  MaxStarts = 2
CHECK_DEADLOCK FALSE
PROPERTIES
  DroppedForwardsGoOn
