CONSTANTS
  Trees <- MCTrees
  Top = "top"
  Kept <- MCKept
  MaxTreeDepth = 2
  MaxAttempts = 2
SPECIFICATION TreeSpec
INVARIANTS TreeArrives LeftoversAreTold
PROPERTIES WalkEnds
CHECK_DEADLOCK FALSE
