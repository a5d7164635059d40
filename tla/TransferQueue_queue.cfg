\* Two transfers, two workers and one event slot.  No symmetry: liveness is checked.
CONSTANTS
  Transfers = {t1, t2}
  Workers = {w1, w2}
  Capacity = 1
  MaxDone = 2
  NoTransfer = NoTransfer
SPECIFICATION FairSpec
INVARIANTS
  OneRunner
  NoTransferForgotten
  CancelWins
PROPERTIES
  FinalTickShown
  Lifecycle
  EveryJobEnds
  WorkersExit
\* Once every transfer has ended nothing is left to do.
CHECK_DEADLOCK FALSE
