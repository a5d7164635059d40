\* One or two attempts and a one-slot buffer.
CONSTANTS
  Clients = {c1, c2}
  Buffer = 1
  None = None
SPECIFICATION FairSpec
INVARIANTS
  OneClient
PROPERTIES
  OpeningEnds
  EofReachesReader
  CommandsAnswered
\* Attempts that all ended leave nothing to do.
CHECK_DEADLOCK FALSE
