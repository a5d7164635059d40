CONSTANTS
  f1 = f1
  f2 = f2
  localhost = localhost
  lan = lan
  Wildcard = wildcard
  Forwards = {f1, f2}
  Address <- TwoAddresses
  Port <- SharedPort
  Capacity = 1
  MaxConns = 1
SPECIFICATION FairSpec
INVARIANTS
  UpIsReached
  NothingLeftBehind
PROPERTIES
  StopEnds
\* Forwards that all stopped leave nothing to do.
CHECK_DEADLOCK FALSE
