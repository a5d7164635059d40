\* Small channels, so that both of them fill up.
CONSTANTS
  Hops = 2
  MaxTries = 2
  CommandCapacity = 1
  EventCapacity = 1
  Window = 2
  Tasks = {t1}
  MaxData = 2
  MaxInput = 1
  None = None
SPECIFICATION FairSpec
INVARIANTS
  HopsInOrder
  EndIsFaithful
PROPERTIES
  Lifecycle
  DropEndsThread
  EndIsTold
\* A session that ended has nothing left to do.
CHECK_DEADLOCK FALSE
