\* One slot in each queue.
CONSTANTS
  Kinds = {"telnet", "mosh", "local"}
  CmdCap = 1
  EventCap = 1
  MaxOutput = 2
  MaxInput = 2
SPECIFICATION FairSpec
PROPERTIES
  OutputThenEnd
  DropEnds
  EndIsTold
\* A session that ended leaves nothing to do.
CHECK_DEADLOCK FALSE
