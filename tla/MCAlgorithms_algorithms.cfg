SPECIFICATION Spec
CONSTANTS
  AllowLocal = {"a"}
  AllowRemote = {"a", "b"}
  MaxSubnegotiation = 1
  Digits = {"1"}
  MaxGreeting = 512
  MaxRequest = 4096
  Components = {"", ".", "..", "a", "b", "c"}
  WorkingDirs <- Directories
  Depth = 2
INVARIANTS
  InputsMeanTheSame
  TextsReadBack
  ResolutionIsSound
CHECK_DEADLOCK FALSE
