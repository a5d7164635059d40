SPECIFICATION Spec
CONSTANT MaxSessions = 3
CONSTRAINT Explored
INVARIANTS
  IndexesLive
  ClientIsOfItsSession
  ForwardsFollowFocus
PROPERTIES
  TilesKeepTheirSessions
