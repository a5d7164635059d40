SPECIFICATION Spec
CONSTANT MaxSessions = 3
CONSTRAINT Explored
PROPERTIES
  PaneClosesItsOwn
