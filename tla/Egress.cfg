CONSTANTS
  None = None
  Conns = {"c1", "c2"}
  MaxVms = 2
  MaxGen = 2
  Bounds <- MCBounds
SPECIFICATION Spec
PROPERTIES
  OwnPolicy
  StaleClosed
CHECK_DEADLOCK FALSE
