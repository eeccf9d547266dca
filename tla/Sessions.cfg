SPECIFICATION FairSpec
CONSTANTS
  planner = planner
  child = child
  NoParent = NoParent
  Sessions <- Family
  Parent <- ChildOfPlanner
  MaxAgents = 1
  MaxAllocs = 2
  MaxMail = 2
  MaxEvents <- FewerTogether
INVARIANTS
  AtMostOnce
  OneTurn
  VmAccounted
  NoOrphanChild
  WorkersKept
PROPERTIES
  PhasesKept
  MailMoves
CHECK_DEADLOCK FALSE
