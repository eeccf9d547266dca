CONSTANTS
  None = None
  v1 = v1
  p1 = p1
  p2 = p2
  Vms <- MCVms
  Pids <- MCPids
  Budgets <- MCBudgets
SPECIFICATION Spec
SYMMETRY MCSymmetry
INVARIANTS
  NoStrangerStruck
  VmmKnown
  SnapshotKept
PROPERTIES
  StatusTrue
CHECK_DEADLOCK FALSE
