SPECIFICATION Spec
CONSTANTS
  a = a
  b = b
  NoVm = NoVm
  VmIds <- OnlyA
  Capacity = 1
  NPorts = 1
  Durable <- OnlyA
  Restarts <- Nobody
  Custom <- Nobody
  Calls = {"create", "start", "suspend", "stop", "halt", "destroy", "terminate", "retire", "forward"}
  Faults = {"boot", "store", "provision", "apply", "suspend", "stop", "unlink", "netdown", "voldown"}
  Cancels = TRUE
  MaxForwards = 1
  MaxCrashes = 2
INVARIANTS
  Placement
PROPERTIES
  DiskKept
CHECK_DEADLOCK FALSE
