SPECIFICATION HostSpec
CONSTANTS
  a = a
  b = b
  NoVm = NoVm
  VmIds <- BothVms
  Capacity = 2
  NPorts = 1
  Durable <- OnlyA
  Restarts <- OnlyB
  Custom <- OnlyB
  Calls = {"create", "start", "suspend", "stop", "halt", "destroy", "terminate", "retire", "forward"}
  Faults = {"boot"}
  Cancels = TRUE
  MaxForwards = 2
  MaxCrashes = 2
INVARIANTS
  GuestIdentified
  NoLeak
  OnRecord
  ReapsOnlyExited
  ForwardsExclusive
