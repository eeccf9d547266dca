SPECIFICATION Spec
CONSTANTS
  a = a
  b = b
  NoVm = NoVm
  VmIds <- OnlyA
  Capacity = 2
  NPorts = 0
  Durable <- OnlyA
  Restarts <- Nobody
  Custom <- Nobody
  Calls = {"create", "suspend", "start", "halt"}
  Faults = {}
  Cancels = FALSE
  MaxForwards = 0
  MaxCrashes = 0
INVARIANTS
  ResumeMatchesDisk
