SPECIFICATION FairSpec
CONSTANTS
  a = a
  b = b
  NoVm = NoVm
  VmIds <- BothVms
  Capacity = 2
  NPorts = 0
  Durable <- OnlyA
  Restarts <- OnlyB
  Custom <- Nobody
  Calls = {"create", "halt"}
  Faults = {}
  Cancels = FALSE
  MaxForwards = 0
  MaxCrashes = 1
PROPERTIES
  RecordsSettle
  LeasesSlots
