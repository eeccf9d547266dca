SPECIFICATION Spec
CONSTANTS
  VmIds = {v1}
  Hosts = {h1, h2}
  NoHost = NoHost
  NoVm = NoVm
  MaxFaults = 1
PROPERTIES
  DeleteStands
