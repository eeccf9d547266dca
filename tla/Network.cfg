SPECIFICATION NetworkSpec
CONSTANTS
  None = None
  Slots = {0, 1}
  Ports = {"p1"}
  MaxCalls = 1
  MaxVms = 2
  MaxChanges = 1
  MaxFlows = 1
  Names = {"n1"}
  Dsts = {"a1", "a2", "a3"}
  Queries = {"q1", "q2"}
  Holders = 2
  PerVm = 1
  Tiers = 2
  PoolSize = 2
  Guests = {"g1", "g2"}
  MaxOpens = 3
  Conns = {"c1", "c2"}
  Ttls = {1, 4}
  Margin = 2
  DefaultTtl = 3
  MaxTime = 7
  Readers = {"r1", "r2"}
  MaxSaves = 4
  MaxRequests = 3
  SavesAtLoad = FALSE
INVARIANTS
  Contained
  StartsClean
  DnsOfHolder
  RulesAgree
  TunnelsFair
  LeafOutlives
  NoEditLost
\* The parts end where their bounds do.
CHECK_DEADLOCK FALSE
