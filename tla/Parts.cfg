SPECIFICATION PartsSpec
\* The caller sends a call twice at most; another client changes the VM once.
CONSTANTS
  MaxTries = 2
  MaxOthers = 1
  Nothing = Nothing
  Disabled = Disabled
  Capacity = 5
  Makers = {"d1", "d2", "bake"}
  InDaemon = {"d1", "d2"}
  Inodes = {1, 2, 3}
  IdMax = 9
  SlotMax = 2
  DefaultBase = 4
  Pinned = 3
  BakeHosts = {"h1", "h2"}
  BakeNames = {"a", "b"}
  MaxBakes = 2
  MaxCrashes = 1
  CertNames = {"x", "y"}
  MaxKeys = 6
  Alone = TRUE
  Clients = {"c1", "c2"}
  PolicyBodies = {"b1", "b2"}
  MaxGen = 3
  MaxTime = 3
  Ops = {"o1", "o2", "o3"}
  Comes = FALSE
  StoreFails = FALSE
  MaxLocks = 4
INVARIANTS
  AnswersTrue
  ClientFits
  OneActor
  LinksWhole
  JailsApart
  BuildsWhole
  KeysKept
  PolicyStands
PROPERTIES
  OncePerRound
\* A call that returned is over, and the parts end where their bounds do.
CHECK_DEADLOCK FALSE
