\* A client names the id it creates, and may create it again once it is gone.
SPECIFICATION Spec
CONSTANTS
  None = None
  Ops = {o1, o2, o3}
  Comes = TRUE
  StoreFails = FALSE
  MaxLocks = 4
INVARIANTS
  OneActor
