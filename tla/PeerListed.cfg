SPECIFICATION Spec
CONSTANTS
  Client = {a, b}
  MaxAct = 3
  MaxRetry = 2
  kMaxConnections = 3
  TimeoutTicks = 0
SYMMETRY Sym
INVARIANT ListedAreConnected
CHECK_DEADLOCK FALSE
