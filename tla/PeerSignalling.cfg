SPECIFICATION Spec
CONSTANTS
  Client = {a, b}
  MaxAct = 3
  MaxRetry = 2
  kMaxConnections = 3
  TimeoutTicks = 0
SYMMETRY Sym
INVARIANTS
  TypeOK
  WaitingIsOpen
  DeliveredInOrder
  RosterIsMembers
  HangingGetIsKept
CHECK_DEADLOCK FALSE
