SPECIFICATION Spec
CONSTANTS
  i1 = i1
  Instance = i1
  MaxItems = 2
  MaxBytes = 3
  EventKinds = {"delta", "must"}
  MaxRuntimes = 2
  BusySessions = {1}
  NumSockets = 2
  MaxEvents = 1
  MaxFaults = 1
  MaxCursor = 20
INVARIANTS
  TypeOK
  RetainedUntilCommitted
  NeverRenumbered
  CommittedInOrder
  MandatoryAccounted
PROPERTY
  AssignedIsCommitted
CHECK_DEADLOCK FALSE
