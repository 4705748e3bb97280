SPECIFICATION Spec
CONSTANTS
  MaxItems = 2
  MaxBytes = 3
  Sizes <- McSizes
  MaxHead = 6
  MaxFaults = 2
INVARIANTS
  Checkpointed
PROPERTY
  CatchesUp
CHECK_DEADLOCK FALSE
