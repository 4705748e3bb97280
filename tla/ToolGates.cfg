SPECIFICATION Spec
CONSTANTS
  call1 = call1
  call2 = call2
  ctx1 = ctx1
  id1 = id1
  id2 = id2
  l1 = l1
  l2 = l2
  Calls <- McCalls
  Contexts <- McContexts
  ToolCallIdOf <- McToolCallIdOf
  OddArguments <- McOddArguments
  Leases <- McLeases
  None = None
  MaxArms = 1
INVARIANTS
  ClosedHoldsNobody
PROPERTIES
  EveryCallEnds
CHECK_DEADLOCK FALSE
