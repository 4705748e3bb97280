SPECIFICATION Spec
CONSTANTS
  call1 = call1
  call2 = call2
  ctx1 = ctx1
  id1 = id1
  id2 = id2
  l1 = l1
  l2 = l2
  Calls <- McTools
  Contexts = {}
  ToolCallIdOf <- McToolCallIdOf
  OddArguments <- McOddArguments
  Leases <- McLeases
  None = None
  MaxArms = 2
INVARIANTS
  RunsAsDecided
  OneUse
  GoneRulesNothing
CHECK_DEADLOCK FALSE
