SPECIFICATION Spec
CONSTANTS
  i1 = i1
  i2 = i2
  p1 = p1
  e1 = e1
  e2 = e2
  l1 = l1
  Insts <- McInsts
  Procs <- McProcs
  ProcOf <- McProcOf
  NoInst = NoInst
  EventIds <- McIds
  Synthetic = Synthetic
  Times <- McTimes
  Leases <- McLeases
  MaxCursor = 3
  MaxEvents = 2
  MaxPins = 0
  MaxRows = 3
  MaxPublished = 2
SYMMETRY McSymmetry
INVARIANTS
  ReplayComplete
