SPECIFICATION Spec
CONSTANTS
  i1 = i1
  i2 = i2
  p1 = p1
  c1 = c1
  c2 = c2
  s1 = s1
  s2 = s2
  d1 = d1
  l1 = l1
  Insts <- McInsts
  Procs <- McProcs
  ProcOf <- McProcOf
  NoInst = NoInst
  Conns <- McConns
  Sessions <- McSessions
  Dashes <- McDashes
  LeaseIds <- McLeaseIds
  None = None
  MayRestart = TRUE
PROPERTIES
  OnlyThatBridge
