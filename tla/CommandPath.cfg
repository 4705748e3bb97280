SPECIFICATION PathSpec
CONSTANTS
  i1 = i1
  i2 = i2
  p1 = p1
  c1 = c1
  c2 = c2
  s1 = s1
  s2 = s2
  k1 = k1
  r1 = r1
  a1 = a1
  Insts <- McInsts
  Procs <- McProcs
  ProcOf <- McProcOf
  NoInst = NoInst
  Conns <- McConns
  Sessions <- McSessions
  Dashes = {}
  LeaseIds = {}
  Cmds <- McCmds
  Requests <- McRequests
  Clients <- McClients
  None = None
  MayRestart = TRUE
  MaxMissed = 1
  Runtimes <- McRuntimes
INVARIANTS
  PathTypeOK
  InvokedOnce
  CopiesAgree
  HeardAgrees
  OpenHasBridge
PROPERTIES
  ImplementsCommandLedger
  ReachesSession
  SentIsAnswered
