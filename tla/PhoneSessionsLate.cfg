SPECIFICATION Spec
CONSTANTS
  p1 = p1
  p2 = p2
  t1 = t1
  t2 = t2
  w1 = w1
  w2 = w2
  none = none
  Processes = {p1, p2}
  Tokens = {t1, t2}
  Legacy = t1
  Unnamed = none
  Bypassing = {w2}
  Phones = {w1, w2}
  Pids = {1, 2}
  NoProcess = none
  Talking = {p1}
  MaxEvents = 1
  MayRestart = TRUE
  Together = FALSE
INVARIANT
 NoSessionMeansNone
