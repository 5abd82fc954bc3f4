SPECIFICATION Spec
CONSTANTS
  m1 = m1
  m2 = m2
  m3 = m3
  t1 = t1
  t2 = t2
  t3 = t3
  Loop = Loop
  NoTimer = NoTimer
  Message = {m1, m2, m3}
  Timer = {t1, t2, t3}
  Cap = 2
  MaxVersion = 4
  MaxCrashes = 1
  Overlap = TRUE
INVARIANT FlushIsDurable
CHECK_DEADLOCK FALSE
