SPECIFICATION Spec
CONSTANTS
  t1 = t1  t2 = t2  g1 = g1  p1 = p1  x1 = x1  x2 = x2
  Threads = {t1}
  Goroutines = {}
  Procs = {p1}
  ProcOf <- OneProcess
  Ptrs = {x1}
  Apis = {"SSL_write"}
  RingSlots = 1
  CloseSlots = 1
  Sampling = FALSE
  MaxDepth = 1
  MaxLives = 2
  MaxAttempts = 3
  MaxEvictions = 0
INVARIANT LateCloseIsHarmless
CHECK_DEADLOCK FALSE
