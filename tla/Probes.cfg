\* Two threads and a goroutine of one process, nested calls, two addresses.
SPECIFICATION Spec
CONSTANTS
  t1 = t1  t2 = t2  g1 = g1  p1 = p1  x1 = x1  x2 = x2
  Threads = {t1, t2}
  Goroutines = {g1}
  Procs = {p1}
  ProcOf <- OneProcess
  Ptrs = {x1, x2}
  Apis = {"SSL_write", "go_tls_write"}
  RingSlots = 1
  CloseSlots = 1
  Sampling = TRUE
  MaxDepth = 2
  MaxLives = 2
  MaxAttempts = 3
  MaxEvictions = 1
INVARIANTS TypeOK LossIsCounted SlotsAreHeld PairedCall GapsAreLoss GenerationNamesObject
\* The processes are bounded.
CHECK_DEADLOCK FALSE
SYMMETRY Alike
