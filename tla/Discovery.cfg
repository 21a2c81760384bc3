\* Two libraries and the sensor's own, two pids, processes that start, exit and dlopen at any time.
SPECIFICATION Spec
CONSTANTS
  Images = {f1, f2}
  OwnLib = f3
  Pids = {1, 2}
  Plans = 1
  GoTls = FALSE
  ProcSlots = 1
  LibsCapacity = 1
  MaxDiscovered = 2
  MaxAttached = 2
  MaxExecs = 2
  MaxFaults = 1
INVARIANTS TypeOK ProbedOnce SeenIsSettled NoLostWakeup
PROPERTY RescanCovers
\* The sensor may stop.
CHECK_DEADLOCK FALSE
