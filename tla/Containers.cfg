\* Two containers, one in the scope and one that /proc may mistake, and a host process.
SPECIFICATION Spec
CONSTANTS
  Cgroups = {a, b, h}
  Containers = {a, b}
  Allowed = {a}
  Busy = {a}
  Nowhere = Nowhere
  WrongPids = {b}
  TTL = 2
  Cooldown = 1
  MaxBackoff = 1
  MaxAttempts = 1
  MaxCache = 1
  MaxPending = 4
  QueueCap = 2
INVARIANTS TypeOK PendingExact ScopeFailsClosed
PROPERTIES BusyIsResolved
