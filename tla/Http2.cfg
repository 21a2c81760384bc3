\* Three streams on one connection, two of them at a time.
SPECIFICATION Spec
CONSTANTS
  Streams = {1, 2, 3}
  MaxPending = 2
  MaxTotal = 4
  MaxBody = 1
  MaxEarly = 1
  MaxFrame = 1
  MaxReports = 1
  TTL = 2
  Throttle = 2
  MaxTime = 2
  MaxWire = 1
  MaxChunks = 6
  FaultCost = 3
  Pieces = {"req_block", "magic", "token", "settings"}
  Extras = {"data", "trailers", "interim", "promise", "reset", "goaway", "settings"}
  Fates = {"captured", "truncated", "lost", "oversized", "undecoded"}
INVARIANTS MemoryExact RequestsAccounted WholeResponses AnsweredIsDone
\* The peers and the clock are bounded, and the sensor may stop.
CHECK_DEADLOCK FALSE
