\* Pipelined requests, lost and truncated chunks, chunks read after the close,
\* records with and without a role hint, and every limit within reach.
SPECIFICATION Spec
CONSTANTS
  MaxGen = 0
  MaxMsgs = 2
  MaxTime = 2
  TTL = 2
  Throttle = 1
  MaxTotal = 3
  MaxBuffer = 2
  MaxPending = 2
  MaxEntries = 1
  MaxReports = 1
  Parts = {"whole", "head", "body"}
  Kinds = {"interim", "upgrade"}
  Hints = {TRUE, FALSE}
  Fates = {"captured", "truncated", "lost"}
  MaxFaults = 1
  Pipelined = TRUE
  LateEvents = TRUE
INVARIANTS GaugesExact RequestsAccounted CleanPairs NeverJoined SweptIsFresh
\* The clock and the peers are bounded, and the sensor may stop.
CHECK_DEADLOCK FALSE
