\* A quiet connection, swept while its next request is handled.
SPECIFICATION Spec
CONSTANTS
  MaxGen = 0
  MaxMsgs = 2
  MaxTime = 4
  TTL = 2
  Throttle = 1
  MaxTotal = 9
  MaxBuffer = 2
  MaxPending = 2
  MaxEntries = 2
  MaxReports = 9
  Parts = {"whole", "head", "body"}
  Kinds = {"interim", "upgrade"}
  Hints = {FALSE}
  Fates = {"captured"}
  MaxFaults = 2
  Pipelined = FALSE
  LateEvents = FALSE
PROPERTY NoFalseSilence
\* The clock and the peers are bounded, and the sensor may stop.
CHECK_DEADLOCK FALSE
