\* Pipelined requests, every framing, chunks cut anywhere, idle sweeps.
SPECIFICATION Spec
CONSTANTS
  Requests <- AllRequests
  Responses <- AllResponses
  Methods = {"GET", "HEAD", "CONNECT"}
  MaxMsgs = 2
  PreviewCap = 1
  MaxHead = 5
  MaxLine = 3
  MaxBuffer = 14
  Pipelined = TRUE
  Sweeps = TRUE
INVARIANTS ReportedIsSent SplitIndependent RetainedBounded
PROPERTY FeedReturns
\* The peers are bounded.
CHECK_DEADLOCK FALSE
