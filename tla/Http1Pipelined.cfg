\* Well-formed responses to pipelined requests, cut anywhere, nothing idle.
SPECIFICATION Spec
CONSTANTS
  Requests = {}
  Responses <- PlainResponses
  Methods = {"GET", "HEAD"}
  MaxMsgs = 2
  PreviewCap = 1
  MaxHead = 5
  MaxLine = 3
  MaxBuffer = 20
  Pipelined = TRUE
  Sweeps = FALSE
INVARIANT PipelinedFraming
\* The peers are bounded.
CHECK_DEADLOCK FALSE
