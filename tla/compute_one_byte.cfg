SPECIFICATION Spec
CONSTANTS
  NProc = 5
  Requests = 1
  ResponseSizes = {1}
  Latencies = {1}
  Scale = 1
INVARIANT IntactAccepted
\* the loop ends
CHECK_DEADLOCK FALSE
