SPECIFICATION Spec
CONSTANTS
  NProc = 5
  Requests = 6
  ResponseSizes = {2, 3, 8}
  Latencies = {0, 1, 5}
  Scale = 60
INVARIANTS
  RoundRobin
  IntactAccepted
  WelfordIsTwoPass
\* the loop ends
CHECK_DEADLOCK FALSE
