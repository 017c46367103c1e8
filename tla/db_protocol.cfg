SPECIFICATION Spec
CONSTANTS
  NProc = 3
  Requests = 4
  ResponseSize = 2
  Capacity = 2
INVARIANTS
  OneAnswerEach
  DispatchNeverBlocks
  NothingAfterClose
  NeverStuck
PROPERTY Termination
