SPECIFICATION Spec
CONSTANTS
  NProc = 2
  Compute = compute
  Handler = handler
  HeaderSize = 1
  ResponseSize = 2
  Requests = 2
  Capacity <- MCCapacity
  Workers <- MCWorkers
  Sizes <- MCSizes
  Data <- MCData
  Blank = Blank
  MaxMsgId <- MCMaxMsgId
  MaxCrashes = 0
INVARIANTS
  RightResponse
  ReceivedWhole
  NeverStuck
  ChecksNeverFail
PROPERTY ImplementsProtocol
