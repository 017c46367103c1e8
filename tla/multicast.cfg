SPECIFICATION Spec
CONSTANTS
  NProc = 3
  Caller = caller
  Senders <- MCSenders
  d1 = d1
  d2 = d2
  Script <- MCScript
  Workers <- MCWorkers
  Sizes = {1}
  Data <- MCData
  Blank = Blank
  MaxMsgId <- MCMaxMsgId
  MaxCrashes = 0
INVARIANTS
  SentToAll
  InboxExclusive
PROPERTIES
  ImplementsBroadcast
  Termination
