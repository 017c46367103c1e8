SPECIFICATION Spec
CONSTANTS
  NProc = 2
  Sender = sender
  MsgSize = 1
  Repeat = 3
  Workers <- MCWorkers
  Sizes <- MCSizes
  Data <- MCData
  Blank = Blank
  MaxMsgId <- MCMaxMsgId
  MaxCrashes = 0
INVARIANTS
  InOrderIntact
  Lockstep
  EveryMessageOnce
PROPERTY Termination
