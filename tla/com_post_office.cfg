SPECIFICATION ComSpec
CONSTANTS
  NProc = 2
  Workers = {w1}
  Sizes = {1}
  Data = {d1, d2}
  Blank = Blank
  MaxMsgId = 2
  MaxCrashes = 1
SYMMETRY Symmetry
INVARIANTS
  MailboxExclusive
  AcksBalance
  QuietShutdown
  PermitsHeld
PROPERTY ImplementsPostOffice
\* a client may stop calling, and is stopped by the bound on messages
CHECK_DEADLOCK FALSE
