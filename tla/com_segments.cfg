SPECIFICATION ComSpec
CONSTANTS
  NProc = 2
  Workers = {w1}
  Sizes = {1, 2}
  Data = {d1}
  Blank = Blank
  MaxMsgId = 2
  MaxCrashes = 0
INVARIANTS
  TypeOK
  SegmentQuiet
  ReadsInBounds
\* a client may stop calling, and is stopped by the bound on messages
CHECK_DEADLOCK FALSE
