SPECIFICATION Spec
CONSTANTS
  NProc = 2
  MaxFailures = 0
  MaxOthers = 1
INVARIANT SegmentPersists
\* the program hangs, which is what the property is about
CHECK_DEADLOCK FALSE
