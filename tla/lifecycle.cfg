SPECIFICATION Spec
CONSTANTS
  NProc = 3
  MaxFailures = 2
  MaxOthers = 1
INVARIANTS
  StartBarrier
  TeardownAlone
  NoLeak
  SegmentPersistsAlone
PROPERTY Returns
\* a program with a failed process hangs: see lifecycle_failure
CHECK_DEADLOCK FALSE
