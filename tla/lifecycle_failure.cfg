SPECIFICATION Spec
CONSTANTS
  NProc = 2
  MaxFailures = 1
  MaxOthers = 0
PROPERTY RouterStops
\* the program hangs, which is what the property is about
CHECK_DEADLOCK FALSE
