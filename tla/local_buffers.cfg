SPECIFICATION BuffersSpec
CONSTANTS
  Pushers = {receiver, other}
  Receiver = receiver
  Popper = handler
  Capacity = 2
  MaxPush = 3
  MaxRequests = 2
INVARIANTS
  PlacesBalance
  PermitsBalance
  RingShape
  HandedOver
PROPERTIES
  ImplementsFifo
  ImplementsOnePlace
\* the handler returns when the queue is closed, and the others reach their bounds
CHECK_DEADLOCK FALSE
