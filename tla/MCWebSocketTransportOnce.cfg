SPECIFICATION Spec
CONSTANTS
  Capacity = 2
  MaxMessages = 3
  MaxFailures = 1
CHECK_DEADLOCK FALSE
INVARIANT NoMessageTwice
