SPECIFICATION PromptSpec
CONSTANTS
  None = None
  Percepts = {p}
  Long = {p}
  RingSize = 1
  Period = 3
  StaleTimeout = 2
  WorkTimeout = 5
  MaxFaults = 0
  MaxWaiting = 2
  MaxPrompts = 8
  MaxWire = 4
CHECK_DEADLOCK FALSE
INVARIANT ViewsAgree
PROPERTY StaleResultAbsorbed
