SPECIFICATION Spec
CONSTANTS
  NServers = 1
  NTasks = 2
  Recurring = {2}
  Schedule <- Together
  StaleAfter = 11
  MaxMinute = 0
  MaxRuns = 2
  MaxManual = 0
INVARIANT AllMatchingStart
CHECK_DEADLOCK FALSE
