SPECIFICATION Spec
CONSTANTS
  NServers = 1
  NTasks = 2
  Recurring = {2}
  Schedule <- MCSchedule
  StaleAfter = 0
  MaxMinute = 1
  MaxRuns = 2
  MaxManual = 1
INVARIANTS
  TypeOK
  OncePerMinute
  OneProcess
PROPERTY HungIsKilled
CHECK_DEADLOCK FALSE
