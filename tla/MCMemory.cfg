SPECIFICATION FairSpec
CONSTANTS
  t1 = t1
  t2 = t2
  Ticks = {t1, t2}
  MaxRetries = 2
  MaxEvents = 3
  MaxLives = 2
CHECK_DEADLOCK FALSE
INVARIANTS
  TypeOK
  NothingForgotten
  DoneIsSaved
PROPERTIES
  KeepsLog
  Settled
