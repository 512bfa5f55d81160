SPECIFICATION MCSpec
CONSTANTS
  MaxTools = 3
  Kinds <- AllKinds
CHECK_DEADLOCK FALSE
INVARIANTS
  TypeOK
  Exclusive
  OwnErrorStands
  AllAnswered
PROPERTIES ServesTools Drained
