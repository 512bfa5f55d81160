SPECIFICATION FairSpec
CONSTANTS
  a1 = a1
  a2 = a2
  s1 = s1
  MaxPrompts = 3
  MaxWire = 2
  Agents = {a1, a2}
  Shells = {s1}
CHECK_DEADLOCK FALSE
INVARIANTS
  TypeOK
  EveryPromptOnce
  IdleIsDrained
  InterruptedTurnTakesNoMore
PROPERTIES
  SettlesInOrder
  PromptHandled
