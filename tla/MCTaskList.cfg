SPECIFICATION Spec
CONSTANTS
  Callers = {a, b, c}
  Initial = 2
  MaxCreates = 1
  MaxCalls = 3
SYMMETRY Alike
CHECK_DEADLOCK FALSE
INVARIANTS
  TypeOK
  NoFieldUndone
PROPERTIES
  IdsFresh
  ClaimsAreExclusive
