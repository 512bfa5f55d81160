SPECIFICATION FairSpec
CONSTANTS
  s1 = s1
  s2 = s2
  Starters = {s1, s2}
  MaxSpawns = 2
  MaxMessages = 2
  MaxConnections = 2
INVARIANTS
  TypeOK
  ReportedOnce
PROPERTIES
  ServesSession
  DeadSessionLeaves
