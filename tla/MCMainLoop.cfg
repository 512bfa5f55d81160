SPECIFICATION FairSpec
CONSTANTS
  p1 = p1
  p2 = p2
  None = None
  Percepts = {p1, p2}
  Long = {p1}
  RingSize = 2
  Period = 3
  StaleTimeout = 2
  WorkTimeout = 5
  MaxFaults = 2
  MaxWaiting = 3
INVARIANTS
  TypeOK
  NoPerceptLost
  FlagsAreTimed
  WorkTimeoutNeedsLostSession
PROPERTY PerceptPresented
