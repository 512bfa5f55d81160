SPECIFICATION FairSpec
CONSTANTS
  Capacity = 2
  MaxMessages = 4
  MaxFailures = 2
CHECK_DEADLOCK FALSE
INVARIANTS
  TypeOK
  OneAttempt
PROPERTIES CarriesMessages BufferedArrives
