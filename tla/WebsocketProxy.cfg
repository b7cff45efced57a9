CONSTANTS
  PingPong = TRUE
  MaxMessages = 3
  MaxResponses = 2
SPECIFICATION FairSpec
INVARIANTS
  TypeOK
  CallIntact
PROPERTIES
  EverythingEnds
CHECK_DEADLOCK FALSE
