CONSTANTS
  MaxEvents = 4
  Buffer = 1
SPECIFICATION StreamSpec
INVARIANTS
  StreamTypeOK
  StreamTruthful
PROPERTIES
  FailsForAReason
  StreamEnds
CHECK_DEADLOCK FALSE
