CONSTANTS
  MaxAttempts = 3
SPECIFICATION FairSpec
INVARIANTS
  TypeOK
  AnswerMatchesPayment
  PanicNeedsShutdownOrDeadline
PROPERTIES
  NobodyLeftWaiting
CHECK_DEADLOCK FALSE
