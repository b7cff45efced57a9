CONSTANTS
  MaxAttempts = 3
SPECIFICATION Spec
INVARIANTS
  GracefulClosure
CHECK_DEADLOCK FALSE
