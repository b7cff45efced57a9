CONSTANTS
  s1 = s1
  s2 = s2
  s3 = s3
  h1 = h1
  h2 = h2
  Sessions = {s1, s2, s3}
  Htlcs = {h1, h2}
  NoSession = NoSession
  NoKey = NoKey
SPECIFICATION FairSpec
INVARIANTS
  TypeOK
  OneInterceptor
  NoForwardStranded
PROPERTIES
  RegistrationNotStolen
  DecidedOnce
  SlotFreed
CHECK_DEADLOCK FALSE
