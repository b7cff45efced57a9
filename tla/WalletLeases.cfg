CONSTANTS
  p = p
  q = q
  c = c
  d = d
  Clients = {p, q}
  Coins = {c, d}
  SweeperCoins = {d}
  Internal = Internal
  NoLease = NoLease
  NoClient = NoClient
  LateRelease = FALSE
SPECIFICATION Spec
SYMMETRY ClientSymmetry
INVARIANTS
  TypeOK
  Exclusive
  PromisesKept
  NoOrphanedLease
  InternalModeInputs
PROPERTIES
  ImplementsReservation
CHECK_DEADLOCK FALSE
