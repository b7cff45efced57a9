CONSTANTS
  p = p
  c = c
  Clients = {p}
  Coins = {c}
  SweeperCoins = {}
  Internal = Internal
  NoLease = NoLease
  NoClient = NoClient
  LateRelease = FALSE
SPECIFICATION Spec
INVARIANTS
  TemplateNotReselected
CHECK_DEADLOCK FALSE
