CONSTANTS
  MaxUpdates = 2
  Funds = 2
  MaxInvoices = 3
  InvoicePage = 2
  InvoicesShown = 1
  MaxForwards = 1
  TextChannels = 1
SPECIFICATION LoopSpec
INVARIANTS
  TypeOK
  RepliesRight
PROPERTIES
  UserToldAll
  EveryUpdateEnds
CHECK_DEADLOCK FALSE
