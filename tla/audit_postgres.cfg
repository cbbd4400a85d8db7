\* Three requests appending to the Postgres ledger at once.
SPECIFICATION SpecLedger
CONSTANTS
  DecisionRef = {in_a, in_b}
  Actor = {MODEL, RULE}
  Requests = {w1, w2, w3}
  Store = "postgres"
  NoEntry = NoEntry
  MaxEntries = 3
CONSTRAINT LedgerBound
INVARIANTS
  LedgerTypeOK
  ChainIntact
  PendingExtendsPrefix
PROPERTY ImplementsLog
