\* The verifier on every ledger two racing in-memory writers can leave.
SPECIFICATION SpecLedger
CONSTANTS
  DecisionRef = {in_a, in_b}
  Actor = {MODEL, RULE}
  Requests = {w1, w2}
  Store = "memory"
  NoEntry = NoEntry
  MaxEntries = 3
CONSTRAINT LedgerBound
INVARIANTS
  VerifierExact
  RewritesReported
