\* One request at a time over Postgres and Upstash, no store failures.
SPECIFICATION FairSpec
CONSTANTS
  e1 = e1  e2 = e2  e3 = e3
  in_a = in_a  in_b = in_b  in_c = in_c
  r1 = r1  r2 = r2  p1 = p1  p2 = p2
  DecisionRef = {in_a, in_b, probe}
  Actor = {"MODEL", "RULE"}
  Requests = {r1}
  Store = "postgres"
  NoEntry = NoEntry
  VisaMax30d = 2  McMax24h = 1  McMax30d = 2
  Window30d = 3  Window24h = 1
  Events = {e1, e2}
  InvoiceOf <- DistinctInvoices
  ScopeOf <- OneScope
  NetworkOf <- Networks
  Payloads = {"cat1", "cat23", "ask", "ignored", "invalid"}
  Probe = probe
  Processes = {p1}
  ProcessOf <- OneProcess
  Idempotency = "upstash"
  Ttl = 1
  Offsets = {1}
  MaxClock = 1  MaxDeliveries = 2  MaxProbes = 1  MaxFaults = 0
  NoEvent = NoEvent
  NoDecision = NoDecision
CHECK_DEADLOCK FALSE
INVARIANTS
  AckedIsDecided
  AckedIsAttested
PROPERTY FailuresAttested
