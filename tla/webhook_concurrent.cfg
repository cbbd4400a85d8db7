\* Two requests in two processes over Postgres and Upstash, one fault.
SPECIFICATION Spec
CONSTANTS
  e1 = e1  e2 = e2  e3 = e3
  in_a = in_a  in_b = in_b  in_c = in_c
  r1 = r1  r2 = r2  p1 = p1  p2 = p2
  DecisionRef = {in_a, in_b, probe}
  Actor = {"MODEL", "RULE"}
  Requests = {r1, r2}
  Store = "postgres"
  NoEntry = NoEntry
  VisaMax30d = 2  McMax24h = 2  McMax30d = 3
  Window30d = 3  Window24h = 1
  Events = {e1, e2}
  InvoiceOf <- DistinctInvoices
  ScopeOf <- AllMastercard
  NetworkOf <- Networks
  Payloads = {"mac02"}
  Probe = probe
  Processes = {p1, p2}
  ProcessOf <- TwoProcesses
  Idempotency = "upstash"
  Ttl = 1
  Offsets = {1}
  MaxClock = 1  MaxDeliveries = 2  MaxProbes = 1  MaxFaults = 1
  NoEvent = NoEvent
  NoDecision = NoDecision
SYMMETRY SwapReplicas
CHECK_DEADLOCK FALSE
INVARIANTS
  TypeOK
  OneRequestPerEvent
  AttestedOncePerWindow
  AttestedIsStored
  AttemptsWithinCaps
PROPERTY UsesLedger
