\* Three failures of one Mastercard scope on three days, retried up to three days later.
SPECIFICATION Spec
CONSTANTS
  e1 = e1  e2 = e2  e3 = e3
  in_a = in_a  in_b = in_b  in_c = in_c
  r1 = r1  r2 = r2  p1 = p1  p2 = p2
  DecisionRef = {in_a, in_b, in_c, probe}
  Actor = {"MODEL", "RULE"}
  Requests = {r1}
  Store = "postgres"
  NoEntry = NoEntry
  VisaMax30d = 2  McMax24h = 2  McMax30d = 4
  Window30d = 3  Window24h = 1
  Events = {e1, e2, e3}
  InvoiceOf <- DistinctInvoices
  ScopeOf <- AllMastercard
  NetworkOf <- Networks
  Payloads = {"mac02"}
  Probe = probe
  Processes = {p1}
  ProcessOf <- OneProcess
  Idempotency = "upstash"
  Ttl = 1
  Offsets = {1, 2, 3}
  MaxClock = 2  MaxDeliveries = 1  MaxProbes = 0  MaxFaults = 0
  NoEvent = NoEvent
  NoDecision = NoDecision
CHECK_DEADLOCK FALSE
INVARIANT ScheduledWithinCaps
