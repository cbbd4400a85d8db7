\* Three payments are decided, one of them again.
SPECIFICATION FairSpec
CONSTANTS
  Callers = {"page"}
  StreamIds = {"demo"}
  DemoStream = "demo"
  EventLists <- Lists
  DemoEvents <- DemoFailures
  MaxCalls = 0  MaxFaults = 0  MaxSaves = 3  MaxEntries = 0
  ErrorKinds = {"http"}
  Payments = {p1, p2, p3}  Decisions = {d1, d2}  Limit = 2
INVARIANT NewestFirst
