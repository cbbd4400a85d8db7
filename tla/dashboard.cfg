\* One panel of the page at a time over either store, with faults.
SPECIFICATION FairSpec
CONSTANTS
  Callers = {"page", "other"}
  StreamIds = {"demo", "captured"}
  DemoStream = "demo"
  EventLists <- Lists
  DemoEvents <- DemoFailures
  MaxCalls = 2  MaxFaults = 1  MaxSaves = 3  MaxEntries = 2
  ErrorKinds = {"http"}
  Payments = {p1, p2, p3}  Decisions = {d1, d2}  Limit = 2
INVARIANTS
  TypeOK
  ShowsOwnWrites
  AnsweredRunsStored
PROPERTIES
  NeverShowsOlder
  ImplementsFeed
  CatchesUp
