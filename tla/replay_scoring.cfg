\* Two failures replayed while the sidecar restarts or its model is replaced.
SPECIFICATION FairSpec
CONSTANTS
  ev_a = ev_a  ev_b = ev_b
  PinnedVersion = "v1"
  Artifacts <- SomeArtifacts
  Propensity <- TwoTrainings
  MaxAttempt = 3
  MaxOutages = 1
  NoBundle = NoBundle
  CandidateOffsets <- Offsets
  Payments <- PaymentsAsked
  NoPayment = NoPayment
  NoSchedule = NoSchedule
  EventIds = {ev_a, ev_b}
  Streams <- TwoFailures
  Nows = {60, 900}
  DrawTables <- SomeDraws
  VisaMax30d = 2  McMax24h = 1  McMax30d = 2
  Window30d = 720  Window24h = 24
CHECK_DEADLOCK FALSE
INVARIANTS
  TypeOK
  FirstOfTheBest
  OnlyPinnedModelScores
  NothingAfterRecovery
  LuckIsShared
  CapsBindWithinRun
  FallbackDisclosed
  EveryFailureShown
  SeriesEndsAtTotals
PROPERTIES
  KeepsContract
  ReplayFinishes
