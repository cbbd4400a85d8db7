\* The improvement loop over small corpora, caps small enough to bind.
SPECIFICATION Spec
CONSTANTS
  Rolls <- SomeRolls
  Failures <- OneOfEach
  VisaMax30d = 3  McMax24h = 2  McMax30d = 3
  Window30d = 720  Window24h = 24
  VisaRafCap30d = 3  McTpeCap30d = 3  McTpeCap24h = 2
  FeeHardDeclineRetry = 7  FeeVisaRaf = 1  FeeMcTpe = 1
  Rounds = 4
CHECK_DEADLOCK FALSE
INVARIANTS
  TypeOK
  PolicyPaysNoFee
  RecoveredAreRetryable
  RoundsOnlyImprove
  RoundTakesBestNeighbour
  GradesReproducible
  StallIsFinal
