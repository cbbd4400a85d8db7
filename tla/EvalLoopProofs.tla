--------------------------- MODULE EvalLoopProofs ---------------------------
(***************************************************************************)
(* Theorems about EvalTuner, for any corpus the simulator can generate,    *)
(* any caps and fees, and any number of rounds:                            *)
(*   - the policy arm never pays a penalty fee;                            *)
(*   - it recovers no more failures than were retryable;                   *)
(*   - a round improves or changes nothing, and says which;                *)
(*   - it takes the best neighbour, the first of equally good ones;        *)
(*   - equal policies get equal grades, so a round that changed nothing is *)
(*     followed by no other.                                               *)
(***************************************************************************)
EXTENDS EvalTuner, FiniteSetTheorems, Minima

-----------------------------------------------------------------------------
(* The calendar: there is a payday within the days looked at.              *)
LEMMA PaydayAhead ==
  ASSUME NEW t \in Int
  PROVE  \E p \in PaydaysNear(t) : p >= t
<1> DEFINE today == t \div 24
           month == (today \div 30) + 1
           day   == 30 * month
           p     == 24 * day + 9
<1>1. today \in Int /\ 24 * today <= t /\ t < 24 * today + 24
  OBVIOUS
<1> HIDE DEF today
<1>2. month \in Int /\ day \in Int /\ today < day /\ day <= today + 30
  BY <1>1
<1>3. month \in Int /\ day = 30 * month
  BY <1>2
<1> HIDE DEF month
<1>4. day % 30 = 0
  BY <1>3
<1> HIDE DEF day
<1>5. p \in Int /\ p \div 24 = day /\ p >= t
  BY <1>1, <1>2
<1>6. DayOf(p) = 1
  BY <1>4, <1>5 DEF DayOf
<1>7. day \in today .. today + 32
  BY <1>1, <1>2
<1>8. p \in PaydaysNear(t)
  BY <1>6, <1>7 DEF PaydaysNear, today
<1> QED  BY <1>5, <1>8

LEMMA FirstPaydayIsAhead ==
  ASSUME NEW t \in Int
  PROVE  FirstPaydayFrom(t) \in Int /\ FirstPaydayFrom(t) >= t
<1> DEFINE Ahead == {p \in PaydaysNear(t) : p >= t}
           Waits == {p - t : p \in Ahead}
<1>1. PaydaysNear(t) \subseteq Int
  BY DEF PaydaysNear
<1>2. Waits \subseteq Nat /\ Waits # {}
  BY <1>1, PaydayAhead
<1>3. PICK w \in Waits : \A v \in Waits : w <= v
  BY <1>2, LeastNatural
<1>4. PICK p \in Ahead : w = p - t
  OBVIOUS
<1>5. \A q \in PaydaysNear(t) : q >= t => p <= q
  <2> SUFFICES ASSUME NEW q \in PaydaysNear(t), q >= t PROVE p <= q
    OBVIOUS
  <2>1. p - t <= q - t
    BY <1>3, <1>4
  <2> QED  BY <1>1, <1>4, <2>1
<1> QED  BY <1>1, <1>4, <1>5 DEF FirstPaydayFrom

(* A retry is proposed for a moment no earlier than the failure.           *)
LEMMA MomentsFollowTheFailure ==
  ASSUME NEW t \in Int, NEW p \in Params, NEW k \in 0 .. 2
  PROVE  CandidateMoment(t, p, k) \in Int /\ CandidateMoment(t, p, k) >= t
<1>1. p.firstOffsetHours \in Nat /\ p.stepHours \in Nat
  BY DEF Params, OnGrid, ParamGrid
<1>2. k * p.stepHours \in Nat
  BY <1>1
<1>3. t + p.firstOffsetHours + k * p.stepHours >= t
  BY <1>1, <1>2
<1> QED  BY <1>1, <1>2, <1>3, FirstPaydayIsAhead DEF CandidateMoment, SnapToPayday

-----------------------------------------------------------------------------
(* The corpus: five sequences of failures.                                 *)
FailureOK(f) ==
  /\ f.scopeKey \in ScopeKeys /\ f.network \in Network /\ f.class \in DeclineClass
  /\ f.ts \in Int /\ f.amountMinor \in Nat

StreamOK(s) ==
  \E n \in Nat : DOMAIN s = 1 .. n /\ Len(s) = n /\ \A i \in 1 .. n : FailureOK(s[i])

CorpusOK ==
  Len(corpus) = 5 /\ \A s \in 1 .. 5 : StreamOK(corpus[s])

LEMMA MadeFailuresAreOK ==
  ASSUME NEW roll \in Rolls, NEW key \in ScopeKeys, NEW network \in Network,
         NEW class \in DeclineClass, NEW ts \in Int, NEW cureAt
  PROVE  FailureOK(MakeFailure(roll, key, network, class, ts, cureAt))
<1>1. roll \in Roll
  BY RollAssumption
<1>2. roll.amountMinor \in Nat
  BY <1>1 DEF Roll
<1> QED  BY <1>2 DEF MakeFailure, FailureOK

LEMMA RollFields ==
  ASSUME NEW r \in Rolls
  PROVE  /\ r.network \in {"visa", "mastercard"} /\ r.network \in Network
         /\ r.hardClass \in DeclineClass
         /\ r.day \in Nat /\ r.hour \in Nat /\ r.cureHours \in Nat
         /\ SoftClass(r.network) \in DeclineClass
<1>1. r \in Roll
  BY RollAssumption
<1>2. /\ r.network \in {"visa", "mastercard"} /\ r.hardClass \in DeclineClass
      /\ r.day \in Nat /\ r.hour \in Nat /\ r.cureHours \in Nat
  <2>1. /\ r.network \in {"visa", "mastercard"} /\ r.hardClass \in DeclineClass
        /\ r.cureHours \in Nat
    BY <1>1 DEF Roll
  <2>2. r.day \in 0 .. 27 /\ r.hour \in 0 .. 20
    BY <1>1 DEF Roll
  <2> QED  BY <2>1, <2>2
<1>3. SoftClass(r.network) \in {"mac02", "cat23"}
  BY DEF SoftClass
<1>4. {"mac02", "cat23"} \subseteq DeclineClass /\ {"visa", "mastercard"} \subseteq Network
  BY DEF DeclineClass, MerchantAdvice, Network
<1> QED  BY <1>2, <1>3, <1>4

LEMMA OwnScopes ==
  ASSUME NEW kind \in {"pd", "trap", "cap", "ho", "ten"}, NEW i \in Nat,
         NEW network \in Network
  PROVE  OwnScope(kind, i, network) \in ScopeKeys
  BY DEF OwnScope, ScopeKeys

LEMMA StreamsAreSequences ==
  ASSUME NEW n \in Nat, NEW s, DOMAIN s = 1 .. n, s = [i \in 1 .. n |-> s[i]],
         \A i \in 1 .. n : FailureOK(s[i])
  PROVE  StreamOK(s)
<1>1. Len(s) = n
  OBVIOUS
<1> QED  BY <1>1 DEF StreamOK

LEMMA PaydayTimingOK ==
  ASSUME NEW n \in Nat, NEW rolls \in [1 .. n -> Rolls]
  PROVE  StreamOK(PaydayTimingStream(rolls))
<1>1. ASSUME NEW i \in 1 .. n PROVE FailureOK(PaydayTimingStream(rolls)[i])
  <2>1. rolls[i] \in Rolls
    OBVIOUS
  <2>2. 24 * rolls[i].day + rolls[i].hour \in Int
    BY <2>1, RollFields
  <2>3. OwnScope("pd", i, rolls[i].network) \in ScopeKeys
    BY <2>1, RollFields, OwnScopes
  <2> QED  BY <2>1, <2>2, <2>3, RollFields, MadeFailuresAreOK DEF PaydayTimingStream
<1> QED  BY <1>1, StreamsAreSequences DEF PaydayTimingStream

LEMMA PenaltyTrapOK ==
  ASSUME NEW n \in Nat, NEW rolls \in [1 .. n -> Rolls]
  PROVE  StreamOK(PenaltyTrapStream(rolls))
<1>1. ASSUME NEW i \in 1 .. n PROVE FailureOK(PenaltyTrapStream(rolls)[i])
  <2>1. rolls[i] \in Rolls
    OBVIOUS
  <2>2. (i - 1) * rolls[i].hour \in Int
    BY <2>1, RollFields
  <2>3. 62 + (i - 1) * rolls[i].hour \in Int
    BY <2>2
  <2>4. OwnScope("trap", i, rolls[i].network) \in ScopeKeys
    BY <2>1, RollFields, OwnScopes
  <2> QED  BY <2>1, <2>3, <2>4, RollFields, MadeFailuresAreOK DEF PenaltyTrapStream
<1> QED  BY <1>1, StreamsAreSequences DEF PenaltyTrapStream

LEMMA CapExceedOK ==
  ASSUME NEW n \in Nat, NEW rolls \in [1 .. n -> Rolls]
  PROVE  StreamOK(CapExceedStream(rolls))
<1>1. ASSUME NEW i \in 1 .. n PROVE FailureOK(CapExceedStream(rolls)[i])
  <2>1. rolls[i] \in Rolls
    OBVIOUS
  <2>2. 34 + 24 * (i - 1) + rolls[i].hour \in Int
    BY <2>1, RollFields
  <2>3. OwnScope("cap", 0, "visa") \in ScopeKeys /\ "visa" \in Network
        /\ "cat23" \in DeclineClass
    BY OwnScopes DEF Network, DeclineClass
  <2> QED  BY <2>1, <2>2, <2>3, MadeFailuresAreOK DEF CapExceedStream
<1> QED  BY <1>1, StreamsAreSequences DEF CapExceedStream

LEMMA MixedTenureOK ==
  ASSUME NEW n \in Nat, NEW rolls \in [1 .. n -> Rolls]
  PROVE  StreamOK(MixedTenureStream(rolls))
<1>1. ASSUME NEW i \in 1 .. n PROVE FailureOK(MixedTenureStream(rolls)[i])
  <2>1. rolls[i] \in Rolls
    OBVIOUS
  <2>2. 180 + 24 * rolls[i].day + rolls[i].hour \in Int
    BY <2>1, RollFields
  <2>3. OwnScope("ten", i, rolls[i].network) \in ScopeKeys
    BY <2>1, RollFields, OwnScopes
  <2> QED  BY <2>1, <2>2, <2>3, RollFields, MadeFailuresAreOK DEF MixedTenureStream
<1> QED  BY <1>1, StreamsAreSequences DEF MixedTenureStream

LEMMA HostileOrderingOK ==
  ASSUME NEW n \in Nat, NEW rolls \in [1 .. 2 * n -> Rolls]
  PROVE  StreamOK(HostileOrderingStream(rolls))
<1>1. ASSUME NEW j \in 1 .. 2 * n PROVE FailureOK(HostileOrderingStream(rolls)[j])
  <2> DEFINE i       == (j + 1) \div 2
             network == rolls[2 * i - 1].network
             first   == 104 + 48 * (i - 1)
  <2>1. i \in Nat /\ 2 * i - 1 \in 1 .. 2 * n
    OBVIOUS
  <2>2. rolls[j] \in Rolls /\ rolls[2 * i - 1] \in Rolls
    BY <2>1
  <2>3. network \in Network /\ SoftClass(network) \in DeclineClass
    BY <2>2, RollFields
  <2>4. first \in Int /\ first + rolls[j].hour \in Int
    BY <2>1, <2>2, RollFields
  <2>5. OwnScope("ho", i, network) \in ScopeKeys
    BY <2>1, <2>3, OwnScopes
  <2>6. rolls[j].hardClass \in DeclineClass
    BY <2>2, RollFields
  <2> DEFINE hard == MakeFailure(rolls[j], OwnScope("ho", i, network), network,
                                 rolls[j].hardClass, first, first + rolls[j].cureHours)
             soft == MakeFailure(rolls[j], OwnScope("ho", i, network), network,
                                 SoftClass(network), first + rolls[j].hour, first + 72)
  <2>7. HostileOrderingStream(rolls)[j] \in {hard, soft}
    BY DEF HostileOrderingStream
  <2> HIDE DEF i, network, first
  <2>8. FailureOK(hard)
    BY <2>2, <2>3, <2>4, <2>5, <2>6, MadeFailuresAreOK
  <2>9. FailureOK(soft)
    BY <2>2, <2>3, <2>4, <2>5, MadeFailuresAreOK
  <2> QED  BY <2>7, <2>8, <2>9
<1>2. 2 * n \in Nat
  OBVIOUS
<1>3. DOMAIN HostileOrderingStream(rolls) = 1 .. 2 * n
  BY DEF HostileOrderingStream
<1> QED  BY <1>1, <1>2, <1>3, StreamsAreSequences DEF HostileOrderingStream

LEMMA CorporaAreOK == corpus \in Corpora => CorpusOK
<1> SUFFICES ASSUME corpus \in Corpora PROVE CorpusOK
  OBVIOUS
<1>1. PICK pd \in [1 .. Failures.paydayTiming -> Rolls],
           trap \in [1 .. Failures.penaltyTrap -> Rolls],
           cap \in [1 .. Failures.capExceed -> Rolls],
           ho \in [1 .. 2 * Failures.hostileOrdering -> HardRolls],
           ten \in [1 .. Failures.mixedTenure -> Rolls] :
        corpus = <<PaydayTimingStream(pd), PenaltyTrapStream(trap), CapExceedStream(cap),
                   HostileOrderingStream(ho), MixedTenureStream(ten)>>
  BY DEF Corpora
<1>2. ho \in [1 .. 2 * Failures.hostileOrdering -> Rolls]
  BY DEF HardRolls
<1>3. /\ StreamOK(PaydayTimingStream(pd)) /\ StreamOK(PenaltyTrapStream(trap))
      /\ StreamOK(CapExceedStream(cap)) /\ StreamOK(HostileOrderingStream(ho))
      /\ StreamOK(MixedTenureStream(ten))
  BY <1>2, FailuresAssumption, PaydayTimingOK, PenaltyTrapOK, CapExceedOK,
     HostileOrderingOK, MixedTenureOK
<1> QED  BY <1>1, <1>3 DEF CorpusOK

-----------------------------------------------------------------------------
(* A move leads to another point of the grid.                              *)
LEMMA NeighboursAreOnTheGrid ==
  ASSUME NEW p \in Params, NEW m \in MovesFrom(p)
  PROVE  Neighbour(p, m) \in Params /\ Neighbour(p, m) # p
<1> DEFINE key == Moves[m].key
           old == IndexOf(key, p[key])
           new == old + Moves[m].delta
<1>1. m \in 1 .. 6
  BY DEF MovesFrom, Moves
<1>2. /\ key \in {"firstOffsetHours", "stepHours", "paydaySnapDays"}
      /\ Moves[m].delta \in {-1, 1}
  BY <1>1 DEF Moves
<1>3. p[key] \in OnGrid(key)
  BY <1>2 DEF Params
<1>4. PICK i \in DOMAIN ParamGrid[key] : ParamGrid[key][i] = p[key]
  BY <1>3 DEF OnGrid
<1>5. old \in DOMAIN ParamGrid[key] /\ ParamGrid[key][old] = p[key]
  BY <1>4 DEF IndexOf
<1>6. new \in DOMAIN ParamGrid[key]
  BY DEF MovesFrom
<1> HIDE DEF key, old
<1>7. new # old
  BY <1>2, <1>5 DEF ParamGrid
<1>8. ParamGrid[key][new] # ParamGrid[key][old]
  <2>1. CASE key = "firstOffsetHours"
    BY <1>5, <1>6, <1>7, <2>1 DEF ParamGrid
  <2>2. CASE key = "stepHours"
    BY <1>5, <1>6, <1>7, <2>2 DEF ParamGrid
  <2>3. CASE key = "paydaySnapDays"
    BY <1>5, <1>6, <1>7, <2>3 DEF ParamGrid
  <2> QED  BY <1>2, <2>1, <2>2, <2>3
<1>9. ParamGrid[key][new] \in OnGrid(key)
  BY <1>6 DEF OnGrid
<1>10. Neighbour(p, m) = [p EXCEPT ![key] = ParamGrid[key][new]]
  BY DEF Neighbour, key, old
<1>11. DOMAIN p = {"firstOffsetHours", "stepHours", "paydaySnapDays"}
  BY DEF Params
<1> HIDE DEF new
<1>12. Neighbour(p, m)[key] # p[key]
  BY <1>2, <1>5, <1>8, <1>10, <1>11
<1>13. Neighbour(p, m) \in Params
  <2>1. CASE key = "firstOffsetHours"
    BY <1>9, <1>10, <2>1 DEF Params
  <2>2. CASE key = "stepHours"
    BY <1>9, <1>10, <2>2 DEF Params
  <2>3. CASE key = "paydaySnapDays"
    BY <1>9, <1>10, <2>3 DEF Params
  <2> QED  BY <1>2, <2>1, <2>2, <2>3
<1> QED  BY <1>12, <1>13

LEMMA PolicyV1IsOnTheGrid == PolicyV1 \in Params
<1>1. ParamGrid.firstOffsetHours[3] = 24 /\ 3 \in DOMAIN ParamGrid.firstOffsetHours
  BY DEF ParamGrid
<1>2. ParamGrid.stepHours[4] = 72 /\ 4 \in DOMAIN ParamGrid.stepHours
  BY DEF ParamGrid
<1>3. ParamGrid.paydaySnapDays[1] = 0 /\ 1 \in DOMAIN ParamGrid.paydaySnapDays
  BY DEF ParamGrid
<1>4. 24 \in OnGrid("firstOffsetHours") /\ 72 \in OnGrid("stepHours")
      /\ 0 \in OnGrid("paydaySnapDays")
  BY <1>1, <1>2, <1>3 DEF OnGrid
<1> QED  BY <1>4 DEF PolicyV1, Params

-----------------------------------------------------------------------------
(***************************************************************************)
(* What the guardrail lets through costs no fee: at a later moment no more *)
(* attempts lie in the window than at the failure.                         *)
(***************************************************************************)
Attempt == [scopeKey : ScopeKeys, ts : Int]

LEMMA LaterWindowsHoldFewer ==
  ASSUME NEW history \in Seq(Attempt), NEW key, NEW from \in Int, NEW later \in Int,
         from <= later
  PROVE  /\ CountAfter(history, key, later) \in Nat
         /\ CountAfter(history, key, from) \in Nat
         /\ CountAfter(history, key, later) <= CountAfter(history, key, from)
<1> DEFINE In(t) == {k \in DOMAIN history : history[k].scopeKey = key /\ history[k].ts > t}
<1>1. DOMAIN history = 1 .. Len(history) /\ Len(history) \in Nat
  OBVIOUS
<1>2. \A k \in DOMAIN history : history[k].ts \in Int
  <2> SUFFICES ASSUME NEW k \in DOMAIN history PROVE history[k].ts \in Int
    OBVIOUS
  <2>1. history[k] \in Attempt
    BY <1>1
  <2> QED  BY <2>1 DEF Attempt
<1>3. In(later) \subseteq In(from)
  BY <1>2
<1>4. IsFiniteSet(In(from))
  <2>1. IsFiniteSet(1 .. Len(history))
    BY <1>1, FS_Interval
  <2>2. In(from) \subseteq 1 .. Len(history)
    BY <1>1
  <2> QED  BY <2>1, <2>2, FS_Subset
<1> HIDE DEF In
<1>5. /\ IsFiniteSet(In(later))
      /\ Cardinality(In(later)) <= Cardinality(In(from))
  BY <1>3, <1>4, FS_Subset
<1>6. Cardinality(In(later)) \in Nat /\ Cardinality(In(from)) \in Nat
  BY <1>4, <1>5, FS_CardinalityType
<1> QED  BY <1>5, <1>6 DEF CountAfter, In

LEMMA AllowedRetriesAreFree ==
  ASSUME NEW f, FailureOK(f), NEW t \in Int, f.ts <= t, executed \in Seq(Attempt),
         MayExecute(f)
  PROVE  TriageAction(f.network, f.class) = "RETRY_SOFT" /\ Fee(f, t) = 0
<1>1. /\ TriageAction(f.network, f.class) = "RETRY_SOFT"
      /\ f.network = "visa" =>
           ~ (CountAfter(executed, f.scopeKey, f.ts - Window30d) >= VisaMax30d)
      /\ f.network = "mastercard" =>
           ~ (CountAfter(executed, f.scopeKey, f.ts - Window30d) >= McMax30d)
  BY DEF MayExecute, Allowed, OverVisaCap, OverMc30dCap
<1>2. /\ Window30d \in Nat /\ VisaMax30d \in Nat /\ McMax30d \in Nat
      /\ VisaRafCap30d \in Nat /\ McTpeCap30d \in Nat
      /\ VisaMax30d <= VisaRafCap30d /\ McMax30d <= McTpeCap30d
  BY CapAssumption, FeeAssumption
<1> DEFINE before == CountAfter(executed, f.scopeKey, f.ts - Window30d)
           after  == CountAfter(executed, f.scopeKey, t - Window30d)
<1>3. after \in Nat /\ before \in Nat /\ after <= before
  <2>1. f.ts - Window30d \in Int /\ t - Window30d \in Int
        /\ f.ts - Window30d <= t - Window30d
    BY <1>2 DEF FailureOK
  <2> QED  BY <2>1, LaterWindowsHoldFewer
<1>4. ~ HardRetry(f)
  BY <1>1 DEF HardRetry
<1>5. ~ PastVisaRaf(f, t) /\ ~ PastMcTpe30d(f, t)
  BY <1>1, <1>2, <1>3 DEF PastVisaRaf, PastMcTpe30d
<1> QED  BY <1>1, <1>4, <1>5 DEF Fee

-----------------------------------------------------------------------------
(***************************************************************************)
(* The inductive invariant.  A grade under way has paid no fee, and        *)
(* before the second and third retry of a failure it has one recovery to   *)
(* spare.  A round's best so far is the parameters it began with, or       *)
(* strictly better ones.                                                   *)
(***************************************************************************)
Clean(m) ==
  m \in Metrics /\ m.penaltyFeeMinor = 0 /\ m.recoveredCount <= m.retryableCount

Stage == {"baseline", "first", "pick", "candidate", "done"}

GradeOK ==
  /\ CorpusOK
  /\ params \in Params
  /\ stream \in Nat \ {0} /\ failure \in Nat \ {0} /\ retry \in 0 .. 2
  /\ executed \in Seq(Attempt)
  /\ metrics \in Metrics

PolicyGrade ==
  /\ metrics.penaltyFeeMinor = 0
  /\ metrics.recoveredCount <= metrics.retryableCount
  /\ retry > 0 => metrics.recoveredCount < metrics.retryableCount

RoundRecord ==
  [params : Params, metrics : {m \in Metrics : Clean(m)}, improved : BOOLEAN]

RoundOK ==
  /\ current \in Params /\ best \in Params /\ baselineMetrics \in Metrics
  /\ Clean(currentMetrics) /\ Clean(bestMetrics)
  /\ todo \subseteq MovesFrom(current)
  /\ improved \in BOOLEAN
  /\ improved => best # current /\ Objective(bestMetrics) > Objective(currentMetrics)
  /\ ~ improved => best = current /\ bestMetrics = currentMetrics

Opened == stage \in {"pick", "candidate", "done"}

RecordsOK ==
  /\ records \in Seq(RoundRecord)
  /\ RoundsOnlyImprove
  /\ ~ Opened => records = <<>>
  /\ Opened =>
       /\ records # <<>>
       /\ records[Len(records)].params = current
       /\ records[Len(records)].metrics = currentMetrics

IInv ==
  /\ stage \in Stage
  /\ GradeOK /\ RoundOK /\ RecordsOK
  /\ stage \in {"first", "candidate"} => PolicyGrade
  /\ stage = "candidate" => params # current

LEMMA EmptyMetricsAreClean == Clean(EmptyMetrics)
  BY DEF Clean, EmptyMetrics, Metrics

LEMMA ObjectivesAreIntegers ==
  ASSUME NEW m \in Metrics
  PROVE  Objective(m) \in Int
  BY DEF Objective, Metrics

(* The failure the arm stands before is one of the corpus.                 *)
LEMMA FailingIsOK ==
  ASSUME GradeOK, Standing
  PROVE  FailureOK(Failing)
<1>1. Len(corpus) = 5 /\ stream \in 1 .. 5
  BY DEF GradeOK, CorpusOK, Standing, Graded
<1>2. StreamOK(corpus[stream])
  BY <1>1 DEF GradeOK, CorpusOK
<1>3. PICK n \in Nat : Len(corpus[stream]) = n /\ \A i \in 1 .. n : FailureOK(corpus[stream][i])
  BY <1>2 DEF StreamOK
<1>4. failure \in 1 .. n
  BY <1>3 DEF GradeOK, Standing
<1> QED  BY <1>3, <1>4 DEF Failing

LEMMA NewlyRetryableIsACount ==
  ASSUME NEW f
  PROVE  /\ NewlyRetryable(f) \in {0, 1}
         /\ retry = 0 /\ TriageAction(f.network, f.class) = "RETRY_SOFT" =>
              NewlyRetryable(f) = 1
  BY DEF NewlyRetryable, One

LEMMA CostsAreNatural ==
  ASSUME NEW f, NEW t
  PROVE  Violations(f, t) \in Nat /\ Fee(f, t) \in Nat
<1>1. \A c \in BOOLEAN : One(c) \in Nat
  BY DEF One
<1>2. /\ One(HardRetry(f)) \in Nat /\ One(PastVisaRaf(f, t)) \in Nat
      /\ One(PastMcTpe30d(f, t)) \in Nat /\ One(PastMcTpe24h(f, t)) \in Nat
  BY DEF One
<1>3. FeeHardDeclineRetry \in Nat /\ FeeVisaRaf \in Nat /\ FeeMcTpe \in Nat
  BY FeeAssumption
<1> QED  BY <1>2, <1>3 DEF Violations, Fee

(* An executed attempt, by either arm.                                     *)
LEMMA ExecuteKeepsGrade ==
  ASSUME GradeOK, NEW f, FailureOK(f), NEW t \in Int, Execute(f, t), UNCHANGED corpus
  PROVE  /\ GradeOK'
         /\ metrics'.penaltyFeeMinor = metrics.penaltyFeeMinor + Fee(f, t)
         /\ metrics'.retryableCount = metrics.retryableCount + NewlyRetryable(f)
         /\ \/ metrics'.recoveredCount = metrics.recoveredCount
            \/ metrics'.recoveredCount = metrics.recoveredCount + 1 /\ retry' = 0
<1> DEFINE recovered == f.draws[retry + 1] < PRecoverAt(f, retry, t)
           won       == One(recovered)
           amount    == IF recovered THEN f.amountMinor ELSE 0
           new       == [metrics EXCEPT
                           !.recoveredCount = @ + won,
                           !.retryableCount = @ + NewlyRetryable(f),
                           !.complianceViolations = @ + Violations(f, t),
                           !.penaltyFeeMinor = @ + Fee(f, t),
                           !.recoveredAmountMinor = @ + amount]
<1>1. /\ metrics' = new
      /\ executed' = Append(executed, [scopeKey |-> f.scopeKey, ts |-> t])
      /\ \/ recovered /\ NextFailure
         \/ ~ recovered /\ retry = 2 /\ NextFailure
         \/ ~ recovered /\ retry # 2 /\ retry' = retry + 1 /\ UNCHANGED failure
      /\ UNCHANGED <<params, stream>>
  BY DEF Execute
<1>2. /\ won \in {0, 1} /\ (~ recovered => won = 0) /\ amount \in Nat
  BY DEF One, FailureOK
<1>3. failure' \in Nat \ {0} /\ retry' \in 0 .. 2 /\ (recovered => retry' = 0)
  BY <1>1 DEF NextFailure, GradeOK
<1> HIDE DEF recovered, won, amount
<1>4. /\ metrics \in Metrics
      /\ NewlyRetryable(f) \in Nat /\ Violations(f, t) \in Nat /\ Fee(f, t) \in Nat
  BY NewlyRetryableIsACount, CostsAreNatural DEF GradeOK
<1>5. /\ new \in Metrics
      /\ new.recoveredCount = metrics.recoveredCount + won
      /\ new.retryableCount = metrics.retryableCount + NewlyRetryable(f)
      /\ new.penaltyFeeMinor = metrics.penaltyFeeMinor + Fee(f, t)
  <2> DEFINE m1 == [metrics EXCEPT !.recoveredCount = metrics.recoveredCount + won]
             m2 == [m1 EXCEPT !.retryableCount = metrics.retryableCount + NewlyRetryable(f)]
             m3 == [m2 EXCEPT !.complianceViolations =
                                metrics.complianceViolations + Violations(f, t)]
             m4 == [m3 EXCEPT !.penaltyFeeMinor = metrics.penaltyFeeMinor + Fee(f, t)]
             m5 == [m4 EXCEPT !.recoveredAmountMinor = metrics.recoveredAmountMinor + amount]
  <2>0. new = m5
    OBVIOUS
  <2>1. /\ metrics.recoveredCount + won \in Nat
        /\ metrics.retryableCount + NewlyRetryable(f) \in Nat
        /\ metrics.complianceViolations + Violations(f, t) \in Nat
        /\ metrics.penaltyFeeMinor + Fee(f, t) \in Nat
        /\ metrics.recoveredAmountMinor + amount \in Nat
    BY <1>2, <1>4 DEF Metrics
  <2>2. m1 \in Metrics /\ m1.recoveredCount = metrics.recoveredCount + won
    BY <1>4, <2>1 DEF Metrics
  <2> HIDE DEF m1
  <2>3. /\ m2 \in Metrics /\ m2.recoveredCount = m1.recoveredCount
        /\ m2.retryableCount = metrics.retryableCount + NewlyRetryable(f)
    BY <2>1, <2>2 DEF Metrics
  <2> HIDE DEF m2
  <2>4. /\ m3 \in Metrics /\ m3.recoveredCount = m2.recoveredCount
        /\ m3.retryableCount = m2.retryableCount
    BY <2>1, <2>3 DEF Metrics
  <2> HIDE DEF m3
  <2>5. /\ m4 \in Metrics /\ m4.recoveredCount = m3.recoveredCount
        /\ m4.retryableCount = m3.retryableCount
        /\ m4.penaltyFeeMinor = metrics.penaltyFeeMinor + Fee(f, t)
    BY <2>1, <2>4 DEF Metrics
  <2> HIDE DEF m4
  <2>6. /\ m5 \in Metrics /\ m5.recoveredCount = m4.recoveredCount
        /\ m5.retryableCount = m4.retryableCount
        /\ m5.penaltyFeeMinor = m4.penaltyFeeMinor
    BY <2>1, <2>5 DEF Metrics
  <2> HIDE DEF m5
  <2> QED  BY <2>0, <2>2, <2>3, <2>4, <2>5, <2>6
<1> HIDE DEF new
<1>6. executed' \in Seq(Attempt)
  <2>1. [scopeKey |-> f.scopeKey, ts |-> t] \in Attempt
    BY DEF Attempt, FailureOK
  <2> QED  BY <1>1, <2>1 DEF GradeOK
<1>7. GradeOK'
  BY <1>1, <1>3, <1>5, <1>6 DEF GradeOK, CorpusOK
<1>8. metrics.recoveredCount \in Nat
  BY <1>4 DEF Metrics
<1> QED  BY <1>1, <1>2, <1>3, <1>5, <1>7, <1>8

LEMMA StreamEndKeepsGrade ==
  ASSUME GradeOK, StreamEnd, UNCHANGED corpus
  PROVE  GradeOK' /\ (PolicyGrade => PolicyGrade')
<1>1. /\ stream' = stream + 1 /\ failure' = 1 /\ retry' = 0 /\ executed' = <<>>
      /\ UNCHANGED <<params, metrics>>
  BY DEF StreamEnd
<1> QED  BY <1>1 DEF GradeOK, CorpusOK, PolicyGrade

LEMMA BaselineKeepsGrade ==
  ASSUME GradeOK, BaselineAttempt, UNCHANGED corpus
  PROVE  GradeOK'
<1> DEFINE t == Failing.ts + <<24, 72, 168>>[retry + 1]
<1>1. FailureOK(Failing) /\ Execute(Failing, t)
  BY FailingIsOK DEF BaselineAttempt
<1>2. retry + 1 \in 1 .. 3
  BY DEF GradeOK
<1>3. t \in Int
  BY <1>1, <1>2 DEF FailureOK
<1> HIDE DEF t
<1> QED  BY <1>1, <1>3, ExecuteKeepsGrade

LEMMA PolicyAttemptKeepsGrade ==
  ASSUME GradeOK, PolicyGrade, PolicyAttempt, UNCHANGED corpus
  PROVE  GradeOK' /\ PolicyGrade'
<1> DEFINE t == CandidateMoment(Failing.ts, params, retry)
<1>1. FailureOK(Failing) /\ MayExecute(Failing) /\ Execute(Failing, t)
  BY FailingIsOK DEF PolicyAttempt
<1>2. t \in Int /\ Failing.ts <= t
  BY <1>1, MomentsFollowTheFailure DEF FailureOK, GradeOK
<1> HIDE DEF t
<1>3. TriageAction(Failing.network, Failing.class) = "RETRY_SOFT" /\ Fee(Failing, t) = 0
  BY <1>1, <1>2, AllowedRetriesAreFree DEF GradeOK
<1>4. /\ GradeOK'
      /\ metrics'.penaltyFeeMinor = metrics.penaltyFeeMinor + Fee(Failing, t)
      /\ metrics'.retryableCount = metrics.retryableCount + NewlyRetryable(Failing)
      /\ \/ metrics'.recoveredCount = metrics.recoveredCount
         \/ metrics'.recoveredCount = metrics.recoveredCount + 1 /\ retry' = 0
  BY <1>1, <1>2, ExecuteKeepsGrade
<1>5. /\ NewlyRetryable(Failing) \in {0, 1}
      /\ retry = 0 => NewlyRetryable(Failing) = 1
  BY <1>3, NewlyRetryableIsACount
<1>6. /\ metrics.recoveredCount \in Nat /\ metrics.retryableCount \in Nat
      /\ metrics.penaltyFeeMinor \in Nat /\ retry \in 0 .. 2 /\ retry' \in 0 .. 2
  BY <1>4 DEF GradeOK, Metrics
<1>7. PolicyGrade'
  BY <1>3, <1>4, <1>5, <1>6 DEF PolicyGrade
<1> QED  BY <1>4, <1>7

LEMMA PolicyStopKeepsGrade ==
  ASSUME GradeOK, PolicyGrade, PolicyStop, UNCHANGED corpus
  PROVE  GradeOK' /\ PolicyGrade'
<1> DEFINE new == metrics.retryableCount + NewlyRetryable(Failing)
<1>1. /\ metrics' = [metrics EXCEPT !.retryableCount = new]
      /\ failure' = failure + 1 /\ retry' = 0
      /\ UNCHANGED <<params, stream, executed>>
  BY DEF PolicyStop, NextFailure
<1>2. metrics \in Metrics /\ metrics.retryableCount \in Nat /\ metrics.recoveredCount \in Nat
  BY DEF GradeOK, Metrics
<1>3. new \in Nat /\ metrics.retryableCount <= new
  BY <1>2, NewlyRetryableIsACount
<1> HIDE DEF new
<1>4. /\ metrics' \in Metrics /\ metrics'.retryableCount = new
      /\ metrics'.recoveredCount = metrics.recoveredCount
      /\ metrics'.penaltyFeeMinor = metrics.penaltyFeeMinor
  BY <1>1, <1>2, <1>3 DEF Metrics
<1>5. GradeOK'
  BY <1>1, <1>4 DEF GradeOK, CorpusOK
<1> QED  BY <1>1, <1>2, <1>3, <1>4, <1>5 DEF PolicyGrade

LEMMA BeginGradeIsOK ==
  ASSUME GradeOK, NEW arm \in Params, BeginGrade(arm), UNCHANGED corpus
  PROVE  GradeOK' /\ PolicyGrade' /\ params' = arm
<1>1. metrics' = EmptyMetrics /\ retry' = 0 /\ params' = arm
  BY DEF BeginGrade
<1>2. GradeOK'
  BY <1>1, EmptyMetricsAreClean DEF BeginGrade, GradeOK, CorpusOK, Clean
<1>3. PolicyGrade'
  BY <1>1, EmptyMetricsAreClean DEF PolicyGrade, Clean
<1> QED  BY <1>1, <1>2, <1>3

LEMMA PolicyGradesAreClean ==
  ASSUME GradeOK, PolicyGrade
  PROVE  Clean(metrics)
  BY DEF GradeOK, PolicyGrade, Clean

-----------------------------------------------------------------------------
(***************************************************************************)
(* A round that opens puts its parameters on record.                       *)
(***************************************************************************)
LEMMA OpenRoundKeepsRecords ==
  ASSUME RecordsOK, NEW p \in Params, NEW m, Clean(m), NEW better \in BOOLEAN,
         records # <<>> =>
           LET last == records[Len(records)]
           IN  \/ better /\ p # last.params /\ Objective(m) > Objective(last.metrics)
               \/ ~ better /\ p = last.params /\ m = last.metrics,
         OpenRound(p, m, better), baselineMetrics \in Metrics, UNCHANGED baselineMetrics
  PROVE  RoundOK' /\ RecordsOK' /\ stage' \in {"pick", "done"}
<1> DEFINE new == [params |-> p, metrics |-> m, improved |-> better]
<1>1. /\ records' = Append(records, new)
      /\ current' = p /\ currentMetrics' = m /\ best' = p /\ bestMetrics' = m
      /\ improved' = FALSE /\ stage' \in {"pick", "done"}
      /\ todo' \subseteq MovesFrom(p)
  BY DEF OpenRound
<1>2. new \in RoundRecord
  BY DEF RoundRecord, Clean
<1>3. records \in Seq(RoundRecord) /\ Len(records) \in Nat
  BY DEF RecordsOK
<1>4. RoundOK'
  BY <1>1 DEF RoundOK, Clean
<1>5. /\ new.params = p /\ new.metrics = m /\ (new.improved <=> better)
  OBVIOUS
<1> HIDE DEF new
<1>6. /\ records' \in Seq(RoundRecord) /\ Len(records') = Len(records) + 1
      /\ records'[Len(records')] = new
      /\ DOMAIN records' = 1 .. Len(records) + 1 /\ DOMAIN records = 1 .. Len(records)
      /\ \A i \in 1 .. Len(records) : records'[i] = records[i]
  BY <1>1, <1>2, <1>3
<1>7. RoundsOnlyImprove'
  <2> SUFFICES ASSUME NEW i \in DOMAIN records', i # 1
               PROVE  LET last == records'[i - 1]
                          now  == records'[i]
                      IN  \/ /\ now.improved /\ now.params # last.params
                             /\ Objective(now.metrics) > Objective(last.metrics)
                          \/ /\ ~ now.improved
                             /\ now.params = last.params /\ now.metrics = last.metrics
    BY DEF RoundsOnlyImprove
  <2>1. CASE i \in 1 .. Len(records)
    <3>1. i \in DOMAIN records \ {1} /\ i - 1 \in 1 .. Len(records)
      BY <1>3, <1>6, <2>1
    <3>2. records'[i] = records[i] /\ records'[i - 1] = records[i - 1]
      BY <1>6, <3>1
    <3> QED  BY <3>1, <3>2 DEF RecordsOK, RoundsOnlyImprove
  <2>2. CASE i = Len(records) + 1
    <3>1. Len(records) \in 1 .. Len(records) /\ records # <<>> /\ i - 1 = Len(records)
      BY <1>3, <2>2
    <3>2. records'[i] = new /\ records'[i - 1] = records[Len(records)]
      BY <1>6, <2>2, <3>1
    <3> QED  BY <1>5, <3>1, <3>2
  <2> QED  BY <1>3, <1>6, <2>1, <2>2
<1>8. RecordsOK'
  BY <1>1, <1>3, <1>5, <1>6, <1>7 DEF RecordsOK, Opened
<1> QED  BY <1>1, <1>4, <1>8

-----------------------------------------------------------------------------
LEMMA IInvInit == Init => IInv
<1> SUFFICES ASSUME Init PROVE IInv
  OBVIOUS
<1>1. GradeOK
  BY CorporaAreOK, PolicyV1IsOnTheGrid, EmptyMetricsAreClean
     DEF Init, InitGrade, GradeOK, Clean
<1>2. RoundOK
  BY PolicyV1IsOnTheGrid, EmptyMetricsAreClean DEF Init, RoundOK, Clean
<1>3. RecordsOK
  BY DEF Init, RecordsOK, RoundsOnlyImprove, Opened
<1> QED  BY <1>1, <1>2, <1>3 DEF Init, IInv, Stage

(* What the records and the round hold does not depend on the grade.       *)
LEMMA RoundsUntouched ==
  ASSUME RoundOK, UNCHANGED <<baselineMetrics, roundVars>>
  PROVE  RoundOK'
  BY DEF RoundOK, roundVars

LEMMA RecordsUntouched ==
  ASSUME RecordsOK, UNCHANGED <<records, current, currentMetrics>>,
         Opened' <=> Opened
  PROVE  RecordsOK'
  BY DEF RecordsOK, RoundsOnlyImprove

LEMMA GradeBaselineKeepsIInv ==
  ASSUME IInv, GradeBaseline
  PROVE  IInv'
<1>1. /\ GradeOK /\ UNCHANGED corpus /\ (BaselineAttempt \/ StreamEnd)
      /\ stage = "baseline" /\ stage' = "baseline"
      /\ UNCHANGED <<baselineMetrics, roundVars, records, current, currentMetrics>>
  BY DEF GradeBaseline, IInv, roundVars
<1>2. GradeOK'
  BY <1>1, BaselineKeepsGrade, StreamEndKeepsGrade
<1>3. RoundOK' /\ RecordsOK'
  BY <1>1, RoundsUntouched, RecordsUntouched DEF IInv, Opened
<1> QED  BY <1>1, <1>2, <1>3 DEF IInv, Stage

LEMMA GradePolicyKeepsIInv ==
  ASSUME IInv, GradePolicy
  PROVE  IInv'
<1>1. /\ GradeOK /\ PolicyGrade /\ UNCHANGED corpus
      /\ PolicyAttempt \/ PolicyStop \/ StreamEnd
      /\ stage \in {"first", "candidate"} /\ UNCHANGED stage
      /\ UNCHANGED <<baselineMetrics, roundVars, records, current, currentMetrics>>
  BY DEF GradePolicy, IInv, roundVars
<1>2. GradeOK' /\ PolicyGrade'
  BY <1>1, PolicyAttemptKeepsGrade, PolicyStopKeepsGrade, StreamEndKeepsGrade
<1>3. RoundOK' /\ RecordsOK'
  BY <1>1, RoundsUntouched, RecordsUntouched DEF IInv, Opened
<1>4. UNCHANGED params
  BY <1>1 DEF PolicyAttempt, Execute, PolicyStop, StreamEnd
<1> QED  BY <1>1, <1>2, <1>3, <1>4 DEF IInv

LEMMA BaselineGradedKeepsIInv ==
  ASSUME IInv, BaselineGraded
  PROVE  IInv'
<1>1. /\ GradeOK /\ BeginGrade(PolicyV1) /\ UNCHANGED corpus
      /\ stage = "baseline" /\ stage' = "first" /\ baselineMetrics' = metrics
      /\ UNCHANGED <<roundVars, records, current, currentMetrics>>
  BY DEF BaselineGraded, IInv, roundVars
<1>2. GradeOK' /\ PolicyGrade'
  BY <1>1, BeginGradeIsOK, PolicyV1IsOnTheGrid
<1>3. RoundOK'
  BY <1>1 DEF IInv, GradeOK, RoundOK, roundVars
<1>4. RecordsOK'
  BY <1>1, RecordsUntouched DEF IInv, Opened
<1> QED  BY <1>1, <1>2, <1>3, <1>4 DEF IInv, Stage

(* The first grade opens the first round, with nothing on record.          *)
LEMMA FirstGradedKeepsIInv ==
  ASSUME IInv, FirstGraded
  PROVE  IInv'
<1>1. /\ GradeOK /\ PolicyGrade /\ RecordsOK /\ OpenRound(params, metrics, FALSE)
      /\ UNCHANGED <<corpus, gradeVars, baselineMetrics>> /\ baselineMetrics \in Metrics
  BY DEF FirstGraded, IInv, RoundOK
<1>2. Clean(metrics) /\ params \in Params
  BY <1>1, PolicyGradesAreClean DEF GradeOK
<1>5. records = <<>>
  BY DEF FirstGraded, IInv, RecordsOK, Opened
<1>3. RoundOK' /\ RecordsOK' /\ stage' \in {"pick", "done"}
  BY <1>1, <1>2, <1>5, OpenRoundKeepsRecords
<1>4. GradeOK'
  BY <1>1 DEF GradeOK, CorpusOK, gradeVars
<1> QED  BY <1>3, <1>4 DEF IInv, Stage

LEMMA PickCandidateKeepsIInv ==
  ASSUME IInv, PickCandidate
  PROVE  IInv'
<1>1. PICK m \in todo : todo' = todo \ {m} /\ BeginGrade(Neighbour(current, m))
  BY DEF PickCandidate
<1>2. /\ GradeOK /\ UNCHANGED corpus /\ stage = "pick" /\ stage' = "candidate"
      /\ UNCHANGED <<baselineMetrics, current, currentMetrics, best, bestMetrics, improved,
                     records>>
  BY DEF PickCandidate, IInv
<1>3. Neighbour(current, m) \in Params /\ Neighbour(current, m) # current
  BY <1>1, NeighboursAreOnTheGrid DEF IInv, RoundOK
<1>4. GradeOK' /\ PolicyGrade' /\ params' # current'
  BY <1>1, <1>2, <1>3, BeginGradeIsOK
<1>5. RoundOK'
  BY <1>1, <1>2 DEF IInv, RoundOK
<1>6. RecordsOK'
  BY <1>2, RecordsUntouched DEF IInv, Opened
<1> QED  BY <1>2, <1>4, <1>5, <1>6 DEF IInv, Stage

(***************************************************************************)
(* A candidate that wins beats the round's best so far, or ties with one   *)
(* that beats what the round began with.                                   *)
(***************************************************************************)
LEMMA CandidateGradedKeepsIInv ==
  ASSUME IInv, CandidateGraded
  PROVE  IInv'
<1>1. /\ stage = "candidate" /\ stage' = "pick" /\ params \in Params /\ params # current
      /\ UNCHANGED <<corpus, gradeVars, baselineMetrics, current, currentMetrics, todo, records>>
  BY DEF CandidateGraded, IInv, GradeOK
<1>2. Clean(metrics)
  BY <1>1, PolicyGradesAreClean DEF IInv
<1>3. /\ Objective(metrics) \in Int /\ Objective(bestMetrics) \in Int
      /\ Objective(currentMetrics) \in Int
  BY <1>2, ObjectivesAreIntegers DEF IInv, RoundOK, Clean
<1>4. ASSUME Wins, best' = params, bestMetrics' = metrics, improved' = TRUE
      PROVE  RoundOK'
  <2>1. Objective(metrics) > Objective(currentMetrics)
    <3>1. CASE Objective(metrics) > Objective(bestMetrics)
      <4>1. Objective(bestMetrics) >= Objective(currentMetrics)
        BY <1>3 DEF IInv, RoundOK
      <4> QED  BY <1>3, <3>1, <4>1
    <3>2. CASE Objective(metrics) = Objective(bestMetrics) /\ improved
      <4>1. Objective(bestMetrics) > Objective(currentMetrics)
        BY <3>2 DEF IInv, RoundOK
      <4> QED  BY <3>2, <4>1
    <3> QED  BY <1>4, <3>1, <3>2 DEF Wins
  <2> QED  BY <1>1, <1>2, <1>4, <2>1 DEF IInv, RoundOK, Objective
<1>5. ASSUME UNCHANGED <<best, bestMetrics, improved>>
      PROVE  RoundOK'
  BY <1>1, <1>5 DEF IInv, RoundOK, Objective
<1>6. RoundOK'
  BY <1>4, <1>5 DEF CandidateGraded
<1>7. RecordsOK'
  BY <1>1, RecordsUntouched DEF IInv, Opened
<1>8. GradeOK'
  BY <1>1 DEF IInv, GradeOK, CorpusOK, gradeVars
<1> QED  BY <1>1, <1>6, <1>7, <1>8 DEF IInv, Stage

LEMMA CloseRoundKeepsIInv ==
  ASSUME IInv, CloseRound
  PROVE  IInv'
<1> DEFINE last   == records[Len(records)]
           better == Objective(bestMetrics) > Objective(last.metrics)
<1>1. /\ stage = "pick" /\ OpenRound(best, bestMetrics, better)
      /\ UNCHANGED <<corpus, gradeVars, baselineMetrics>>
  BY DEF CloseRound
<1>2. /\ RecordsOK /\ last.params = current /\ last.metrics = currentMetrics
  BY <1>1 DEF IInv, RecordsOK, Opened
<1>3. Objective(bestMetrics) \in Int /\ Objective(currentMetrics) \in Int
  BY ObjectivesAreIntegers DEF IInv, RoundOK, Clean
<1> HIDE DEF last
<1>4. \/ better /\ best # last.params /\ Objective(bestMetrics) > Objective(last.metrics)
      \/ ~ better /\ best = last.params /\ bestMetrics = last.metrics
  <2>1. CASE improved
    BY <1>2, <2>1 DEF IInv, RoundOK
  <2>2. CASE ~ improved
    <3>1. best = current /\ bestMetrics = currentMetrics
      BY <2>2 DEF IInv, RoundOK
    <3>2. ~ better
      BY <1>2, <1>3, <3>1
    <3> QED  BY <1>2, <3>1, <3>2
  <2> QED  BY <2>1, <2>2
<1>5. /\ best \in Params /\ Clean(bestMetrics) /\ baselineMetrics \in Metrics
      /\ UNCHANGED baselineMetrics
  BY <1>1 DEF IInv, RoundOK
<1>8. better \in BOOLEAN
  OBVIOUS
<1> HIDE DEF better
<1>6. RoundOK' /\ RecordsOK' /\ stage' \in {"pick", "done"}
  <2>1. LET l == records[Len(records)]
        IN  \/ better /\ best # l.params /\ Objective(bestMetrics) > Objective(l.metrics)
            \/ ~ better /\ best = l.params /\ bestMetrics = l.metrics
    BY <1>4 DEF last
  <2> QED  BY <1>1, <1>2, <1>5, <1>8, <2>1, OpenRoundKeepsRecords
<1>7. GradeOK'
  BY <1>1 DEF IInv, GradeOK, CorpusOK, gradeVars
<1> QED  BY <1>6, <1>7 DEF IInv, Stage

LEMMA IInvInvariant == Spec => []IInv
<1>1. Init => IInv
  BY IInvInit
<1>2. IInv /\ [Next]_vars => IInv'
  <2> SUFFICES ASSUME IInv, [Next]_vars PROVE IInv'
    OBVIOUS
  <2>1. CASE UNCHANGED vars
    BY <2>1 DEF vars, gradeVars, roundVars, IInv, Stage, GradeOK, CorpusOK, RoundOK,
                RecordsOK, RoundsOnlyImprove, Opened, PolicyGrade
  <2> QED  BY <2>1, GradeBaselineKeepsIInv, GradePolicyKeepsIInv, BaselineGradedKeepsIInv,
              FirstGradedKeepsIInv, PickCandidateKeepsIInv, CandidateGradedKeepsIInv,
              CloseRoundKeepsIInv DEF Next
<1> QED  BY <1>1, <1>2, PTL DEF Spec

LEMMA RecordsAreClean ==
  ASSUME IInv, NEW i \in DOMAIN records
  PROVE  Clean(records[i].metrics)
<1>1. records \in Seq(RoundRecord)
  BY DEF IInv, RecordsOK
<1>2. records[i] \in RoundRecord
  BY <1>1
<1> QED  BY <1>2 DEF RoundRecord

(***************************************************************************)
(* Whatever the loop grades is on the grid, and what it counts is a        *)
(* natural number (policy.ts:21-25, grader.ts:46-60).                      *)
(***************************************************************************)
THEOREM TypeCorrect == Spec => []TypeOK
<1>1. IInv => TypeOK
  <2> SUFFICES ASSUME IInv PROVE TypeOK
    OBVIOUS
  <2>1. executed \in Seq([scopeKey : ScopeKeys, ts : Int])
    BY DEF IInv, GradeOK, Attempt
  <2>2. records \in Seq([params : Params, metrics : Metrics, improved : BOOLEAN])
    <3> DEFINE Record == [params : Params, metrics : Metrics, improved : BOOLEAN]
    <3>1. RoundRecord \subseteq Record
      BY DEF RoundRecord
    <3>2. records \in Seq(RoundRecord)
      BY DEF IInv, RecordsOK
    <3> HIDE DEF Record
    <3>3. records \in Seq(Record)
      BY <3>1, <3>2
    <3> QED  BY <3>3 DEF Record
  <2>3. {metrics, baselineMetrics, currentMetrics, bestMetrics} \subseteq Metrics
    BY DEF IInv, GradeOK, RoundOK, Clean
  <2> QED  BY <2>1, <2>2, <2>3 DEF IInv, Stage, GradeOK, RoundOK, TypeOK
<1> QED  BY <1>1, IInvInvariant, PTL

(***************************************************************************)
(* The policy arm never pays a penalty fee: a retry the guardrail lets     *)
(* through lies past the failure, where no more attempts are in the        *)
(* network's window than in the guardrail's (grader.ts:90-91).             *)
(***************************************************************************)
THEOREM ThePolicyPaysNoFee == Spec => []PolicyPaysNoFee
<1>1. IInv => PolicyPaysNoFee
  BY RecordsAreClean DEF IInv, PolicyGrade, PolicyPaysNoFee, Clean
<1> QED  BY <1>1, IInvInvariant, PTL

(***************************************************************************)
(* The policy arm recovers no more failures than it found retryable, in    *)
(* every grade under way and on record (artifact.ts:23).                   *)
(***************************************************************************)
THEOREM RecoveredWereRetryable == Spec => []RecoveredAreRetryable
<1>1. IInv => RecoveredAreRetryable
  BY RecordsAreClean DEF IInv, PolicyGrade, RecoveredAreRetryable, Clean
<1> QED  BY <1>1, IInvInvariant, PTL

(***************************************************************************)
(* Every round on record raised the objective and moved the parameters, or *)
(* left both as they were, and its flag says which (tuner.ts:17-21).       *)
(***************************************************************************)
THEOREM EveryRoundImprovesOrStays == Spec => []RoundsOnlyImprove
<1>1. IInv => RoundsOnlyImprove
  BY DEF IInv, RecordsOK
<1> QED  BY <1>1, IInvInvariant, PTL

-----------------------------------------------------------------------------
(***************************************************************************)
(* String order on the grid is a strict order.                             *)
(***************************************************************************)
LEMMA RanksAreIntegers ==
  ASSUME NEW p \in Params
  PROVE  /\ Rank(p, "firstOffsetHours") \in Int /\ Rank(p, "stepHours") \in Int
         /\ Rank(p, "paydaySnapDays") \in Int
<1>1. /\ p.firstOffsetHours \in {6, 12, 24, 48} /\ p.stepHours \in {12, 24, 48, 72}
      /\ p.paydaySnapDays \in {0, 1, 3, 7, 14}
  BY DEF Params, OnGrid, ParamGrid
<1>2. \E i \in 1 .. 4 : StringOrder.firstOffsetHours[i] = p.firstOffsetHours
  BY <1>1 DEF StringOrder
<1>3. \E i \in 1 .. 4 : StringOrder.stepHours[i] = p.stepHours
  BY <1>1 DEF StringOrder
<1>4. \E i \in 1 .. 5 : StringOrder.paydaySnapDays[i] = p.paydaySnapDays
  BY <1>1 DEF StringOrder
<1>5. /\ DOMAIN StringOrder.firstOffsetHours = 1 .. 4 /\ DOMAIN StringOrder.stepHours = 1 .. 4
      /\ DOMAIN StringOrder.paydaySnapDays = 1 .. 5
  BY DEF StringOrder
<1>6. Rank(p, "firstOffsetHours") \in 1 .. 4
  BY <1>2, <1>5 DEF Rank
<1>7. Rank(p, "stepHours") \in 1 .. 4
  BY <1>3, <1>5 DEF Rank
<1>8. Rank(p, "paydaySnapDays") \in 1 .. 5
  BY <1>4, <1>5 DEF Rank
<1> QED  BY <1>6, <1>7, <1>8

LEMMA KeyBeforeIsAStrictOrder ==
  ASSUME NEW p \in Params, NEW q \in Params, NEW r \in Params
  PROVE  /\ ~ KeyBefore(p, p)
         /\ KeyBefore(p, q) /\ KeyBefore(q, r) => KeyBefore(p, r)
<1>1. ~ KeyBefore(p, p)
  BY RanksAreIntegers DEF KeyBefore
<1>2. ASSUME KeyBefore(p, q), KeyBefore(q, r) PROVE KeyBefore(p, r)
  <2> DEFINE first(x) == Rank(x, "firstOffsetHours")
             step(x)  == Rank(x, "stepHours")
             snap(x)  == Rank(x, "paydaySnapDays")
  <2>1. \A x \in Params : first(x) \in Int /\ step(x) \in Int /\ snap(x) \in Int
    BY RanksAreIntegers
  <2>2. \A x, y \in Params :
          /\ x.firstOffsetHours = y.firstOffsetHours => first(x) = first(y)
          /\ x.stepHours = y.stepHours => step(x) = step(y)
    BY DEF Rank
  <2>3. \A x, y \in Params :
          KeyBefore(x, y) <=>
            \/ first(x) < first(y)
            \/ x.firstOffsetHours = y.firstOffsetHours /\ step(x) < step(y)
            \/ /\ x.firstOffsetHours = y.firstOffsetHours /\ x.stepHours = y.stepHours
               /\ snap(x) < snap(y)
    BY DEF KeyBefore
  <2> HIDE DEF first, step, snap
  <2> QED  BY <1>2, <2>1, <2>2, <2>3
<1> QED  BY <1>1, <1>2

-----------------------------------------------------------------------------
(***************************************************************************)
(* The search of a round: every neighbour graded so far, but the one under *)
(* way, is beaten by the best so far.                                      *)
(***************************************************************************)
Beaten(p, winner, won, moved) ==
  \E g \in grades :
    /\ g.params = p
    /\ Objective(g.metrics) <= Objective(won)
    /\ Objective(g.metrics) = Objective(won) /\ moved => ~ KeyBefore(p, winner)

GradesOK == grades \subseteq [params : Params, metrics : {m \in Metrics : Clean(m)}]

SearchOK ==
  /\ stage = "pick" =>
       \A m \in MovesFrom(current) \ todo :
         Beaten(Neighbour(current, m), best, bestMetrics, improved)
  /\ stage = "candidate" =>
       \A m \in MovesFrom(current) \ todo :
         \/ Neighbour(current, m) = params
         \/ Beaten(Neighbour(current, m), best, bestMetrics, improved)

SearchInv == GradesOK /\ SearchOK /\ RoundTakesBestNeighbour

(* The rounds on record keep their grades.                                 *)
LEMMA RecordedRoundsStay ==
  ASSUME RoundTakesBestNeighbour, UNCHANGED records, grades \subseteq grades'
  PROVE  RoundTakesBestNeighbour'
  BY DEF RoundTakesBestNeighbour

LEMMA CandidateGradedKeepsSearch ==
  ASSUME IInv, SearchInv, CandidateGraded
  PROVE  SearchInv'
<1> DEFINE grade == [params |-> params, metrics |-> metrics]
<1>1. /\ stage = "candidate" /\ stage' = "pick" /\ params \in Params /\ best \in Params
      /\ grades' = grades \cup {grade}
      /\ UNCHANGED <<current, todo, records>>
  BY DEF CandidateGraded, IInv, GradeOK, RoundOK, Note
<1>2. Clean(metrics) /\ metrics \in Metrics /\ Clean(bestMetrics) /\ bestMetrics \in Metrics
  BY <1>1, PolicyGradesAreClean DEF IInv, RoundOK, Clean
<1>3. Objective(metrics) \in Int /\ Objective(bestMetrics) \in Int
  BY <1>2, ObjectivesAreIntegers
<1>4. GradesOK'
  BY <1>1, <1>2 DEF SearchInv, GradesOK
<1>5. ASSUME NEW g \in grades
      PROVE  g.params \in Params /\ Objective(g.metrics) \in Int
  <2>1. g \in [params : Params, metrics : {m \in Metrics : Clean(m)}]
    BY DEF SearchInv, GradesOK
  <2> QED  BY <2>1, ObjectivesAreIntegers
<1>6. grade \in grades' /\ grade.params = params /\ grade.metrics = metrics
  BY <1>1
<1>7. \A g \in grades : g \in grades'
  BY <1>1
<1> HIDE DEF grade
<1>8. ASSUME NEW m \in MovesFrom(current) \ todo
      PROVE  Beaten(Neighbour(current, m), best, bestMetrics, improved)'
  <2> DEFINE p == Neighbour(current, m)
  <2>1. p = params \/ Beaten(p, best, bestMetrics, improved)
    BY <1>1 DEF SearchInv, SearchOK
  <2>2. p \in Params
    BY NeighboursAreOnTheGrid DEF IInv, RoundOK
  <2>3. UNCHANGED p
    BY <1>1 DEF Neighbour, Moves, IndexOf, ParamGrid
  <2> HIDE DEF p
  <2>4. SUFFICES \E g \in grades' :
                   /\ g.params = p
                   /\ Objective(g.metrics) <= Objective(bestMetrics')
                   /\ Objective(g.metrics) = Objective(bestMetrics') /\ improved' =>
                        ~ KeyBefore(p, best')
    BY <1>1, <2>3 DEF Beaten, p, Objective
  <2>5. CASE Wins /\ best' = params /\ bestMetrics' = metrics /\ improved' = TRUE
    <3>1. CASE p = params
      BY <1>1, <1>3, <1>6, <2>5, <3>1, KeyBeforeIsAStrictOrder
    <3>2. CASE Beaten(p, best, bestMetrics, improved)
      <4>1. PICK g \in grades :
              /\ g.params = p
              /\ Objective(g.metrics) <= Objective(bestMetrics)
              /\ Objective(g.metrics) = Objective(bestMetrics) /\ improved =>
                   ~ KeyBefore(p, best)
        BY <3>2 DEF Beaten
      <4>2. Objective(g.metrics) \in Int
        BY <1>5
      <4>3. CASE Objective(metrics) > Objective(bestMetrics)
        <5>1. Objective(g.metrics) < Objective(metrics)
          BY <1>3, <4>1, <4>2, <4>3
        <5> QED  BY <1>3, <1>7, <2>5, <4>1, <4>2, <5>1
      <4>4. CASE /\ Objective(metrics) = Objective(bestMetrics)
                 /\ improved /\ KeyBefore(params, best)
        <5>1. KeyBefore(p, params) => KeyBefore(p, best)
          BY <1>1, <2>2, <4>4, KeyBeforeIsAStrictOrder
        <5> QED  BY <1>7, <2>5, <4>1, <4>4, <5>1
      <4> QED  BY <2>5, <4>3, <4>4 DEF Wins
    <3> QED  BY <2>1, <3>1, <3>2
  <2>6. CASE ~ Wins /\ UNCHANGED <<best, bestMetrics, improved>>
    <3>1. CASE p = params
      <4>1. /\ Objective(metrics) <= Objective(bestMetrics)
            /\ Objective(metrics) = Objective(bestMetrics) /\ improved =>
                 ~ KeyBefore(params, best)
        BY <1>3, <2>6 DEF Wins
      <4> QED  BY <1>6, <2>6, <3>1, <4>1
    <3>2. CASE Beaten(p, best, bestMetrics, improved)
      BY <1>7, <2>6, <3>2 DEF Beaten
    <3> QED  BY <2>1, <3>1, <3>2
  <2> QED  BY <2>5, <2>6 DEF CandidateGraded
<1>9. SearchOK'
  <2>1. \A m \in (MovesFrom(current) \ todo)' : m \in MovesFrom(current) \ todo
    BY <1>1 DEF MovesFrom, Moves, IndexOf, ParamGrid
  <2> QED  BY <1>1, <1>8, <2>1 DEF SearchOK
<1>10. RoundTakesBestNeighbour'
  BY <1>1, <1>7, RecordedRoundsStay DEF SearchInv
<1> QED  BY <1>4, <1>9, <1>10 DEF SearchInv

LEMMA PickCandidateKeepsSearch ==
  ASSUME IInv, SearchInv, PickCandidate
  PROVE  SearchInv'
<1>1. PICK m \in todo : todo' = todo \ {m} /\ params' = Neighbour(current, m)
  BY DEF PickCandidate, BeginGrade
<1>2. /\ stage = "pick" /\ stage' = "candidate"
      /\ UNCHANGED <<current, best, bestMetrics, improved, records, grades>>
  BY DEF PickCandidate
<1>3. ASSUME NEW n \in MovesFrom(current) \ todo'
      PROVE  n = m \/ Beaten(Neighbour(current, n), best, bestMetrics, improved)
  BY <1>1, <1>2 DEF SearchInv, SearchOK
<1>4. ASSUME NEW n \in MovesFrom(current)',
             Beaten(Neighbour(current, n), best, bestMetrics, improved)
      PROVE  Beaten(Neighbour(current, n), best, bestMetrics, improved)'
  BY <1>2, <1>4 DEF Beaten, Objective, Neighbour
<1>5. MovesFrom(current)' = MovesFrom(current)
      /\ \A n : Neighbour(current, n)' = Neighbour(current, n)
  BY <1>2 DEF MovesFrom, Neighbour
<1>6. SearchOK'
  BY <1>1, <1>2, <1>3, <1>4, <1>5 DEF SearchOK
<1> QED  BY <1>2, <1>6, RecordedRoundsStay DEF SearchInv, GradesOK

LEMMA CloseRoundKeepsSearch ==
  ASSUME IInv, SearchInv, CloseRound
  PROVE  SearchInv'
<1> DEFINE last   == records[Len(records)]
           better == Objective(bestMetrics) > Objective(last.metrics)
           new    == [params |-> best, metrics |-> bestMetrics, improved |-> better]
<1>1. /\ stage = "pick" /\ todo = {} /\ records' = Append(records, new)
      /\ UNCHANGED grades
      /\ stage' = "pick" => todo' = MovesFrom(best) /\ current' = best
      /\ stage' # "candidate"
  BY DEF CloseRound, OpenRound
<1>2. /\ records \in Seq(RoundRecord) /\ records # <<>>
      /\ last.params = current /\ last.metrics = currentMetrics
  BY <1>1 DEF IInv, RecordsOK, Opened
<1>3. new.params = best /\ new.metrics = bestMetrics /\ (new.improved <=> better)
  OBVIOUS
<1>4. better => improved
  <2>1. SUFFICES ASSUME ~ improved PROVE ~ better
    OBVIOUS
  <2>2. bestMetrics = currentMetrics
    BY <2>1 DEF IInv, RoundOK
  <2>3. Objective(currentMetrics) \in Int
    BY ObjectivesAreIntegers DEF IInv, RoundOK, Clean
  <2> QED  BY <1>2, <2>2, <2>3
<1> HIDE DEF new, better, last
<1>5. /\ Len(records) \in Nat \ {0}
      /\ DOMAIN records' = 1 .. Len(records) + 1 /\ DOMAIN records = 1 .. Len(records)
      /\ records'[Len(records) + 1] = new
      /\ \A i \in 1 .. Len(records) : records'[i] = records[i]
  BY <1>1, <1>2
<1>6. ASSUME NEW i \in DOMAIN records' \ {1}, NEW m \in MovesFrom(records'[i - 1].params)
      PROVE  LET p == Neighbour(records'[i - 1].params, m)
             IN  \E g \in grades :
                   /\ g.params = p
                   /\ Objective(g.metrics) <= Objective(records'[i].metrics)
                   /\ Objective(g.metrics) = Objective(records'[i].metrics)
                        /\ records'[i].improved => ~ KeyBefore(p, records'[i].params)
  <2>1. CASE i \in 1 .. Len(records)
    <3>1. i \in DOMAIN records \ {1} /\ i - 1 \in 1 .. Len(records)
      BY <1>5, <2>1
    <3>2. records'[i] = records[i] /\ records'[i - 1] = records[i - 1]
      BY <1>5, <3>1
    <3> QED  BY <1>6, <3>1, <3>2 DEF SearchInv, RoundTakesBestNeighbour
  <2>2. CASE i = Len(records) + 1
    <3>1. records'[i] = new /\ records'[i - 1] = last
      BY <1>5, <2>2 DEF last
    <3>2. m \in MovesFrom(current) \ todo
      BY <1>1, <1>2, <1>6, <3>1
    <3>3. PICK g \in grades :
            /\ g.params = Neighbour(current, m)
            /\ Objective(g.metrics) <= Objective(bestMetrics)
            /\ Objective(g.metrics) = Objective(bestMetrics) /\ improved =>
                 ~ KeyBefore(Neighbour(current, m), best)
      BY <1>1, <3>2 DEF SearchInv, SearchOK, Beaten
    <3> QED  BY <1>2, <1>3, <1>4, <3>1, <3>3
  <2> QED  BY <1>5, <2>1, <2>2
<1>7. RoundTakesBestNeighbour'
  BY <1>1, <1>6 DEF RoundTakesBestNeighbour
<1>8. SearchOK'
  BY <1>1 DEF SearchOK
<1> QED  BY <1>1, <1>7, <1>8 DEF SearchInv, GradesOK

LEMMA FirstGradedKeepsSearch ==
  ASSUME IInv, SearchInv, FirstGraded
  PROVE  SearchInv'
<1> DEFINE new == [params |-> params, metrics |-> metrics, improved |-> FALSE]
<1>1. /\ records = <<>> /\ params \in Params /\ Clean(metrics)
      /\ stage = "first"
  BY PolicyGradesAreClean DEF FirstGraded, IInv, RecordsOK, Opened, GradeOK
<1>2. /\ records' = Append(records, new)
      /\ stage' = "pick" => todo' = MovesFrom(params) /\ current' = params
      /\ stage' # "candidate"
  BY DEF FirstGraded, OpenRound
<1>3. grades' = grades \cup {[params |-> params, metrics |-> metrics]}
  BY DEF FirstGraded, Note
<1>4. GradesOK'
  BY <1>1, <1>3 DEF SearchInv, GradesOK, Clean
<1>5. DOMAIN records' = {1}
  BY <1>1, <1>2
<1> QED  BY <1>2, <1>4, <1>5 DEF SearchInv, SearchOK, RoundTakesBestNeighbour

LEMMA GradingKeepsSearch ==
  ASSUME SearchInv, GradeBaseline \/ GradePolicy \/ BaselineGraded \/ UNCHANGED vars
  PROVE  SearchInv'
<1>1. UNCHANGED <<current, best, bestMetrics, improved, todo, records, grades>>
  BY DEF GradeBaseline, GradePolicy, BaselineGraded, roundVars, vars
<1>2. \/ UNCHANGED stage /\ UNCHANGED params
      \/ stage' = "first" \/ stage' = "baseline"
  BY DEF GradeBaseline, GradePolicy, BaselineGraded, PolicyAttempt, Execute, PolicyStop,
         StreamEnd, vars, gradeVars
<1>3. SearchOK'
  BY <1>1, <1>2 DEF SearchInv, SearchOK, Beaten, Objective, Neighbour, MovesFrom
<1> QED  BY <1>1, <1>3, RecordedRoundsStay DEF SearchInv, GradesOK

LEMMA SearchInvariant == Spec => []SearchInv
<1>1. Init => SearchInv
  BY DEF Init, SearchInv, GradesOK, SearchOK, RoundTakesBestNeighbour
<1>2. IInv /\ SearchInv /\ [Next]_vars => SearchInv'
  BY GradingKeepsSearch, FirstGradedKeepsSearch, PickCandidateKeepsSearch,
     CandidateGradedKeepsSearch, CloseRoundKeepsSearch DEF Next
<1> QED  BY <1>1, <1>2, IInvInvariant, PTL DEF Spec

(***************************************************************************)
(* A round ends with parameters no neighbour of its start beats, and of    *)
(* equally good ones with the first in string order, though they are not   *)
(* graded in that order (tuner.ts:77-79).                                  *)
(***************************************************************************)
THEOREM RoundsTakeTheBestNeighbour == Spec => []RoundTakesBestNeighbour
<1>1. SearchInv => RoundTakesBestNeighbour
  BY DEF SearchInv
<1> QED  BY <1>1, SearchInvariant, PTL

-----------------------------------------------------------------------------
(***************************************************************************)
(* A grade as a course of states: what an attempt does depends on the      *)
(* corpus and on what the arm holds, nothing else.  StepOf is that         *)
(* dependence: the three actions of the policy arm as one function of      *)
(* <<params, stream, failure, retry, executed, metrics>>.                  *)
(***************************************************************************)
ViolationsOf(e, f, t) ==
  One(HardRetry(f))
    + One(f.network = "visa" /\ CountAfter(e, f.scopeKey, t - Window30d) >= VisaRafCap30d)
    + One(f.network = "mastercard" /\ CountAfter(e, f.scopeKey, t - Window30d) >= McTpeCap30d)
    + One(f.network = "mastercard" /\ CountAfter(e, f.scopeKey, t - Window24h) >= McTpeCap24h)

FeeOf(e, f, t) ==
  (IF HardRetry(f) THEN FeeHardDeclineRetry ELSE 0)
    + (IF f.network = "visa" /\ CountAfter(e, f.scopeKey, t - Window30d) >= VisaRafCap30d
       THEN FeeVisaRaf ELSE 0)
    + (IF f.network = "mastercard" /\ CountAfter(e, f.scopeKey, t - Window30d) >= McTpeCap30d
       THEN FeeMcTpe ELSE 0)

NewlyOf(r, f) == One(r = 0 /\ TriageAction(f.network, f.class) = "RETRY_SOFT")

AttemptOf(x, p, s, f, r, e, m) ==
  LET t         == CandidateMoment(x.ts, p, r)
      recovered == x.draws[r + 1] < PRecoverAt(x, r, t)
      over      == recovered \/ r = 2
  IN  <<p, s, IF over THEN f + 1 ELSE f, IF over THEN 0 ELSE r + 1,
        Append(e, [scopeKey |-> x.scopeKey, ts |-> t]),
        [m EXCEPT !.recoveredCount = @ + One(recovered),
                  !.retryableCount = @ + NewlyOf(r, x),
                  !.complianceViolations = @ + ViolationsOf(e, x, t),
                  !.penaltyFeeMinor = @ + FeeOf(e, x, t),
                  !.recoveredAmountMinor = @ + (IF recovered THEN x.amountMinor ELSE 0)]>>

StopOf(x, p, s, f, r, e, m) ==
  <<p, s, f + 1, 0, e, [m EXCEPT !.retryableCount = @ + NewlyOf(r, x)]>>

StepOf(c, p, s, f, r, e, m) ==
  IF f > Len(c[s]) THEN <<p, s + 1, 1, 0, <<>>, m>>
  ELSE LET x == c[s][f]
       IN  IF Allowed([scopeKey |-> x.scopeKey, network |-> x.network,
                       triageAction |-> TriageAction(x.network, x.class), now |-> x.ts], e)
           THEN AttemptOf(x, p, s, f, r, e, m)
           ELSE StopOf(x, p, s, f, r, e, m)

LEMMA ArmStepsByStepOf ==
  ASSUME GradeOK, PolicyAttempt \/ PolicyStop \/ StreamEnd
  PROVE  /\ ~ Graded
         /\ gradeVars' = StepOf(corpus, params, stream, failure, retry, executed, metrics)
<1>0. ~ Graded
  BY DEF PolicyAttempt, PolicyStop, StreamEnd, Standing
<1>1. CASE StreamEnd
  <2>1. StepOf(corpus, params, stream, failure, retry, executed, metrics) =
          <<params, stream + 1, 1, 0, <<>>, metrics>>
    BY <1>1 DEF StreamEnd, StepOf
  <2> QED  BY <1>0, <1>1, <2>1 DEF StreamEnd, gradeVars
<1>2. Standing => ~ failure > Len(corpus[stream])
  <2>1. Standing => \E n \in Nat : Len(corpus[stream]) = n
    <3> SUFFICES ASSUME Standing PROVE \E n \in Nat : Len(corpus[stream]) = n
      OBVIOUS
    <3>1. Len(corpus) = 5 /\ stream \in 1 .. 5
      BY DEF GradeOK, CorpusOK, Standing, Graded
    <3> QED  BY <3>1 DEF GradeOK, CorpusOK, StreamOK
  <2> QED  BY <2>1 DEF Standing, GradeOK
<1>3. CASE PolicyAttempt
  <2>1. StepOf(corpus, params, stream, failure, retry, executed, metrics) =
          AttemptOf(Failing, params, stream, failure, retry, executed, metrics)
    BY <1>2, <1>3 DEF PolicyAttempt, StepOf, MayExecute, Failing
  <2> DEFINE x == Failing
             t == CandidateMoment(x.ts, params, retry)
             recovered == x.draws[retry + 1] < PRecoverAt(x, retry, t)
             over == recovered \/ retry = 2
             new  == [metrics EXCEPT
                        !.recoveredCount = @ + One(recovered),
                        !.retryableCount = @ + NewlyRetryable(x),
                        !.complianceViolations = @ + Violations(x, t),
                        !.penaltyFeeMinor = @ + Fee(x, t),
                        !.recoveredAmountMinor = @ + (IF recovered THEN x.amountMinor ELSE 0)]
             long == Append(executed, [scopeKey |-> x.scopeKey, ts |-> t])
  <2>2. Execute(x, t)
    BY <1>3 DEF PolicyAttempt
  <2>3. /\ metrics' = new /\ executed' = long
        /\ IF over THEN NextFailure ELSE retry' = retry + 1 /\ UNCHANGED failure
        /\ UNCHANGED <<params, stream>>
    BY <2>2 DEF Execute
  <2>4. /\ failure' = (IF over THEN failure + 1 ELSE failure)
        /\ retry' = (IF over THEN 0 ELSE retry + 1)
    BY <2>3 DEF NextFailure
  <2>5. /\ NewlyRetryable(x) = NewlyOf(retry, x)
        /\ Violations(x, t) = ViolationsOf(executed, x, t)
        /\ Fee(x, t) = FeeOf(executed, x, t)
    BY DEF NewlyRetryable, NewlyOf, Violations, ViolationsOf, Fee, FeeOf, PastVisaRaf,
           PastMcTpe30d, PastMcTpe24h
  <2>6. AttemptOf(x, params, stream, failure, retry, executed, metrics) =
          <<params, stream, IF over THEN failure + 1 ELSE failure,
            IF over THEN 0 ELSE retry + 1, long, new>>
    BY <2>5 DEF AttemptOf
  <2> HIDE DEF x, t, recovered, over, new, long
  <2>7. gradeVars' = <<params, stream, IF over THEN failure + 1 ELSE failure,
                       IF over THEN 0 ELSE retry + 1, long, new>>
    BY <2>3, <2>4 DEF gradeVars
  <2>8. gradeVars' = AttemptOf(Failing, params, stream, failure, retry, executed, metrics)
    BY <2>6, <2>7 DEF x
  <2> QED  BY <1>0, <2>1, <2>8
<1>4. CASE PolicyStop
  <2>1. StepOf(corpus, params, stream, failure, retry, executed, metrics) =
          StopOf(Failing, params, stream, failure, retry, executed, metrics)
    BY <1>2, <1>4 DEF PolicyStop, StepOf, MayExecute, Failing
  <2>2. gradeVars' = StopOf(Failing, params, stream, failure, retry, executed, metrics)
    BY <1>4 DEF PolicyStop, NextFailure, NewlyRetryable, NewlyOf, StopOf, gradeVars
  <2> QED  BY <1>0, <2>1, <2>2
<1> QED  BY <1>1, <1>3, <1>4

(***************************************************************************)
(* Two courses of one corpus and one policy that reach their end reach the *)
(* same.                                                                   *)
(***************************************************************************)
Begun(p) == <<p, 1, 1, 0, <<>>, EmptyMetrics>>

Over(c, g) == g[2] > Len(c)

Course(c, p, n, h) ==
  /\ h[0] = Begun(p)
  /\ \A k \in 1 .. n : /\ ~ Over(c, h[k - 1])
                       /\ h[k] = StepOf(c, h[k - 1][1], h[k - 1][2], h[k - 1][3],
                                        h[k - 1][4], h[k - 1][5], h[k - 1][6])

LEMMA CoursesAgree ==
  ASSUME NEW c, NEW p, NEW n \in Nat, NEW m \in Nat, NEW h, NEW g,
         Course(c, p, n, h), Course(c, p, m, g), n <= m
  PROVE  \A k \in 0 .. n : h[k] = g[k]
<1> DEFINE T == {k \in 0 .. n : h[k] # g[k]}
<1> SUFFICES ASSUME T # {} PROVE FALSE
  OBVIOUS
<1>1. T \in SUBSET Nat
  OBVIOUS
<1>2. PICK k \in T : \A y \in T : k <= y
  <2> HIDE DEF T
  <2> QED  BY <1>1, LeastNatural
<1>3. k \in 0 .. n /\ h[k] # g[k]
  OBVIOUS
<1>4. k # 0
  BY <1>3 DEF Course
<1>5. k \in 1 .. n /\ k \in 1 .. m /\ k - 1 \in 0 .. n /\ ~ k <= k - 1
  BY <1>3, <1>4
<1>6. h[k - 1] = g[k - 1]
  <2>1. k - 1 \notin T
    <3> HIDE DEF T
    <3> QED  BY <1>2, <1>5
  <2> QED  BY <1>5, <2>1
<1>7. h[k] = StepOf(c, h[k - 1][1], h[k - 1][2], h[k - 1][3], h[k - 1][4], h[k - 1][5],
                    h[k - 1][6])
  BY <1>5 DEF Course
<1>8. g[k] = StepOf(c, g[k - 1][1], g[k - 1][2], g[k - 1][3], g[k - 1][4], g[k - 1][5],
                    g[k - 1][6])
  BY <1>5 DEF Course
<1> QED  BY <1>3, <1>6, <1>7, <1>8

LEMMA CoursesEndAlike ==
  ASSUME NEW c, NEW p, NEW n \in Nat, NEW m \in Nat, NEW h, NEW g,
         Course(c, p, n, h), Course(c, p, m, g), Over(c, h[n]), Over(c, g[m])
  PROVE  h[n] = g[m]
<1>1. ASSUME n < m PROVE FALSE
  <2>1. n + 1 \in 1 .. m /\ (n + 1) - 1 = n /\ n \in 0 .. n
    BY <1>1
  <2>2. ~ Over(c, g[n])
    BY <2>1 DEF Course
  <2>3. h[n] = g[n]
    BY <1>1, <2>1, CoursesAgree
  <2> QED  BY <2>2, <2>3
<1>2. ASSUME m < n PROVE FALSE
  <2>1. m + 1 \in 1 .. n /\ (m + 1) - 1 = m /\ m \in 0 .. m
    BY <1>2
  <2>2. ~ Over(c, h[m])
    BY <2>1 DEF Course
  <2>3. g[m] = h[m]
    BY <1>2, <2>1, CoursesAgree
  <2> QED  BY <2>2, <2>3
<1>3. n = m
  BY <1>1, <1>2
<1>4. n \in 0 .. n
  OBVIOUS
<1> QED  BY <1>3, <1>4, CoursesAgree

-----------------------------------------------------------------------------
(***************************************************************************)
(* The grade under way is a course of the corpus, and every grade made was *)
(* the end of one.                                                         *)
(***************************************************************************)
UnderWay == \E n \in Nat : \E h : Course(corpus, params, n, h) /\ h[n] = gradeVars

Reached(p, m) ==
  \E n \in Nat : \E h : Course(corpus, p, n, h) /\ Over(corpus, h[n]) /\ h[n][6] = m

ReproInv ==
  /\ stage \in {"first", "candidate"} => UnderWay
  /\ \A g \in grades : Reached(g.params, g.metrics)

LEMMA BegunIsUnderWay ==
  ASSUME NEW arm, BeginGrade(arm)
  PROVE  UnderWay'
<1> DEFINE h == [k \in {0} |-> Begun(arm)]
<1>1. gradeVars' = Begun(arm) /\ params' = arm
  BY DEF BeginGrade, gradeVars, Begun
<1>2. h[0] = Begun(arm)
  OBVIOUS
<1> HIDE DEF h
<1>3. Course(corpus', arm, 0, h)
  BY <1>2 DEF Course
<1> QED  BY <1>1, <1>2, <1>3 DEF UnderWay

LEMMA ArmStaysUnderWay ==
  ASSUME GradeOK, UnderWay, PolicyAttempt \/ PolicyStop \/ StreamEnd, UNCHANGED corpus
  PROVE  UnderWay'
<1>1. PICK n \in Nat : \E h : Course(corpus, params, n, h) /\ h[n] = gradeVars
  BY DEF UnderWay
<1>2. PICK h : Course(corpus, params, n, h) /\ h[n] = gradeVars
  BY <1>1
<1> DEFINE g == [k \in 0 .. n + 1 |-> IF k = n + 1 THEN gradeVars' ELSE h[k]]
<1>3. /\ g[0] = h[0] /\ g[n + 1] = gradeVars'
      /\ \A k \in 0 .. n : g[k] = h[k]
  OBVIOUS
<1> HIDE DEF g
<1>4. /\ ~ Graded
      /\ gradeVars' = StepOf(corpus, params, stream, failure, retry, executed, metrics)
      /\ UNCHANGED params
  BY ArmStepsByStepOf DEF PolicyAttempt, Execute, PolicyStop, StreamEnd
<1>5. /\ h[n][1] = params /\ h[n][2] = stream /\ h[n][3] = failure /\ h[n][4] = retry
      /\ h[n][5] = executed /\ h[n][6] = metrics
  BY <1>2 DEF gradeVars
<1>6. ASSUME NEW k \in 1 .. n + 1
      PROVE  /\ ~ Over(corpus, g[k - 1])
             /\ g[k] = StepOf(corpus, g[k - 1][1], g[k - 1][2], g[k - 1][3], g[k - 1][4],
                              g[k - 1][5], g[k - 1][6])
  <2>1. CASE k \in 1 .. n
    <3>1. g[k] = h[k] /\ g[k - 1] = h[k - 1]
      BY <1>3, <2>1
    <3> QED  BY <1>2, <2>1, <3>1 DEF Course
  <2>2. CASE k = n + 1
    <3>1. g[k] = gradeVars' /\ g[k - 1] = h[n]
      BY <1>3, <2>2
    <3>2. ~ Over(corpus, h[n])
      BY <1>4, <1>5 DEF Over, Graded
    <3> QED  BY <1>4, <1>5, <3>1, <3>2
  <2> QED  BY <2>1, <2>2
<1>7. Course(corpus, params, n + 1, g)
  BY <1>2, <1>3, <1>6 DEF Course
<1> QED  BY <1>3, <1>4, <1>7 DEF UnderWay

LEMMA GradedIsReached ==
  ASSUME UnderWay, Graded
  PROVE  Reached(params, metrics)
<1>1. PICK n \in Nat : \E h : Course(corpus, params, n, h) /\ h[n] = gradeVars
  BY DEF UnderWay
<1>2. PICK h : Course(corpus, params, n, h) /\ h[n] = gradeVars
  BY <1>1
<1>3. h[n][2] = stream /\ h[n][6] = metrics
  BY <1>2 DEF gradeVars
<1> QED  BY <1>2, <1>3 DEF Reached, Over, Graded

LEMMA GradesStayReached ==
  ASSUME ReproInv, UNCHANGED <<corpus, grades>>
  PROVE  (\A g \in grades : Reached(g.params, g.metrics))'
  BY DEF ReproInv, Reached

LEMMA NoteIsReached ==
  ASSUME ReproInv, stage \in {"first", "candidate"}, Graded, Note, UNCHANGED corpus
  PROVE  (\A g \in grades : Reached(g.params, g.metrics))'
<1> DEFINE grade == [params |-> params, metrics |-> metrics]
<1>1. Reached(grade.params, grade.metrics)
  BY GradedIsReached DEF ReproInv
<1>2. grades' = grades \cup {grade}
  BY DEF Note
<1> HIDE DEF grade
<1>3. \A g \in grades' : Reached(g.params, g.metrics)
  BY <1>1, <1>2 DEF ReproInv
<1> QED  BY <1>3 DEF Reached

LEMMA ReproStep ==
  ASSUME IInv, ReproInv, [Next]_vars
  PROVE  ReproInv'
<1>1. CASE GradeBaseline
  BY <1>1, GradesStayReached DEF GradeBaseline, ReproInv
<1>2. CASE GradePolicy
  <2>1. UnderWay'
    BY <1>2, ArmStaysUnderWay DEF GradePolicy, IInv, ReproInv
  <2> QED  BY <1>2, <2>1, GradesStayReached DEF GradePolicy, ReproInv
<1>3. CASE BaselineGraded
  <2>1. UnderWay'
    BY <1>3, BegunIsUnderWay DEF BaselineGraded
  <2> QED  BY <1>3, <2>1, GradesStayReached DEF BaselineGraded, ReproInv
<1>4. CASE FirstGraded
  <2>1. stage' \notin {"first", "candidate"}
    BY <1>4 DEF FirstGraded, OpenRound
  <2> QED  BY <1>4, <2>1, NoteIsReached DEF FirstGraded, ReproInv
<1>5. CASE PickCandidate
  <2>1. UnderWay'
    BY <1>5, BegunIsUnderWay DEF PickCandidate
  <2> QED  BY <1>5, <2>1, GradesStayReached DEF PickCandidate, ReproInv
<1>6. CASE CandidateGraded
  BY <1>6, NoteIsReached DEF CandidateGraded, ReproInv
<1>7. CASE CloseRound
  <2>1. stage' \notin {"first", "candidate"}
    BY <1>7 DEF CloseRound, OpenRound
  <2> QED  BY <1>7, <2>1, GradesStayReached DEF CloseRound, ReproInv
<1>8. CASE UNCHANGED vars
  <2>1. UnderWay => UnderWay'
    BY <1>8 DEF vars, gradeVars, UnderWay
  <2> QED  BY <1>8, <2>1, GradesStayReached DEF vars, ReproInv
<1> QED  BY <1>1, <1>2, <1>3, <1>4, <1>5, <1>6, <1>7, <1>8 DEF Next

LEMMA ReproInvariant == Spec => []ReproInv
<1>1. Init => ReproInv
  BY DEF Init, ReproInv
<1> QED  BY <1>1, ReproStep, IInvInvariant, PTL DEF Spec

LEMMA ReachedOnce ==
  ASSUME NEW p, NEW m, NEW o, Reached(p, m), Reached(p, o)
  PROVE  m = o
<1>1. PICK n \in Nat : \E h : Course(corpus, p, n, h) /\ Over(corpus, h[n]) /\ h[n][6] = m
  BY DEF Reached
<1>2. PICK h : Course(corpus, p, n, h) /\ Over(corpus, h[n]) /\ h[n][6] = m
  BY <1>1
<1>3. PICK k \in Nat : \E g : Course(corpus, p, k, g) /\ Over(corpus, g[k]) /\ g[k][6] = o
  BY DEF Reached
<1>4. PICK g : Course(corpus, p, k, g) /\ Over(corpus, g[k]) /\ g[k][6] = o
  BY <1>3
<1>5. h[n] = g[k]
  BY <1>2, <1>4, CoursesEndAlike
<1> QED  BY <1>2, <1>4, <1>5

(***************************************************************************)
(* Grading the same parameters again gives the same metrics, in whatever   *)
(* round and after whatever other grades: each grade starts afresh, and    *)
(* its steps look at nothing but the corpus and its own arm (policy.ts:15, *)
(* grader.ts:159-198).                                                     *)
(***************************************************************************)
THEOREM GradesAreReproducible == Spec => []GradesReproducible
<1>1. ReproInv => GradesReproducible
  <2> SUFFICES ASSUME ReproInv, NEW g \in grades, NEW h \in grades, g.params = h.params
               PROVE  g.metrics = h.metrics
    BY DEF GradesReproducible
  <2>1. Reached(g.params, g.metrics) /\ Reached(g.params, h.metrics)
    BY DEF ReproInv
  <2> QED  BY <2>1, ReachedOnce
<1> QED  BY <1>1, ReproInvariant, PTL

-----------------------------------------------------------------------------
(***************************************************************************)
(* An improvement is a move: the parameters it adopts are a neighbour of   *)
(* those the round began with, and were graded with the metrics it keeps.  *)
(***************************************************************************)
MovedTo(p, q, m) ==
  \E k \in MovesFrom(p) : q = Neighbour(p, k) /\ [params |-> q, metrics |-> m] \in grades

RecordsMoved ==
  \A i \in DOMAIN records \ {1} :
    records[i].improved =>
      MovedTo(records[i - 1].params, records[i].params, records[i].metrics)

MoveInv ==
  /\ stage = "candidate" => \E k \in MovesFrom(current) : params = Neighbour(current, k)
  /\ improved => MovedTo(current, best, bestMetrics)
  /\ RecordsMoved

LEMMA RecordedMovesStay ==
  ASSUME RecordsMoved, UNCHANGED records, grades \subseteq grades'
  PROVE  RecordsMoved'
  BY DEF RecordsMoved, MovedTo

LEMMA CloseRoundKeepsMoves ==
  ASSUME IInv, MoveInv, CloseRound
  PROVE  MoveInv'
<1> DEFINE last   == records[Len(records)]
           better == Objective(bestMetrics) > Objective(last.metrics)
           new    == [params |-> best, metrics |-> bestMetrics, improved |-> better]
<1>1. /\ stage = "pick" /\ records' = Append(records, new) /\ UNCHANGED grades
      /\ stage' # "candidate" /\ ~ improved'
  BY DEF CloseRound, OpenRound
<1>2. /\ records \in Seq(RoundRecord) /\ records # <<>>
      /\ last.params = current /\ last.metrics = currentMetrics
  BY <1>1 DEF IInv, RecordsOK, Opened
<1>3. better => improved
  <2>1. SUFFICES ASSUME ~ improved PROVE ~ better
    OBVIOUS
  <2>2. bestMetrics = currentMetrics
    BY <2>1 DEF IInv, RoundOK
  <2>3. Objective(currentMetrics) \in Int
    BY ObjectivesAreIntegers DEF IInv, RoundOK, Clean
  <2> QED  BY <1>2, <2>2, <2>3
<1>4. new.params = best /\ new.metrics = bestMetrics /\ (new.improved <=> better)
  OBVIOUS
<1> HIDE DEF new, better, last
<1>5. /\ Len(records) \in Nat \ {0}
      /\ DOMAIN records' = 1 .. Len(records) + 1 /\ DOMAIN records = 1 .. Len(records)
      /\ records'[Len(records) + 1] = new
      /\ \A i \in 1 .. Len(records) : records'[i] = records[i]
  BY <1>1, <1>2
<1>6. ASSUME NEW i \in DOMAIN records' \ {1}, records'[i].improved
      PROVE  MovedTo(records'[i - 1].params, records'[i].params, records'[i].metrics)
  <2>1. CASE i \in 1 .. Len(records)
    <3>1. i \in DOMAIN records \ {1} /\ i - 1 \in 1 .. Len(records)
      BY <1>5, <1>6, <2>1
    <3>2. records'[i] = records[i] /\ records'[i - 1] = records[i - 1]
      BY <1>5, <3>1
    <3> QED  BY <1>6, <3>1, <3>2 DEF MoveInv, RecordsMoved
  <2>2. CASE i = Len(records) + 1
    <3>1. records'[i] = new /\ records'[i - 1] = last
      BY <1>5, <2>2 DEF last
    <3> QED  BY <1>2, <1>3, <1>4, <1>6, <3>1 DEF MoveInv
  <2> QED  BY <1>5, <2>1, <2>2
<1>7. RecordsMoved'
  BY <1>1, <1>6 DEF RecordsMoved, MovedTo
<1> QED  BY <1>1, <1>7 DEF MoveInv

LEMMA MoveStep ==
  ASSUME IInv, MoveInv, [Next]_vars
  PROVE  MoveInv'
<1>1. CASE GradeBaseline \/ GradePolicy \/ BaselineGraded \/ UNCHANGED vars
  <2>1. UNCHANGED <<current, best, bestMetrics, improved, records, grades>>
    BY <1>1 DEF GradeBaseline, GradePolicy, BaselineGraded, roundVars, vars
  <2>2. \/ UNCHANGED stage /\ UNCHANGED params
        \/ stage' = "first" \/ stage' = "baseline"
    BY <1>1 DEF GradeBaseline, GradePolicy, BaselineGraded, PolicyAttempt, Execute,
                PolicyStop, StreamEnd, vars, gradeVars
  <2>3. RecordsMoved'
    BY <2>1, RecordedMovesStay DEF MoveInv
  <2> QED  BY <2>1, <2>2, <2>3 DEF MoveInv, MovedTo, MovesFrom, Neighbour
<1>2. CASE FirstGraded
  <2>1. /\ records = <<>> /\ ~ improved' /\ stage' # "candidate"
        /\ records' = Append(records, [params |-> params, metrics |-> metrics,
                                       improved |-> FALSE])
    BY <1>2 DEF FirstGraded, OpenRound, IInv, RecordsOK, Opened
  <2>2. DOMAIN records' = {1}
    BY <2>1
  <2> QED  BY <2>1, <2>2 DEF MoveInv, RecordsMoved
<1>3. CASE PickCandidate
  <2>1. /\ UNCHANGED <<current, best, bestMetrics, improved, records, grades>>
        /\ todo \subseteq MovesFrom(current)
    BY <1>3 DEF PickCandidate, IInv, RoundOK
  <2>2. PICK k \in todo : params' = Neighbour(current, k)
    BY <1>3 DEF PickCandidate, BeginGrade
  <2>3. RecordsMoved'
    BY <2>1, RecordedMovesStay DEF MoveInv
  <2> QED  BY <2>1, <2>2, <2>3 DEF MoveInv, MovedTo, MovesFrom, Neighbour
<1>4. CASE CandidateGraded
  <2> DEFINE grade == [params |-> params, metrics |-> metrics]
  <2>1. /\ stage = "candidate" /\ stage' = "pick" /\ UNCHANGED <<current, records>>
        /\ grades' = grades \cup {grade}
    BY <1>4 DEF CandidateGraded, Note
  <2>2. RecordsMoved'
    BY <2>1, RecordedMovesStay DEF MoveInv
  <2>3. PICK k \in MovesFrom(current) : params = Neighbour(current, k)
    BY <2>1 DEF MoveInv
  <2>4. improved' => MovedTo(current, best, bestMetrics)'
    <3>1. CASE best' = params /\ bestMetrics' = metrics
      <4>1. [params |-> best', metrics |-> bestMetrics'] \in grades'
        BY <2>1, <3>1
      <4>2. k \in MovesFrom(current') /\ best' = Neighbour(current', k)
        BY <2>1, <2>3, <3>1
      <4> QED  BY <4>1, <4>2 DEF MovedTo, MovesFrom, Neighbour
    <3>2. CASE UNCHANGED <<best, bestMetrics, improved>>
      BY <2>1, <3>2 DEF MoveInv, MovedTo, MovesFrom, Neighbour
    <3> QED  BY <1>4, <3>1, <3>2 DEF CandidateGraded
  <2> QED  BY <2>1, <2>2, <2>4 DEF MoveInv
<1>5. CASE CloseRound
  BY <1>5, CloseRoundKeepsMoves
<1> QED  BY <1>1, <1>2, <1>3, <1>4, <1>5 DEF Next

LEMMA MoveInvariant == Spec => []MoveInv
<1>1. Init => MoveInv
  BY DEF Init, MoveInv, RecordsMoved
<1> QED  BY <1>1, MoveStep, IInvInvariant, PTL DEF Spec

(* The round after a stall tries the same neighbours, which lost before.   *)
LEMMA NextRoundStallsToo ==
  ASSUME IInv, SearchInv, MoveInv, GradesReproducible,
         NEW i \in DOMAIN records \ {1}, i + 1 \in DOMAIN records, ~ records[i].improved
  PROVE  ~ records[i + 1].improved /\ records[i + 1].params = records[i].params
<1> DEFINE p == records[i].params
           q == records[i + 1].params
<1>1. /\ records \in Seq(RoundRecord) /\ i \in Nat /\ i + 1 \in DOMAIN records \ {1}
      /\ (i + 1) - 1 = i
  BY DEF IInv, RecordsOK
<1>2. records[i - 1].params = p
  BY DEF IInv, RecordsOK, RoundsOnlyImprove
<1>3. Clean(records[i].metrics) /\ Clean(records[i + 1].metrics)
  BY RecordsAreClean
<1>4. Objective(records[i].metrics) \in Int /\ Objective(records[i + 1].metrics) \in Int
  BY <1>3, ObjectivesAreIntegers DEF Clean
<1>5. ASSUME records[i + 1].improved PROVE FALSE
  <2>1. Objective(records[i + 1].metrics) > Objective(records[i].metrics)
    BY <1>1, <1>5 DEF IInv, RecordsOK, RoundsOnlyImprove
  <2>2. MovedTo(p, q, records[i + 1].metrics)
    BY <1>1, <1>5 DEF MoveInv, RecordsMoved
  <2>3. PICK k \in MovesFrom(p) :
          q = Neighbour(p, k) /\ [params |-> q, metrics |-> records[i + 1].metrics] \in grades
    BY <2>2 DEF MovedTo
  <2>4. PICK g \in grades :
          g.params = q /\ Objective(g.metrics) <= Objective(records[i].metrics)
    <3> HIDE DEF p, q
    <3>1. \E g \in grades :
            /\ g.params = Neighbour(p, k)
            /\ Objective(g.metrics) <= Objective(records[i].metrics)
      BY <1>2, <2>3 DEF SearchInv, RoundTakesBestNeighbour
    <3> QED  BY <2>3, <3>1
  <2>5. g.metrics = records[i + 1].metrics
    BY <2>3, <2>4 DEF GradesReproducible
  <2> QED  BY <1>4, <2>1, <2>4, <2>5
<1>6. ~ records[i + 1].improved
  BY <1>5
<1>7. records[i + 1].params = records[i].params
  BY <1>1, <1>6 DEF IInv, RecordsOK, RoundsOnlyImprove
<1> QED  BY <1>6, <1>7

(***************************************************************************)
(* Once a round changes nothing, no later round does: it would grade the   *)
(* same neighbours, which get the same metrics as before and lose again    *)
(* (tuner.ts:69-94).                                                       *)
(***************************************************************************)
THEOREM AStallIsFinal == Spec => []StallIsFinal
<1>1. ASSUME IInv, SearchInv, MoveInv, GradesReproducible
      PROVE  StallIsFinal
  <2> SUFFICES ASSUME NEW i \in DOMAIN records \ {1}, NEW j \in DOMAIN records \ {1},
                      i < j, ~ records[i].improved
               PROVE  records[j].params = records[i].params
    BY DEF StallIsFinal
  <2>1. records \in Seq(RoundRecord)
    BY <1>1 DEF IInv, RecordsOK
  <2>2. DOMAIN records = 1 .. Len(records) /\ Len(records) \in Nat /\ i \in Nat /\ j \in Nat
    BY <2>1
  <2> DEFINE Moved == {k \in i .. j :
                         records[k].improved \/ records[k].params # records[i].params}
  <2>3. SUFFICES ASSUME Moved # {} PROVE FALSE
    BY <2>2
  <2>4. Moved \in SUBSET Nat
    BY <2>2
  <2>5. PICK k \in Moved : \A y \in Moved : k <= y
    <3> HIDE DEF Moved
    <3> QED  BY <2>3, <2>4, LeastNatural
  <2>6. k \in i .. j /\ (records[k].improved \/ records[k].params # records[i].params)
    OBVIOUS
  <2>7. k # i
    BY <2>6
  <2>8. k - 1 \in i .. j /\ k - 1 \in DOMAIN records \ {1} /\ (k - 1) + 1 = k
        /\ k \in DOMAIN records /\ ~ k <= k - 1
    BY <2>2, <2>6, <2>7
  <2>9. k - 1 \notin Moved
    <3> HIDE DEF Moved
    <3> QED  BY <2>5, <2>8
  <2>10. ~ records[k - 1].improved /\ records[k - 1].params = records[i].params
    BY <2>8, <2>9
  <2>11. ~ records[k].improved /\ records[k].params = records[k - 1].params
    BY <1>1, <2>8, <2>10, NextRoundStallsToo
  <2> QED  BY <2>6, <2>10, <2>11
<1> QED  BY <1>1, IInvInvariant, SearchInvariant, MoveInvariant, GradesAreReproducible, PTL
=============================================================================
