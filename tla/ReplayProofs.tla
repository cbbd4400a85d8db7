---------------------------- MODULE ReplayProofs ----------------------------
(***************************************************************************)
(* Theorems about ReplayEngine, for any streams, caps, candidates and      *)
(* artifacts, however the sidecar fails, restarts or is retrained:         *)
(*   - only an artifact that records the pinned version is compared, and a *)
(*     model's decision is the first of the best of all its candidates;    *)
(*   - the scheduler keeps its contract, step by step;                     *)
(*   - a run is degraded if and only if the curve decided in it;           *)
(*   - the caps bind within a run;                                         *)
(*   - both arms have the same luck;                                       *)
(*   - nothing follows a recovery, and every failure is shown, given that  *)
(*     the events of a stream have ids of their own;                       *)
(*   - run, scheduler and sidecar hold what their types say;               *)
(*   - the series rises to the totals.                                     *)
(***************************************************************************)
EXTENDS ReplayEngine, FiniteSetTheorems, SequenceTheorems, Minima

-----------------------------------------------------------------------------
(* P(recover) lies between 0 and 1000 permille.                            *)
LEMMA QuotientBound ==
  ASSUME NEW x \in Nat, NEW y \in Nat, y > 0, x <= 1000 * y
  PROVE  x \div y \in 0 .. 1000
<1> DEFINE q == x \div y
<1>1. q \in Int
  OBVIOUS
<1>2. y * q <= x /\ x < y * q + y
  OBVIOUS
<1> HIDE DEF q
<1>3. q <= 1000
  <2>1. SUFFICES ASSUME q >= 1001 PROVE FALSE
    BY <1>1
  <2>2. y * q >= y * 1001
    BY <1>1, <2>1
  <2> QED  BY <1>1, <1>2, <2>2
<1>4. q >= 0
  <2>1. SUFFICES ASSUME q <= -1 PROVE FALSE
    BY <1>1
  <2>2. y * q <= y * (-1)
    BY <1>1, <2>1
  <2> QED  BY <1>1, <1>2, <2>2
<1> QED  BY <1>1, <1>3, <1>4 DEF q

LEMMA FactorsAreNatural ==
  ASSUME NEW attempt \in Nat, NEW t \in Int, NEW failure \in Int, NEW family
  PROVE  TimingFactor(attempt, t, failure, family) \in Nat
<1>1. AttemptFactor(attempt) \in Nat
  BY DEF AttemptFactor
<1>2. HourFactor(t) \in {23, 20, 18, 15}
  BY DEF HourFactor
<1>3. PaydayFactor(t) \in {12, 11, 10}
  BY DEF PaydayFactor
<1>4. RecencyFactor(failure, t) \in Nat
  BY DEF RecencyFactor
<1>5. FamilyFactor(family) \in {11, 6, 10}
  BY DEF FamilyFactor
<1> DEFINE h == HourFactor(t)
           pd == PaydayFactor(t)
           fam == FamilyFactor(family)
           a == AttemptFactor(attempt)
           r == RecencyFactor(failure, t)
<1>6. h \in Nat /\ pd \in Nat /\ fam \in Nat /\ a \in Nat /\ r \in Nat
  BY <1>1, <1>2, <1>3, <1>4, <1>5
<1>7. TimingFactor(attempt, t, failure, family) = (a * h * pd * r * fam) \div 20000
  BY DEF TimingFactor
<1> HIDE DEF h, pd, fam, a, r
<1>8. a * h * pd * r * fam \in Nat
  <2>1. a * h \in Nat
    BY <1>6
  <2>2. a * h * pd \in Nat
    BY <1>6, <2>1
  <2>3. a * h * pd * r \in Nat
    BY <1>6, <2>2
  <2> QED  BY <1>6, <2>3
<1> QED  BY <1>7, <1>8

LEMMA MomentPIsAProbability ==
  ASSUME NEW propensity, propensity \in 1 .. 999, NEW attempt, attempt \in Nat,
         NEW t, t \in Int, NEW failure, failure \in Int, NEW family
  PROVE  MomentP(propensity, attempt, t, failure, family) \in 0 .. 1000
<1> DEFINE factor == TimingFactor(attempt, t, failure, family)
           odds   == propensity * factor
           rest   == (1000 - propensity) * 1000
<1>1. factor \in Nat
  BY FactorsAreNatural
<1>2. MomentP(propensity, attempt, t, failure, family) = (odds * 1000) \div (odds + rest)
  BY DEF MomentP, CombineP
<1> HIDE DEF factor
<1>3. odds \in Nat
  BY <1>1
<1>4. rest \in Nat /\ rest > 0
  OBVIOUS
<1> HIDE DEF odds, rest
<1>5. /\ odds * 1000 \in Nat /\ odds + rest \in Nat /\ odds + rest > 0
      /\ odds * 1000 <= 1000 * (odds + rest)
  BY <1>3, <1>4
<1> QED  BY <1>2, <1>5, QuotientBound
-----------------------------------------------------------------------------
(***************************************************************************)
(* The scheduler.                                                          *)
(***************************************************************************)
ScoreOK(s) ==
  s.p \in 0 .. 1000 /\ s.modelVersion = PinnedVersion /\ s.bundle.recorded = PinnedVersion

BundleOK(b) == b.recorded = PinnedVersion /\ b.version = PinnedVersion
               /\ b.training \in DOMAIN Propensity

SidecarOK == artifact \in Artifacts /\ (cached # NoBundle => BundleOK(cached))

FirstBest(s) ==
  /\ DOMAIN scores = Candidates
  /\ \E i \in Candidates :
       /\ s.scheduledFor = asked.ts + CandidateOffsets[i]
       /\ \A j \in Candidates : scores[j].p <= s.pRecover
       /\ \A j \in Candidates : j < i => scores[j].p < s.pRecover

SchedulerOK ==
  /\ asked \in Payments \cup {NoPayment}
  /\ asked = NoPayment => waiting = {} /\ schedule = NoSchedule
  /\ DOMAIN scores \subseteq Candidates
  /\ \A i \in DOMAIN scores : ScoreOK(scores[i])
  /\ waiting # {} => schedule = NoSchedule /\ waiting \cup DOMAIN scores = Candidates
  /\ schedule # NoSchedule =>
       \/ schedule \in ModelDecisions(asked) /\ FirstBest(schedule)
       \/ schedule = FallbackSchedule(asked)

LEMMA LoadableIsPinned ==
  ASSUME NEW a \in Artifacts, Loadable(a)
  PROVE  BundleOK(LoadBundle(a))
<1>1. a \in Artifact
  BY SidecarAssumption
<1>2. a.booster \in DOMAIN Propensity
  BY <1>1 DEF Artifact, Loadable
<1> QED  BY <1>2 DEF Loadable, LoadBundle, BundleOK

LEMMA ServedIsPinned ==
  ASSUME SidecarOK, Available
  PROVE  BundleOK(Served)
  BY LoadableIsPinned DEF SidecarOK, Available, Served

LEMMA GetBundleKeepsSidecar ==
  ASSUME SidecarOK, GetBundle
  PROVE  SidecarOK'
<1>1. artifact' = artifact
  BY DEF GetBundle
<1>2. CASE Available
  <2>1. cached' = Served
    BY <1>2 DEF GetBundle
  <2> QED  BY <1>1, <1>2, <2>1, ServedIsPinned DEF SidecarOK, BundleOK
<1>3. CASE ~ Available
  <2>1. cached' = NoBundle
    BY <1>3 DEF GetBundle
  <2> QED  BY <1>1, <2>1 DEF SidecarOK
<1> QED  BY <1>2, <1>3

LEMMA ScoresAreOK ==
  ASSUME NEW b, BundleOK(b), NEW payment, payment.ts \in Int,
         payment.attempt \in Nat \ {0}, payment.family \in DeclineFamily, Scorable(payment)
  PROVE  ScoreOK(ScoreOf(b, payment))
<1> DEFINE propensity == Propensity[b.training][payment.family][payment.attempt]
           P(days)    == MomentP(propensity, payment.attempt + 1, payment.ts + 24 * days,
                                 payment.ts, payment.family)
<1>1. payment.attempt \in 1 .. MaxAttempt
  BY SidecarAssumption DEF Scorable
<1>2. propensity \in 1 .. 999
  <2>1. \A training \in DOMAIN Propensity, family \in DeclineFamily,
            attempt \in 1 .. MaxAttempt :
          Propensity[training][family][attempt] \in 1 .. 999
    BY SidecarAssumption
  <2>2. b.training \in DOMAIN Propensity
    BY DEF BundleOK
  <2> QED  BY <1>1, <2>1, <2>2
<1>3. \A days \in {1, 3, 7} : P(days) \in 0 .. 1000
  <2> SUFFICES ASSUME NEW days \in {1, 3, 7} PROVE P(days) \in 0 .. 1000
    OBVIOUS
  <2> DEFINE q       == propensity
             attempt == payment.attempt + 1
             t       == payment.ts + 24 * days
             ts      == payment.ts
             fam     == payment.family
  <2>1. q \in 1 .. 999
    BY <1>2
  <2>2. attempt \in Nat
    OBVIOUS
  <2>3. ts \in Int
    OBVIOUS
  <2>4. t \in Int
    BY <2>3
  <2> HIDE DEF q, attempt, t, ts, fam
  <2>5. MomentP(q, attempt, t, ts, fam) \in 0 .. 1000
    BY <2>1, <2>2, <2>3, <2>4, MomentPIsAProbability
  <2> QED  BY <2>5 DEF q, attempt, t, ts, fam
<1> HIDE DEF P
<1> DEFINE a == P(1)
           c == P(3)
           d == P(7)
<1>4. Max({a, c, d}) \in 0 .. 1000
  <2>1. a \in 0 .. 1000 /\ c \in 0 .. 1000 /\ d \in 0 .. 1000
    BY <1>3
  <2> HIDE DEF a, c, d
  <2>2. \E x \in {a, c, d} : \A y \in {a, c, d} : x >= y
    <3>1. CASE a >= c /\ a >= d
      BY <2>1, <3>1
    <3>2. CASE c >= a /\ c >= d
      BY <2>1, <3>2
    <3>3. CASE d >= a /\ d >= c
      BY <2>1, <3>3
    <3>4. (a >= c /\ a >= d) \/ (c >= a /\ c >= d) \/ (d >= a /\ d >= c)
      BY <2>1
    <3> QED  BY <3>1, <3>2, <3>3, <3>4
  <2> QED  BY <2>1, <2>2 DEF Max
<1>5. {P(days) : days \in {1, 3, 7}} = {P(1), P(3), P(7)}
  OBVIOUS
<1>6. ScoreOf(b, payment) = [p |-> Max({P(1), P(3), P(7)}), modelVersion |-> b.version,
                             bundle |-> b]
  BY <1>5 DEF ScoreOf, P
<1> QED  BY <1>4, <1>6 DEF ScoreOK, BundleOK

(* Of finitely many probabilities there is a first of the greatest.        *)
LEMMA FirstOfTheGreatest ==
  ASSUME NEW n \in Nat \ {0}, NEW p, DOMAIN p = 1 .. n,
         \A i \in 1 .. n : p[i] \in Nat /\ p[i] <= 1000
  PROVE  \E i \in 1 .. n : /\ \A j \in 1 .. n : p[j] <= p[i]
                           /\ \A j \in 1 .. n : j < i => p[j] < p[i]
<1> DEFINE Misses == {k \in Nat : \E i \in 1 .. n : p[i] + k = 1000}
<1>1. Misses \subseteq Nat /\ Misses # {}
  <2>1. 1 \in 1 .. n
    OBVIOUS
  <2>2. p[1] \in Nat /\ p[1] <= 1000
    BY <2>1
  <2>3. 1000 - p[1] \in Nat /\ p[1] + (1000 - p[1]) = 1000
    BY <2>2
  <2>4. 1000 - p[1] \in Misses
    BY <2>1, <2>3
  <2> QED  BY <2>4
<1>2. PICK least \in Misses : \A m \in Misses : least <= m
  BY <1>1, LeastNatural
<1> DEFINE Winners == {i \in 1 .. n : p[i] + least = 1000}
<1>3. Winners \subseteq Nat /\ Winners # {}
  <2>1. PICK i \in 1 .. n : p[i] + least = 1000
    BY <1>2
  <2>2. i \in Winners
    BY <2>1
  <2> QED  BY <2>2
<1>4. PICK i \in Winners : \A j \in Winners : i <= j
  BY <1>3, LeastNatural
<1>5. ASSUME NEW j \in 1 .. n PROVE p[j] <= p[i]
  <2> DEFINE k == 1000 - p[j]
  <2>1. p[j] \in Nat /\ p[j] <= 1000
    OBVIOUS
  <2>2. k \in Nat /\ p[j] + k = 1000
    BY <2>1
  <2>3. k \in Misses
    BY <2>2
  <2>4. least <= k
    BY <2>3, <1>2
  <2>5. p[i] + least = 1000 /\ i \in 1 .. n
    BY <1>4
  <2>6. p[i] \in Nat
    BY <2>5
  <2>7. least \in Nat
    BY <1>2
  <2> QED  BY <2>1, <2>2, <2>4, <2>5, <2>6, <2>7
<1>6. ASSUME NEW j \in 1 .. n, j < i PROVE p[j] < p[i]
  <2>1. p[j] + least # 1000
    BY <1>4, <1>6
  <2>2. p[i] + least = 1000 /\ i \in 1 .. n
    BY <1>4
  <2>3. p[i] \in Nat /\ p[j] \in Nat /\ least \in Nat
    BY <2>2, <1>2
  <2>4. p[j] <= p[i]
    BY <1>5
  <2>5. p[j] # p[i]
    BY <2>1, <2>2
  <2> QED  BY <2>3, <2>4, <2>5
<1>7. i \in 1 .. n
  BY <1>4
<1> QED  BY <1>5, <1>6, <1>7

(* When all candidates have answered, the best of them is well defined.    *)
LEMMA BestExists ==
  ASSUME NEW answers, \A i \in Candidates : answers[i].p \in 0 .. 1000
  PROVE  /\ BestOf(answers) \in Candidates
         /\ \A j \in Candidates : answers[j].p <= answers[BestOf(answers)].p
         /\ \A j \in Candidates : j < BestOf(answers) =>
              answers[j].p < answers[BestOf(answers)].p
<1>1. Candidates = 1 .. Len(CandidateOffsets) /\ Len(CandidateOffsets) \in Nat \ {0}
  BY SchedulerAssumption DEF Candidates
<1> DEFINE Prob(i) == answers[i].p
           p == [i \in Candidates |-> Prob(i)]
<1>2. \A i \in Candidates : Prob(i) \in 0 .. 1000
  OBVIOUS
<1>3. \E i \in Candidates : /\ \A j \in Candidates : Prob(j) <= Prob(i)
                            /\ \A j \in Candidates : j < i => Prob(j) < Prob(i)
  <2> DEFINE n == Len(CandidateOffsets)
  <2>1. Candidates = 1 .. n /\ n \in Nat \ {0}
    BY <1>1
  <2> HIDE DEF Prob, n
  <2>2. DOMAIN p = 1 .. n
    BY <2>1
  <2>3. \A i \in Candidates : p[i] = Prob(i)
    OBVIOUS
  <2> HIDE DEF p
  <2>4. \A i \in 1 .. n : p[i] \in Nat /\ p[i] <= 1000
    <3> SUFFICES ASSUME NEW i \in 1 .. n PROVE p[i] \in Nat /\ p[i] <= 1000
      OBVIOUS
    <3>1. Prob(i) \in 0 .. 1000 /\ p[i] = Prob(i)
      BY <1>2, <2>1, <2>3
    <3> QED  BY <3>1
  <2>5. PICK i \in 1 .. n : /\ \A j \in 1 .. n : p[j] <= p[i]
                            /\ \A j \in 1 .. n : j < i => p[j] < p[i]
    BY <2>1, <2>2, <2>4, FirstOfTheGreatest
  <2>6. \A j \in Candidates : Prob(j) <= Prob(i)
    BY <2>1, <2>3, <2>5
  <2>7. \A j \in Candidates : j < i => Prob(j) < Prob(i)
    BY <2>1, <2>3, <2>5
  <2> QED  BY <2>1, <2>5, <2>6, <2>7
<1> QED  BY <1>3, Zenon DEF BestOf
-----------------------------------------------------------------------------
(***************************************************************************)
(* The run: where the engine stands, and what it awaits.                   *)
(***************************************************************************)
EngineOK ==
  /\ stream \in Streams /\ now \in Nows /\ followup \in BOOLEAN
  /\ stage \in {"baseline", "decide", "score", "done"}
  /\ at \in Nat \ {0}
  /\ stage # "done" => at <= Len(stream)
  /\ stage # "score" => asked = NoPayment \/ schedule # NoSchedule
  /\ stage = "score" => asked \in Payments

RunInv == SidecarOK /\ SchedulerOK /\ EngineOK

LEMMA FailureOfStream ==
  ASSUME EngineOK, stage # "done"
  PROVE  Failure \in ToSet(stream)
<1>1. DOMAIN stream = 1 .. Len(stream) /\ Len(stream) \in Nat
  BY StreamAssumption DEF EngineOK
<1>2. at \in DOMAIN stream
  BY <1>1 DEF EngineOK
<1> QED  BY <1>2 DEF ToSet, Failure

LEMMA AskedPayment ==
  ASSUME EngineOK, stage = "decide"
  PROVE  [ts |-> Failure.ts, attempt |-> Attempt, family |-> Failure.family] \in Payments
<1> DEFINE n == IF followup THEN 1 ELSE 0
<1>1. n \in {0, 1}
  BY DEF EngineOK
<1>2. Failure \in ToSet(stream)
  BY FailureOfStream
<1>3. [ts |-> Failure.ts, attempt |-> Failure.attempt + n, family |-> Failure.family] \in Payments
  BY <1>1, <1>2, StreamAssumption DEF EngineOK
<1> QED  BY <1>3 DEF Attempt

LEMMA RunInvInit ==
  ASSUME Init
  PROVE  RunInv
<1> USE DEF Init, InitReplay, InitScheduler, InitSidecar
<1>1. SidecarOK
  BY DEF SidecarOK
<1>2. SchedulerOK
  <2>1. DOMAIN scores = {}
    OBVIOUS
  <2> QED  BY <2>1 DEF SchedulerOK
<1>3. EngineOK
  <2>1. Len(stream) \in Nat \ {0}
    BY StreamAssumption
  <2>2. at = 1 /\ stage = "baseline" /\ followup = FALSE /\ asked = NoPayment
    OBVIOUS
  <2>3. stream \in Streams /\ now \in Nows
    OBVIOUS
  <2>4. at \in Nat \ {0} /\ at <= Len(stream)
    BY <2>1, <2>2
  <2>5. followup \in BOOLEAN
    BY <2>2
  <2>6. stage \in {"baseline", "decide", "score", "done"} /\ stage # "score"
    BY <2>2
  <2> QED  BY <2>2, <2>3, <2>4, <2>5, <2>6 DEF EngineOK
<1> QED  BY <1>1, <1>2, <1>3 DEF RunInv

(* The sidecar's own events: loading, restarting, a new artifact.          *)
LEMMA SidecarEventKeepsSidecar ==
  ASSUME SidecarOK, SidecarEvent
  PROVE  SidecarOK'
<1>1. CASE OtherRequest
  BY <1>1, GetBundleKeepsSidecar DEF OtherRequest
<1>2. CASE ReplaceArtifact
  BY <1>2 DEF ReplaceArtifact, SidecarOK, BundleOK
<1>3. CASE RestartSidecar
  BY <1>3 DEF RestartSidecar, SidecarOK
<1> QED  BY <1>1, <1>2, <1>3 DEF SidecarEvent

LEMMA DegradeKeepsScheduler ==
  ASSUME SchedulerOK, waiting # {}, Degrade
  PROVE  SchedulerOK'
<1>1. asked # NoPayment
  BY DEF SchedulerOK
<1>2. /\ asked' = asked /\ scores' = scores /\ waiting' = {}
      /\ schedule' = FallbackSchedule(asked)
  BY DEF Degrade
<1>3. FallbackSchedule(asked)' = FallbackSchedule(asked)
  BY <1>2 DEF FallbackSchedule, CurveP
<1>4. \A k \in DOMAIN scores' : ScoreOK(scores'[k])
  BY <1>2 DEF SchedulerOK
<1> QED  BY <1>1, <1>2, <1>3, <1>4 DEF SchedulerOK

LEMMA AskKeepsScheduler ==
  ASSUME SchedulerOK, NEW payment \in Payments, Ask(payment)
  PROVE  SchedulerOK'
<1>1. DOMAIN scores' = {}
  BY DEF Ask
<1>2. asked' \in Payments /\ asked' # NoPayment /\ waiting' = Candidates
      /\ schedule' = NoSchedule
  BY SchedulerAssumption DEF Ask
<1> QED  BY <1>1, <1>2 DEF SchedulerOK

(* The event a candidate is scored for is one the sidecar can score.       *)
LEMMA CandidateScore ==
  ASSUME SidecarOK, Available, asked \in Payments, Scorable(asked),
         NEW i \in Candidates
  PROVE  ScoreOK(ScoreOf(Served, CandidateEvent(i)))
<1> DEFINE event == CandidateEvent(i)
<1>1. asked \in [ts : Nat, attempt : Nat \ {0}, family : DeclineFamily]
  BY SchedulerAssumption
<1>2. CandidateOffsets[i] \in Nat
  BY SchedulerAssumption DEF Candidates
<1>3. /\ event.ts = asked.ts + CandidateOffsets[i]
      /\ event.attempt = asked.attempt /\ event.family = asked.family
  BY <1>1 DEF CandidateEvent
<1>4. event.ts \in Int
  BY <1>1, <1>2, <1>3
<1>5. event.attempt \in Nat \ {0} /\ event.family \in DeclineFamily
  BY <1>1, <1>3
<1>6. Scorable(event)
  BY <1>3 DEF Scorable
<1>7. BundleOK(Served)
  BY ServedIsPinned
<1> HIDE DEF event
<1>8. ScoreOK(ScoreOf(Served, event))
  BY <1>4, <1>5, <1>6, <1>7, ScoresAreOK
<1> QED  BY <1>8 DEF event

(* The decision over a full set of scores is the first of the best.        *)
LEMMA ModelScheduleIsFirstBest ==
  ASSUME NEW answers, DOMAIN answers = Candidates,
         \A k \in Candidates : ScoreOK(answers[k])
  PROVE  /\ ModelSchedule(answers) \in ModelDecisions(asked)
         /\ \E k \in Candidates :
              /\ ModelSchedule(answers).scheduledFor = asked.ts + CandidateOffsets[k]
              /\ \A j \in Candidates : answers[j].p <= ModelSchedule(answers).pRecover
              /\ \A j \in Candidates : j < k => answers[j].p < ModelSchedule(answers).pRecover
<1> DEFINE best == BestOf(answers)
<1>1. \A k \in Candidates : answers[k].p \in 0 .. 1000
  BY DEF ScoreOK
<1>2. /\ best \in Candidates
      /\ \A j \in Candidates : answers[j].p <= answers[best].p
      /\ \A j \in Candidates : j < best => answers[j].p < answers[best].p
  BY <1>1, BestExists
<1>3. answers[best].modelVersion = PinnedVersion /\ answers[best].p \in 0 .. 1000
  BY <1>2 DEF ScoreOK
<1>4. ModelSchedule(answers) =
        [scheduledFor |-> asked.ts + CandidateOffsets[best], pRecover |-> answers[best].p,
         modelVersion |-> answers[best].modelVersion, degraded |-> FALSE]
  BY DEF ModelSchedule
<1> HIDE DEF best
<1>5. ModelSchedule(answers) \in ModelDecisions(asked)
  BY <1>2, <1>3, <1>4 DEF ModelDecisions
<1>6. ModelSchedule(answers).scheduledFor = asked.ts + CandidateOffsets[best]
      /\ ModelSchedule(answers).pRecover = answers[best].p
  BY <1>4
<1> QED  BY <1>2, <1>5, <1>6

LEMMA ScoreArrivesKeepsScheduler ==
  ASSUME SidecarOK, SchedulerOK, NEW i \in Candidates, ScoreArrives(i)
  PROVE  /\ SchedulerOK'
         /\ waiting' # {} => schedule' = schedule
         /\ waiting' = {} => schedule' \in ModelDecisions(asked)
<1>1. /\ i \in waiting /\ Available /\ Scorable(asked)
      /\ asked' = asked /\ waiting' = waiting \ {i}
  BY DEF ScoreArrives
<1>2. asked \in Payments /\ asked # NoPayment /\ schedule = NoSchedule
  BY <1>1 DEF SchedulerOK
<1>3. DOMAIN scores' = DOMAIN scores \cup {i}
  BY DEF ScoreArrives
<1>4. \A k \in DOMAIN scores' : ScoreOK(scores'[k])
  <2> SUFFICES ASSUME NEW k \in DOMAIN scores \cup {i} PROVE ScoreOK(scores'[k])
    BY <1>3
  <2>1. scores'[k] = IF k = i THEN ScoreOf(Served, CandidateEvent(i)) ELSE scores[k]
    BY DEF ScoreArrives
  <2>2. CASE k = i
    BY <2>1, <2>2, <1>1, <1>2, CandidateScore
  <2>3. CASE k # i
    BY <2>1, <2>3 DEF SchedulerOK
  <2> QED  BY <2>2, <2>3
<1>5. DOMAIN scores' \subseteq Candidates /\ waiting' \cup DOMAIN scores' = Candidates
  BY <1>1, <1>3 DEF SchedulerOK
<1>6. schedule' = IF waiting' = {} THEN ModelSchedule(scores') ELSE NoSchedule
  BY DEF ScoreArrives
<1>7. CASE waiting' # {}
  <2>1. schedule' = NoSchedule
    BY <1>6, <1>7
  <2> QED  BY <2>1, <1>1, <1>2, <1>4, <1>5, <1>7 DEF SchedulerOK
<1>8. CASE waiting' = {}
  <2>1. schedule' = ModelSchedule(scores')
    BY <1>6, <1>8
  <2>2. DOMAIN scores' = Candidates
    BY <1>5, <1>8
  <2>3. /\ ModelSchedule(scores') \in ModelDecisions(asked)
        /\ \E k \in Candidates :
             /\ ModelSchedule(scores').scheduledFor = asked.ts + CandidateOffsets[k]
             /\ \A j \in Candidates : scores'[j].p <= ModelSchedule(scores').pRecover
             /\ \A j \in Candidates : j < k => scores'[j].p < ModelSchedule(scores').pRecover
    BY <2>2, <1>4, ModelScheduleIsFirstBest
  <2>4. FirstBest(schedule)'
    BY <2>1, <2>2, <2>3, <1>1 DEF FirstBest
  <2>5. ModelDecisions(asked)' = ModelDecisions(asked)
    BY <1>1 DEF ModelDecisions
  <2>6. schedule' \in ModelDecisions(asked)
    BY <2>1, <2>3
  <2>7. asked' # NoPayment /\ asked' \in Payments
    BY <1>1, <1>2
  <2>8. SchedulerOK'
    BY <2>4, <2>5, <2>6, <2>7, <1>4, <1>5, <1>8 DEF SchedulerOK
  <2> QED  BY <2>6, <2>8, <1>8
<1> QED  BY <1>7, <1>8

LEMMA SchedulerStepKeepsRun ==
  ASSUME SidecarOK, SchedulerOK, SchedulerStep
  PROVE  /\ SidecarOK' /\ SchedulerOK'
         /\ waiting # {} /\ asked' = asked
         /\ \/ schedule' = schedule
            \/ schedule' \in ModelDecisions(asked) \cup {FallbackSchedule(asked)}
<1>1. PICK i \in Candidates : ScoreArrives(i) \/ ScoreRefused(i) \/ CallFails(i)
  BY DEF SchedulerStep
<1>2. CASE ScoreArrives(i)
  <2>1. i \in waiting /\ asked' = asked /\ GetBundle
    BY <1>2 DEF ScoreArrives
  <2> QED  BY <1>2, <2>1, ScoreArrivesKeepsScheduler, GetBundleKeepsSidecar
<1>3. CASE ScoreRefused(i) \/ CallFails(i)
  <2>1. i \in waiting /\ Degrade /\ UNCHANGED sidecarVars
    BY <1>3 DEF ScoreRefused, CallFails
  <2>2. SidecarOK'
    BY <2>1 DEF SidecarOK, sidecarVars, BundleOK
  <2>3. asked' = asked /\ schedule' = FallbackSchedule(asked)
    BY <2>1 DEF Degrade
  <2> QED  BY <2>1, <2>2, <2>3, DegradeKeepsScheduler
<1> QED  BY <1>1, <1>2, <1>3

LEMMA SchedulerUnchanged ==
  ASSUME SchedulerOK, UNCHANGED schedulerVars
  PROVE  SchedulerOK'
<1>1. asked' = asked /\ waiting' = waiting /\ scores' = scores /\ schedule' = schedule
  BY DEF schedulerVars
<1>2. FirstBest(schedule)' <=> FirstBest(schedule)
  BY <1>1 DEF FirstBest
<1>3. /\ ModelDecisions(asked)' = ModelDecisions(asked)
      /\ FallbackSchedule(asked)' = FallbackSchedule(asked)
  BY <1>1 DEF ModelDecisions, FallbackSchedule, CurveP
<1>4. \A i \in DOMAIN scores' : ScoreOK(scores'[i])
  BY <1>1 DEF SchedulerOK
<1> QED  BY <1>1, <1>2, <1>3, <1>4 DEF SchedulerOK

LEMMA SidecarUnchanged ==
  ASSUME SidecarOK, UNCHANGED sidecarVars
  PROVE  SidecarOK'
  BY DEF SidecarOK, sidecarVars, BundleOK

(* The engine moves on to the next failure, or is done.                    *)
LEMMA NextFailureKeepsEngine ==
  ASSUME EngineOK, stage # "done", NextFailure, UNCHANGED inputVars,
         UNCHANGED schedulerVars, asked = NoPayment \/ schedule # NoSchedule
  PROVE  EngineOK'
<1>1. stream' = stream /\ now' = now /\ asked' = asked /\ schedule' = schedule
  BY DEF inputVars, schedulerVars
<1>2. /\ at' = at + 1 /\ followup' = FALSE
      /\ stage' = IF at = Len(stream) THEN "done" ELSE "baseline"
  BY DEF NextFailure
<1>3. Len(stream) \in Nat /\ at \in Nat \ {0} /\ at <= Len(stream)
  BY StreamAssumption DEF EngineOK
<1>4. at' \in Nat \ {0}
  BY <1>2, <1>3
<1>5. stage' # "done" => at' <= Len(stream')
  BY <1>1, <1>2, <1>3
<1>6. stage' \in {"baseline", "decide", "score", "done"} /\ stage' # "score"
  BY <1>2
<1>7. followup' \in BOOLEAN
  BY <1>2
<1>8. stream' \in Streams /\ now' \in Nows
  BY <1>1 DEF EngineOK
<1> QED  BY <1>1, <1>4, <1>5, <1>6, <1>7, <1>8 DEF EngineOK

LEMMA RunInvInductive == RunInv /\ [Next]_vars => RunInv'
<1> SUFFICES ASSUME RunInv, [Next]_vars PROVE RunInv'
  OBVIOUS
<1>0. SidecarOK /\ SchedulerOK /\ EngineOK
  BY DEF RunInv
<1>1. CASE ReplayBaseline
  <2>1. UNCHANGED schedulerVars /\ UNCHANGED sidecarVars
    BY <1>1 DEF ReplayBaseline
  <2>2. /\ stage = "baseline" /\ stage' = "decide" /\ at' = at /\ followup' = followup
        /\ stream' = stream /\ now' = now /\ asked' = asked /\ schedule' = schedule
    BY <1>1 DEF ReplayBaseline, inputVars, schedulerVars
  <2>3. EngineOK'
    BY <1>0, <2>2 DEF EngineOK
  <2> QED  BY <1>0, <2>1, <2>3, SchedulerUnchanged, SidecarUnchanged DEF RunInv
<1>2. CASE AskScheduler
  <2> DEFINE payment == [ts |-> Failure.ts, attempt |-> Attempt, family |-> Failure.family]
  <2>1. stage = "decide" /\ Ask(payment) /\ stage' = "score" /\ UNCHANGED sidecarVars
    BY <1>2 DEF AskScheduler
  <2>2. payment \in Payments
    BY <1>0, <2>1, AskedPayment
  <2>3. stream' = stream /\ now' = now /\ at' = at /\ followup' = followup
    BY <1>2 DEF AskScheduler, inputVars
  <2> HIDE DEF payment
  <2>4. SchedulerOK'
    BY <1>0, <2>1, <2>2, AskKeepsScheduler
  <2>5. asked' \in Payments
    BY <2>1, <2>2 DEF Ask
  <2>6. EngineOK'
    BY <1>0, <2>1, <2>3, <2>5 DEF EngineOK
  <2> QED  BY <1>0, <2>1, <2>4, <2>6, SidecarUnchanged DEF RunInv
<1>3. CASE Settle
  <2>1. /\ stage = "decide" /\ NextFailure /\ UNCHANGED inputVars
        /\ UNCHANGED schedulerVars /\ UNCHANGED sidecarVars
    BY <1>3 DEF Settle
  <2>2. asked = NoPayment \/ schedule # NoSchedule
    BY <1>0, <2>1 DEF EngineOK
  <2>3. EngineOK'
    BY <1>0, <2>1, <2>2, NextFailureKeepsEngine
  <2> QED  BY <1>0, <2>1, <2>3, SchedulerUnchanged, SidecarUnchanged DEF RunInv
<1>4. CASE RecordRetry
  <2>1. /\ stage = "score" /\ schedule # NoSchedule /\ UNCHANGED inputVars
        /\ UNCHANGED schedulerVars /\ UNCHANGED sidecarVars
    BY <1>4 DEF RecordRetry
  <2>2. NextFailure \/ (stage' = "decide" /\ followup' = TRUE /\ UNCHANGED at)
    BY <1>4 DEF RecordRetry
  <2>3. EngineOK'
    <3>1. CASE NextFailure
      BY <1>0, <2>1, <3>1, NextFailureKeepsEngine
    <3>2. CASE stage' = "decide" /\ followup' = TRUE /\ UNCHANGED at
      <4>1. stream' = stream /\ now' = now /\ asked' = asked /\ schedule' = schedule
        BY <2>1 DEF inputVars, schedulerVars
      <4>2. followup' \in BOOLEAN
        BY <3>2
      <4> QED  BY <1>0, <2>1, <3>2, <4>1, <4>2 DEF EngineOK
    <3> QED  BY <2>2, <3>1, <3>2
  <2> QED  BY <1>0, <2>1, <2>3, SchedulerUnchanged, SidecarUnchanged DEF RunInv
<1>5. CASE AwaitedStep
  <2>1. SchedulerStep /\ UNCHANGED engineVars
    BY <1>5 DEF AwaitedStep
  <2>2. SidecarOK' /\ SchedulerOK' /\ waiting # {} /\ asked' = asked
    BY <1>0, <2>1, SchedulerStepKeepsRun
  <2>3. stage = "score"
    BY <1>0, <2>2 DEF EngineOK, SchedulerOK
  <2>4. /\ stream' = stream /\ now' = now /\ at' = at /\ followup' = followup
        /\ stage' = stage
    BY <2>1 DEF engineVars, inputVars, runVars
  <2>5. EngineOK'
    BY <1>0, <2>2, <2>3, <2>4 DEF EngineOK
  <2> QED  BY <2>2, <2>5 DEF RunInv
<1>6. CASE OutsideStep
  <2>1. SidecarEvent /\ UNCHANGED engineVars /\ UNCHANGED schedulerVars
    BY <1>6 DEF OutsideStep
  <2>2. /\ stream' = stream /\ now' = now /\ at' = at /\ followup' = followup
        /\ stage' = stage /\ asked' = asked /\ schedule' = schedule
    BY <2>1 DEF engineVars, inputVars, runVars, schedulerVars
  <2>3. EngineOK'
    BY <1>0, <2>2 DEF EngineOK
  <2> QED  BY <1>0, <2>1, <2>3, SchedulerUnchanged, SidecarEventKeepsSidecar DEF RunInv
<1>7. CASE UNCHANGED vars
  <2>1. UNCHANGED schedulerVars /\ UNCHANGED sidecarVars
    BY <1>7 DEF vars
  <2>2. /\ stream' = stream /\ now' = now /\ at' = at /\ followup' = followup
        /\ stage' = stage /\ asked' = asked /\ schedule' = schedule
    BY <1>7 DEF vars, engineVars, inputVars, runVars, schedulerVars
  <2>3. EngineOK'
    BY <1>0, <2>2 DEF EngineOK
  <2> QED  BY <1>0, <2>1, <2>3, SchedulerUnchanged, SidecarUnchanged DEF RunInv
<1> QED  BY <1>1, <1>2, <1>3, <1>4, <1>5, <1>6, <1>7 DEF Next, EngineStep

LEMMA RunInvariant == Spec => []RunInv
<1> QED  BY RunInvInit, RunInvInductive, PTL DEF Spec

(***************************************************************************)
(* Every score the scheduler compares came from an artifact that records   *)
(* the pinned version, though the artifact under it may be replaced and    *)
(* the sidecar restarted at any moment (model_registry.py:62).             *)
(***************************************************************************)
THEOREM PinnedModelScores == Spec => []OnlyPinnedModelScores
<1>1. RunInv => OnlyPinnedModelScores
  BY DEF RunInv, SchedulerOK, ScoreOK, OnlyPinnedModelScores
<1> QED  BY <1>1, RunInvariant, PTL

(***************************************************************************)
(* A decision of the model is the first of the best of all its candidates, *)
(* whichever order the five answers come in (scheduler.ts:87).             *)
(***************************************************************************)
THEOREM ModelPicksFirstOfTheBest == Spec => []FirstOfTheBest
<1>1. RunInv => FirstOfTheBest
  <2> SUFFICES ASSUME RunInv, ModelDecided PROVE FirstBest(schedule)
    BY DEF FirstOfTheBest, FirstBest
  <2>1. schedule # FallbackSchedule(asked)
    BY DEF ModelDecided, FallbackSchedule
  <2> QED  BY <2>1 DEF RunInv, SchedulerOK, ModelDecided
<1> QED  BY <1>1, RunInvariant, PTL

(***************************************************************************)
(* Step by step the scheduler does what ScheduleContract says: one         *)
(* decision for each payment asked about, all of it the model's or all of  *)
(* it the published curve's (scheduler.ts:71-72).                          *)
(***************************************************************************)
THEOREM SchedulerKeepsContract ==
  Spec => Contract!Init /\ [][Contract!Next]_<<asked, schedule>>
<1>1. Init => Contract!Init
  BY DEF Init, InitScheduler, Contract!Init
<1>2. ASSUME RunInv, [Next]_vars PROVE [Contract!Next]_<<asked, schedule>>
  <2>0. SidecarOK /\ SchedulerOK /\ EngineOK
    BY <1>2 DEF RunInv
  <2>1. CASE AskScheduler
    <3> DEFINE payment == [ts |-> Failure.ts, attempt |-> Attempt, family |-> Failure.family]
    <3>1. stage = "decide" /\ Ask(payment)
      BY <2>1 DEF AskScheduler
    <3>2. payment \in Payments
      BY <2>0, <3>1, AskedPayment
    <3> HIDE DEF payment
    <3>3. asked = NoPayment \/ schedule # NoSchedule
      BY <2>0, <3>1 DEF EngineOK
    <3>4. asked' \in Payments /\ schedule' = NoSchedule
      BY <3>1, <3>2 DEF Ask
    <3> QED  BY <3>3, <3>4 DEF Contract!Next, Contract!Ask
  <2>2. CASE AwaitedStep
    <3>1. SchedulerStep
      BY <2>2 DEF AwaitedStep
    <3>2. /\ waiting # {} /\ asked' = asked
          /\ \/ schedule' = schedule
             \/ schedule' \in ModelDecisions(asked) \cup {FallbackSchedule(asked)}
      BY <2>0, <3>1, SchedulerStepKeepsRun
    <3>3. asked # NoPayment /\ schedule = NoSchedule
      BY <2>0, <3>2 DEF SchedulerOK
    <3> QED  BY <3>2, <3>3 DEF Contract!Next, Contract!Decide
  <2>3. CASE UNCHANGED <<asked, schedule>>
    BY <2>3
  <2>4. AskScheduler \/ AwaitedStep \/ UNCHANGED <<asked, schedule>>
    BY <1>2 DEF Next, EngineStep, ReplayBaseline, Settle, RecordRetry, OutsideStep, vars,
         schedulerVars
  <2> QED  BY <2>1, <2>2, <2>3, <2>4
<1> QED  BY <1>1, <1>2, RunInvariant, PTL DEF Spec

-----------------------------------------------------------------------------
(***************************************************************************)
(* The points and the history of a run, which only grow at their end.      *)
(***************************************************************************)
IsSequence(s) == \E S : s \in Seq(S)

LEMMA AppendSequence ==
  ASSUME NEW s, IsSequence(s), NEW x
  PROVE  /\ IsSequence(Append(s, x))
         /\ Len(s) \in Nat /\ DOMAIN s = 1 .. Len(s)
         /\ DOMAIN Append(s, x) = 1 .. Len(s) + 1
         /\ \A k \in 1 .. Len(s) : Append(s, x)[k] = s[k]
         /\ Append(s, x)[Len(s) + 1] = x
<1>1. PICK S : s \in Seq(S)
  BY DEF IsSequence
<1> DEFINE T == S \cup {x}
<1>2. s \in Seq(T) /\ x \in T
  BY <1>1, SeqMonotonic
<1> HIDE DEF T
<1>3. /\ Append(s, x) \in Seq(T) /\ Len(Append(s, x)) = Len(s) + 1
      /\ \A k \in 1 .. Len(s) : Append(s, x)[k] = s[k]
      /\ Append(s, x)[Len(s) + 1] = x
  BY <1>2, AppendProperties
<1>4. /\ Len(s) \in Nat /\ DOMAIN s = 1 .. Len(s)
      /\ DOMAIN Append(s, x) = 1 .. Len(Append(s, x))
  BY <1>2, <1>3, LenProperties
<1> QED  BY <1>3, <1>4 DEF IsSequence

DisclosureInv == IsSequence(policy) /\ IsSequence(history) /\ FallbackDisclosed

(* What RecordRetry adds: one point, and one attempt in the history.       *)
Retried == Point(Failure, Attempt, "RETRY", schedule.scheduledFor, schedule.pRecover,
                 schedule.modelVersion)

Remembered == [scopeKey |-> Failure.scopeKey, ts |-> schedule.scheduledFor]

LEMMA RecordRetryAppends ==
  ASSUME RecordRetry
  PROVE  /\ policy' = Append(policy, Retried)
         /\ history' = Append(history, Remembered)
         /\ degraded' = (degraded \/ schedule.degraded)
  BY DEF RecordRetry, Commit, Retried, Remembered

LEMMA SettleAppends ==
  ASSUME Settle
  PROVE  /\ policy' = policy \/ policy' = Append(policy, SettledPoint(Failure))
         /\ history' = history /\ degraded' = degraded
  BY DEF Settle

LEMMA SettledIsNoRetry ==
  ASSUME NEW f
  PROVE  /\ SettledPoint(f).modelVersion # FallbackVersion
         /\ SettledPoint(f).action # "RETRY"
<1>1. CASE TriageOf(f) = "ASK_CUSTOMER"
  BY <1>1 DEF SettledPoint, Point, FallbackVersion
<1>2. CASE TriageOf(f) # "ASK_CUSTOMER"
  BY <1>2 DEF SettledPoint, Point, FallbackVersion
<1> QED  BY <1>1, <1>2

LEMMA CurveDecides ==
  ASSUME SchedulerOK, schedule # NoSchedule
  PROVE  /\ schedule.degraded \in BOOLEAN
         /\ schedule.degraded <=> schedule.modelVersion = FallbackVersion
<1>1. CASE schedule \in ModelDecisions(asked)
  <2>1. schedule.degraded = FALSE /\ schedule.modelVersion = PinnedVersion
    BY <1>1 DEF ModelDecisions
  <2> QED  BY <2>1, SchedulerAssumption
<1>2. CASE schedule = FallbackSchedule(asked)
  <2>1. schedule.degraded = TRUE /\ schedule.modelVersion = FallbackVersion
    BY <1>2 DEF FallbackSchedule
  <2> QED  BY <2>1
<1> QED  BY <1>1, <1>2 DEF SchedulerOK

LEMMA EmptyRun ==
  /\ IsSequence(<<>>)
  /\ DOMAIN <<>> = {}
<1>1. <<>> \in Seq({})
  BY EmptySeq
<1>2. IsSequence(<<>>)
  BY <1>1 DEF IsSequence
<1> QED  BY <1>2

LEMMA FallbackPointsGrow ==
  ASSUME IsSequence(policy), NEW p, policy' = Append(policy, p)
  PROVE  (\E k \in DOMAIN policy' : policy'[k].modelVersion = FallbackVersion) <=>
           \/ \E k \in DOMAIN policy : policy[k].modelVersion = FallbackVersion
           \/ p.modelVersion = FallbackVersion
<1> DEFINE n == Len(policy)
<1>1. n \in Nat /\ DOMAIN policy = 1 .. n /\ DOMAIN policy' = 1 .. n + 1
  BY AppendSequence
<1>2. (\A k \in 1 .. n : policy'[k] = policy[k]) /\ policy'[n + 1] = p
  BY AppendSequence
<1> HIDE DEF n
<1>3. DOMAIN policy' = DOMAIN policy \cup {n + 1}
  BY <1>1
<1> QED  BY <1>1, <1>2, <1>3

LEMMA DisclosureInductive == RunInv /\ DisclosureInv /\ [Next]_vars => DisclosureInv'
<1> SUFFICES ASSUME RunInv, DisclosureInv, [Next]_vars PROVE DisclosureInv'
  OBVIOUS
<1>0. IsSequence(policy) /\ IsSequence(history) /\ FallbackDisclosed
  BY DEF DisclosureInv
<1>1. CASE RecordRetry
  <2>1. /\ policy' = Append(policy, Retried) /\ history' = Append(history, Remembered)
        /\ degraded' = (degraded \/ schedule.degraded)
    BY <1>1, RecordRetryAppends
  <2>2. IsSequence(policy') /\ IsSequence(history')
    BY <1>0, <2>1, AppendSequence
  <2>3. Retried.modelVersion = schedule.modelVersion
    BY DEF Retried, Point
  <2>4. schedule # NoSchedule
    BY <1>1 DEF RecordRetry
  <2>5. schedule.degraded <=> Retried.modelVersion = FallbackVersion
    BY <2>3, <2>4, CurveDecides DEF RunInv
  <2>6. (\E k \in DOMAIN policy' : policy'[k].modelVersion = FallbackVersion) <=>
          \/ \E k \in DOMAIN policy : policy[k].modelVersion = FallbackVersion
          \/ Retried.modelVersion = FallbackVersion
    BY <1>0, <2>1, FallbackPointsGrow
  <2>7. degraded' <=> degraded \/ schedule.degraded
    BY <2>1
  <2>8. degraded <=> \E k \in DOMAIN policy : policy[k].modelVersion = FallbackVersion
    BY <1>0 DEF FallbackDisclosed
  <2>9. degraded' <=> \E k \in DOMAIN policy' : policy'[k].modelVersion = FallbackVersion
    BY <2>5, <2>6, <2>7, <2>8
  <2>10. FallbackDisclosed'
    BY <2>9 DEF FallbackDisclosed
  <2> QED  BY <2>2, <2>10 DEF DisclosureInv
<1>2. CASE Settle
  <2> DEFINE p == SettledPoint(Failure)
  <2>1. /\ policy' = policy \/ policy' = Append(policy, p)
        /\ history' = history /\ degraded' = degraded
    BY <1>2, SettleAppends
  <2>2. p.modelVersion # FallbackVersion
    BY SettledIsNoRetry
  <2> HIDE DEF p
  <2>3. CASE policy' = policy
    BY <1>0, <2>1, <2>3 DEF DisclosureInv, FallbackDisclosed
  <2>4. CASE policy' = Append(policy, p)
    <3>1. IsSequence(policy') /\ IsSequence(history')
      BY <1>0, <2>1, <2>4, AppendSequence
    <3>2. (\E k \in DOMAIN policy' : policy'[k].modelVersion = FallbackVersion) <=>
            \E k \in DOMAIN policy : policy[k].modelVersion = FallbackVersion
      BY <1>0, <2>2, <2>4, FallbackPointsGrow
    <3>3. FallbackDisclosed'
      BY <1>0, <2>1, <3>2 DEF FallbackDisclosed
    <3> QED  BY <3>1, <3>3 DEF DisclosureInv
  <2> QED  BY <2>1, <2>3, <2>4
<1>3. CASE UNCHANGED <<policy, history, degraded>>
  BY <1>0, <1>3 DEF DisclosureInv, FallbackDisclosed
<1>4. RecordRetry \/ Settle \/ UNCHANGED <<policy, history, degraded>>
  BY DEF Next, EngineStep, ReplayBaseline, AskScheduler, AwaitedStep, OutsideStep, vars,
       engineVars, runVars
<1> QED  BY <1>1, <1>2, <1>3, <1>4

LEMMA DisclosureInvariant == Spec => []DisclosureInv
<1>1. Init => DisclosureInv
  <2> SUFFICES ASSUME Init PROVE DisclosureInv
    OBVIOUS
  <2>1. policy = <<>> /\ history = <<>> /\ degraded = FALSE
    BY DEF Init, InitReplay
  <2>2. ~ \E k \in DOMAIN policy : policy[k].modelVersion = FallbackVersion
    BY <2>1, EmptyRun
  <2> QED  BY <2>1, <2>2, EmptyRun DEF DisclosureInv, FallbackDisclosed
<1> QED  BY <1>1, DisclosureInductive, RunInvariant, PTL DEF Spec

(***************************************************************************)
(* A replay says that it is degraded exactly when the published curve      *)
(* decided one of its retries, whichever one that was and whatever was     *)
(* decided after it (scheduler.ts:10-11).                                  *)
(***************************************************************************)
THEOREM RunsDiscloseFallback == Spec => []FallbackDisclosed
<1>1. DisclosureInv => FallbackDisclosed
  BY DEF DisclosureInv
<1> QED  BY <1>1, DisclosureInvariant, PTL

-----------------------------------------------------------------------------
(***************************************************************************)
(* The caps.  What RetriesOf counts among any points, and the two windows  *)
(* CapsBindWithinRun looks at.                                             *)
(***************************************************************************)
ScopeIn(failures, e) == (CHOOSE f \in ToSet(failures) : f.eventId = e).scopeKey

RetrySet(points, failures, scope, hours) ==
  {k \in DOMAIN points :
     /\ points[k].action = "RETRY" /\ points[k].scheduledFor \in hours
     /\ ScopeIn(failures, points[k].eventId) = scope}

RetriesIn(points, failures, scope, hours) ==
  Cardinality(RetrySet(points, failures, scope, hours))

Ever(moment)   == moment - Window30d + 1 .. moment + 2 * Window30d
Around(moment) == moment - Window24h + 1 .. moment + Window24h

(* The guardrail counts every retry the run shows...                       *)
CountedIn(points, failures, attempts, moment, f) ==
  /\ RetriesIn(points, failures, f.scopeKey, Ever(moment))
       <= CountAfter(attempts, f.scopeKey, moment - Window30d)
  /\ RetriesIn(points, failures, f.scopeKey, Around(moment))
       <= CountWithin(attempts, f.scopeKey, moment - Window24h, moment + Window24h)

(* ... and the run shows no more of them than the caps allow.              *)
CapsIn(points, failures, moment, f) ==
  /\ f.network = "visa" =>
       RetriesIn(points, failures, f.scopeKey, Ever(moment)) <= VisaMax30d
  /\ f.network = "mastercard" =>
       /\ RetriesIn(points, failures, f.scopeKey, Ever(moment)) <= McMax30d
       /\ RetriesIn(points, failures, f.scopeKey, Around(moment)) <= McMax24h

CapsInv ==
  /\ \A f \in ToSet(stream) :
       CountedIn(policy, stream, history, now, f) /\ CapsIn(policy, stream, now, f)
  /\ stage = "score" => MayRetry(Failure)

LEMMA CapsInvIsEnough == CapsInv => CapsBindWithinRun
<1>1. ASSUME NEW scope, NEW hours
      PROVE  RetriesOf(scope, hours) = RetriesIn(policy, stream, scope, hours)
  BY DEF RetriesOf, RetriesIn, RetrySet, ScopeOfEvent, ScopeIn
<1> QED  BY <1>1 DEF CapsInv, CapsIn, CapsBindWithinRun, Ever, Around

LEMMA OneMore ==
  ASSUME NEW n \in Nat, NEW A \in SUBSET (1 .. n)
  PROVE  /\ Cardinality(A) \in Nat
         /\ Cardinality(A \cup {n + 1}) = Cardinality(A) + 1
<1>1. IsFiniteSet(1 .. n)
  BY FS_Interval
<1>2. IsFiniteSet(A)
  BY <1>1, FS_Subset
<1>3. n + 1 \notin A
  OBVIOUS
<1> QED  BY <1>2, <1>3, FS_AddElement, FS_CardinalityType

LEMMA RetriesGrow ==
  ASSUME NEW points, IsSequence(points), NEW p, NEW failures, NEW scope, NEW hours
  PROVE  LET more  == Append(points, p)
             shows == /\ p.action = "RETRY" /\ p.scheduledFor \in hours
                      /\ ScopeIn(failures, p.eventId) = scope
         IN  /\ RetriesIn(points, failures, scope, hours) \in Nat
             /\ shows => RetriesIn(more, failures, scope, hours)
                           = RetriesIn(points, failures, scope, hours) + 1
             /\ ~ shows => RetriesIn(more, failures, scope, hours)
                             = RetriesIn(points, failures, scope, hours)
<1> DEFINE more  == Append(points, p)
           n     == Len(points)
           shows == /\ p.action = "RETRY" /\ p.scheduledFor \in hours
                    /\ ScopeIn(failures, p.eventId) = scope
           A     == RetrySet(points, failures, scope, hours)
           B     == RetrySet(more, failures, scope, hours)
<1>1. n \in Nat /\ DOMAIN points = 1 .. n /\ DOMAIN more = 1 .. n + 1
  BY AppendSequence
<1>2. (\A k \in 1 .. n : more[k] = points[k]) /\ more[n + 1] = p
  BY AppendSequence
<1> HIDE DEF more, n
<1>3. A \in SUBSET (1 .. n)
  BY <1>1 DEF RetrySet
<1>4. ASSUME NEW k PROVE k \in B <=> k \in A \/ (k = n + 1 /\ shows)
  <2>1. CASE k \in 1 .. n
    <3>1. k \in DOMAIN points /\ k \in DOMAIN more /\ more[k] = points[k] /\ k # n + 1
      BY <1>1, <1>2, <2>1
    <3> QED  BY <3>1 DEF RetrySet
  <2>2. CASE k = n + 1
    <3>1. k \in DOMAIN more /\ more[k] = p /\ k \notin A
      BY <1>1, <1>2, <1>3, <2>2
    <3> QED  BY <2>2, <3>1 DEF RetrySet
  <2>3. CASE k \notin 1 .. n /\ k # n + 1
    <3>1. k \notin DOMAIN more /\ k \notin A
      BY <1>1, <1>3, <2>3
    <3> QED  BY <2>3, <3>1 DEF RetrySet
  <2> QED  BY <2>1, <2>2, <2>3
<1> HIDE DEF A, B, shows
<1>5. shows => B = A \cup {n + 1}
  BY <1>4
<1>6. ~ shows => B = A
  BY <1>4
<1>7. Cardinality(A) \in Nat /\ Cardinality(A \cup {n + 1}) = Cardinality(A) + 1
  BY <1>1, <1>3, OneMore
<1>8. /\ Cardinality(A) \in Nat
      /\ shows => Cardinality(B) = Cardinality(A) + 1
      /\ ~ shows => Cardinality(B) = Cardinality(A)
  BY <1>5, <1>6, <1>7
<1> QED  BY <1>8 DEF RetriesIn, A, B, shows, more

LEMMA CountAfterGrows ==
  ASSUME NEW attempts, IsSequence(attempts), NEW e, NEW scope, NEW from
  PROVE  LET more   == Append(attempts, e)
             counts == e.scopeKey = scope /\ e.ts > from
         IN  /\ CountAfter(attempts, scope, from) \in Nat
             /\ counts => CountAfter(more, scope, from) = CountAfter(attempts, scope, from) + 1
             /\ ~ counts => CountAfter(more, scope, from) = CountAfter(attempts, scope, from)
<1> DEFINE more     == Append(attempts, e)
           n        == Len(attempts)
           counts   == e.scopeKey = scope /\ e.ts > from
           Of(h)    == {k \in DOMAIN h : h[k].scopeKey = scope /\ h[k].ts > from}
           A        == Of(attempts)
           B        == Of(more)
<1>1. n \in Nat /\ DOMAIN attempts = 1 .. n /\ DOMAIN more = 1 .. n + 1
  BY AppendSequence
<1>2. (\A k \in 1 .. n : more[k] = attempts[k]) /\ more[n + 1] = e
  BY AppendSequence
<1> HIDE DEF more, n
<1>3. A \in SUBSET (1 .. n)
  BY <1>1
<1>4. ASSUME NEW k PROVE k \in B <=> k \in A \/ (k = n + 1 /\ counts)
  <2>1. CASE k \in 1 .. n
    <3>1. k \in DOMAIN attempts /\ k \in DOMAIN more /\ more[k] = attempts[k] /\ k # n + 1
      BY <1>1, <1>2, <2>1
    <3> QED  BY <3>1
  <2>2. CASE k = n + 1
    <3>1. k \in DOMAIN more /\ more[k] = e /\ k \notin A
      BY <1>1, <1>2, <1>3, <2>2
    <3> QED  BY <2>2, <3>1
  <2>3. CASE k \notin 1 .. n /\ k # n + 1
    <3>1. k \notin DOMAIN more /\ k \notin A
      BY <1>1, <1>3, <2>3
    <3> QED  BY <2>3, <3>1
  <2> QED  BY <2>1, <2>2, <2>3
<1>5. /\ CountAfter(attempts, scope, from) = Cardinality(A)
      /\ CountAfter(more, scope, from) = Cardinality(B)
  BY DEF CountAfter
<1> HIDE DEF A, B, counts
<1>6. counts => B = A \cup {n + 1}
  BY <1>4
<1>7. ~ counts => B = A
  BY <1>4
<1>8. Cardinality(A) \in Nat /\ Cardinality(A \cup {n + 1}) = Cardinality(A) + 1
  BY <1>1, <1>3, OneMore
<1> QED  BY <1>5, <1>6, <1>7, <1>8 DEF counts, more

LEMMA CountWithinGrows ==
  ASSUME NEW attempts, IsSequence(attempts), NEW e, NEW scope, NEW from, NEW to
  PROVE  LET more   == Append(attempts, e)
             counts == e.scopeKey = scope /\ e.ts > from /\ e.ts <= to
         IN  /\ CountWithin(attempts, scope, from, to) \in Nat
             /\ counts => CountWithin(more, scope, from, to)
                            = CountWithin(attempts, scope, from, to) + 1
             /\ ~ counts => CountWithin(more, scope, from, to)
                              = CountWithin(attempts, scope, from, to)
<1> DEFINE more     == Append(attempts, e)
           n        == Len(attempts)
           counts   == e.scopeKey = scope /\ e.ts > from /\ e.ts <= to
           Of(h)    == {k \in DOMAIN h : h[k].scopeKey = scope /\ h[k].ts > from /\ h[k].ts <= to}
           A        == Of(attempts)
           B        == Of(more)
<1>1. n \in Nat /\ DOMAIN attempts = 1 .. n /\ DOMAIN more = 1 .. n + 1
  BY AppendSequence
<1>2. (\A k \in 1 .. n : more[k] = attempts[k]) /\ more[n + 1] = e
  BY AppendSequence
<1> HIDE DEF more, n
<1>3. A \in SUBSET (1 .. n)
  BY <1>1
<1>4. ASSUME NEW k PROVE k \in B <=> k \in A \/ (k = n + 1 /\ counts)
  <2>1. CASE k \in 1 .. n
    <3>1. k \in DOMAIN attempts /\ k \in DOMAIN more /\ more[k] = attempts[k] /\ k # n + 1
      BY <1>1, <1>2, <2>1
    <3> QED  BY <3>1
  <2>2. CASE k = n + 1
    <3>1. k \in DOMAIN more /\ more[k] = e /\ k \notin A
      BY <1>1, <1>2, <1>3, <2>2
    <3> QED  BY <2>2, <3>1
  <2>3. CASE k \notin 1 .. n /\ k # n + 1
    <3>1. k \notin DOMAIN more /\ k \notin A
      BY <1>1, <1>3, <2>3
    <3> QED  BY <2>3, <3>1
  <2> QED  BY <2>1, <2>2, <2>3
<1>5. /\ CountWithin(attempts, scope, from, to) = Cardinality(A)
      /\ CountWithin(more, scope, from, to) = Cardinality(B)
  BY DEF CountWithin
<1> HIDE DEF A, B, counts
<1>6. counts => B = A \cup {n + 1}
  BY <1>4
<1>7. ~ counts => B = A
  BY <1>4
<1>8. Cardinality(A) \in Nat /\ Cardinality(A \cup {n + 1}) = Cardinality(A) + 1
  BY <1>1, <1>3, OneMore
<1> QED  BY <1>5, <1>6, <1>7, <1>8 DEF counts, more

(***************************************************************************)
(* One more retry of g, which the guardrail let through, leaves every      *)
(* failure f within its caps.                                              *)
(***************************************************************************)
LEMMA RetryKeepsCaps ==
  ASSUME NEW failures \in Streams, NEW moment \in Int, NEW g \in ToSet(failures),
         NEW points, IsSequence(points), NEW p, p.action = "RETRY", p.eventId = g.eventId,
         NEW attempts, IsSequence(attempts), NEW e, e.scopeKey = g.scopeKey,
         e.ts = p.scheduledFor, NEW action,
         Allowed([scopeKey |-> g.scopeKey, network |-> g.network, triageAction |-> action,
                  now |-> moment], attempts),
         NEW f \in ToSet(failures), CountedIn(points, failures, attempts, moment, f),
         CapsIn(points, failures, moment, f)
  PROVE  /\ CountedIn(Append(points, p), failures, Append(attempts, e), moment, f)
         /\ CapsIn(Append(points, p), failures, moment, f)
<1> DEFINE from30 == moment - Window30d
           from24 == moment - Window24h
           to24   == moment + Window24h
           ever   == Ever(moment)
           around == Around(moment)
           scope  == f.scopeKey
           r30    == RetriesIn(points, failures, scope, ever)
           r30n   == RetriesIn(Append(points, p), failures, scope, ever)
           r24    == RetriesIn(points, failures, scope, around)
           r24n   == RetriesIn(Append(points, p), failures, scope, around)
           c30    == CountAfter(attempts, scope, from30)
           c30n   == CountAfter(Append(attempts, e), scope, from30)
           c24    == CountWithin(attempts, scope, from24, to24)
           c24n   == CountWithin(Append(attempts, e), scope, from24, to24)
           same   == g.scopeKey = scope
           ts     == p.scheduledFor
<1>1. ScopeIn(failures, p.eventId) = g.scopeKey
  <2> DEFINE h == CHOOSE h \in ToSet(failures) : h.eventId = p.eventId
  <2>1. h \in ToSet(failures) /\ h.eventId = g.eventId
    OBVIOUS
  <2>2. h.scopeKey = g.scopeKey
    BY <2>1, StreamAssumption
  <2> QED  BY <2>2 DEF ScopeIn
<1>2. /\ r30 \in Nat /\ r24 \in Nat
      /\ (ts \in ever /\ same => r30n = r30 + 1) /\ (~ (ts \in ever /\ same) => r30n = r30)
      /\ (ts \in around /\ same => r24n = r24 + 1) /\ (~ (ts \in around /\ same) => r24n = r24)
  BY <1>1, RetriesGrow
<1>3. /\ c30 \in Nat
      /\ (same /\ ts > from30 => c30n = c30 + 1)
      /\ (~ (same /\ ts > from30) => c30n = c30)
  BY CountAfterGrows
<1>4. /\ c24 \in Nat
      /\ (same /\ ts > from24 /\ ts <= to24 => c24n = c24 + 1)
      /\ (~ (same /\ ts > from24 /\ ts <= to24) => c24n = c24)
  BY CountWithinGrows
<1>5. Window30d \in Nat /\ Window24h \in Nat
  BY CapAssumption
<1>6. ts \in ever => ts > from30
  BY <1>5 DEF Ever
<1>7. ts \in around => ts > from24 /\ ts <= to24
  BY <1>5 DEF Around
<1>8. r30 <= c30 /\ r24 <= c24
  BY DEF CountedIn
<1>9. same => f.network = g.network
  BY StreamAssumption
<1>10. VisaMax30d \in Nat /\ McMax30d \in Nat /\ McMax24h \in Nat
  BY CapAssumption
<1>11. same => /\ f.network = "visa" => ~ (c30 >= VisaMax30d)
               /\ f.network = "mastercard" => ~ (c24 >= McMax24h)
               /\ f.network = "mastercard" => ~ (c30 >= McMax30d)
  BY <1>9 DEF Allowed, OverVisaCap, OverMc24hCap, OverMc30dCap
<1>12. /\ f.network = "visa" => r30 <= VisaMax30d
       /\ f.network = "mastercard" => r30 <= McMax30d
       /\ f.network = "mastercard" => r24 <= McMax24h
  BY DEF CapsIn
<1> HIDE DEF r30, r30n, r24, r24n, c30, c30n, c24, c24n, same, ts, ever, around, from30, from24,
             to24
<1>13. r30n <= c30n
  BY <1>2, <1>3, <1>6, <1>8
<1>14. r24n <= c24n
  BY <1>2, <1>4, <1>7, <1>8
<1>15. /\ f.network = "visa" => r30n <= VisaMax30d
       /\ f.network = "mastercard" => r30n <= McMax30d
       /\ f.network = "mastercard" => r24n <= McMax24h
  BY <1>2, <1>3, <1>4, <1>8, <1>10, <1>11, <1>12
<1>16. CountedIn(Append(points, p), failures, Append(attempts, e), moment, f)
  BY <1>13, <1>14 DEF CountedIn, r30n, r24n, c30n, c24n, ever, around, from30, from24, to24, scope
<1>17. CapsIn(Append(points, p), failures, moment, f)
  BY <1>15 DEF CapsIn, r30n, r24n, ever, around, scope
<1> QED  BY <1>16, <1>17

(* A point that is no retry counts nowhere.                                *)
LEMMA OtherPointKeepsCaps ==
  ASSUME NEW failures, NEW moment, NEW points, IsSequence(points), NEW p,
         p.action # "RETRY", NEW attempts, NEW f,
         CountedIn(points, failures, attempts, moment, f), CapsIn(points, failures, moment, f)
  PROVE  /\ CountedIn(Append(points, p), failures, attempts, moment, f)
         /\ CapsIn(Append(points, p), failures, moment, f)
<1>1. ASSUME NEW hours
      PROVE  RetriesIn(Append(points, p), failures, f.scopeKey, hours)
               = RetriesIn(points, failures, f.scopeKey, hours)
  BY RetriesGrow
<1>2. /\ RetriesIn(Append(points, p), failures, f.scopeKey, Ever(moment))
           = RetriesIn(points, failures, f.scopeKey, Ever(moment))
      /\ RetriesIn(Append(points, p), failures, f.scopeKey, Around(moment))
           = RetriesIn(points, failures, f.scopeKey, Around(moment))
  BY <1>1
<1> QED  BY <1>2 DEF CountedIn, CapsIn

LEMMA CapsInit == Init => CapsInv
<1> SUFFICES ASSUME Init PROVE CapsInv
  OBVIOUS
<1>1. policy = <<>> /\ history = <<>> /\ stage = "baseline"
  BY DEF Init, InitReplay
<1>2. ASSUME NEW scope, NEW hours PROVE RetriesIn(policy, stream, scope, hours) = 0
  <2>1. RetrySet(policy, stream, scope, hours) = {}
    BY <1>1, EmptyRun DEF RetrySet
  <2> QED  BY <2>1, FS_EmptySet DEF RetriesIn
<1>3. ASSUME NEW scope, NEW from PROVE CountAfter(history, scope, from) = 0
  <2>1. {k \in DOMAIN history : history[k].scopeKey = scope /\ history[k].ts > from} = {}
    BY <1>1, EmptyRun
  <2> QED  BY <2>1, FS_EmptySet DEF CountAfter
<1>4. ASSUME NEW scope, NEW from, NEW to PROVE CountWithin(history, scope, from, to) = 0
  <2>1. {k \in DOMAIN history : /\ history[k].scopeKey = scope
                                /\ history[k].ts > from /\ history[k].ts <= to} = {}
    BY <1>1, EmptyRun
  <2> QED  BY <2>1, FS_EmptySet DEF CountWithin
<1>5. ASSUME NEW f \in ToSet(stream)
      PROVE  CountedIn(policy, stream, history, now, f) /\ CapsIn(policy, stream, now, f)
  <2>1. CountedIn(policy, stream, history, now, f)
    BY <1>2, <1>3, <1>4 DEF CountedIn
  <2>2. CapsIn(policy, stream, now, f)
    BY <1>2, CapAssumption DEF CapsIn
  <2> QED  BY <2>1, <2>2
<1> QED  BY <1>1, <1>5 DEF CapsInv

LEMMA CapsInductive == RunInv /\ DisclosureInv /\ CapsInv /\ [Next]_vars => CapsInv'
<1> SUFFICES ASSUME RunInv, DisclosureInv, CapsInv, [Next]_vars PROVE CapsInv'
  OBVIOUS
<1>0. EngineOK /\ IsSequence(policy) /\ IsSequence(history)
  BY DEF RunInv, DisclosureInv
<1>1. /\ stream \in Streams /\ now \in Int
      /\ \A f \in ToSet(stream) : CountedIn(policy, stream, history, now, f)
                                  /\ CapsIn(policy, stream, now, f)
  BY <1>0, StreamAssumption DEF EngineOK, CapsInv
<1>2. stream' = stream /\ now' = now
  BY DEF Next, EngineStep, ReplayBaseline, AskScheduler, Settle, RecordRetry, AwaitedStep,
       OutsideStep, vars, engineVars, inputVars
<1>3. CASE RecordRetry
  <2>1. stage = "score"
    BY <1>3 DEF RecordRetry
  <2>2. Failure \in ToSet(stream) /\ MayRetry(Failure)
    BY <1>0, <2>1, FailureOfStream DEF CapsInv
  <2>3. policy' = Append(policy, Retried) /\ history' = Append(history, Remembered)
    BY <1>3, RecordRetryAppends
  <2>4. /\ Retried.action = "RETRY" /\ Retried.eventId = Failure.eventId
        /\ Remembered.scopeKey = Failure.scopeKey /\ Remembered.ts = Retried.scheduledFor
    BY DEF Retried, Remembered, Point
  <2>5. Allowed([scopeKey |-> Failure.scopeKey, network |-> Failure.network,
                 triageAction |-> TriageOf(Failure), now |-> now], history)
    BY <2>2 DEF MayRetry
  <2>6. \A f \in ToSet(stream) :
          /\ CountedIn(Append(policy, Retried), stream, Append(history, Remembered), now, f)
          /\ CapsIn(Append(policy, Retried), stream, now, f)
    BY <1>0, <1>1, <2>2, <2>4, <2>5, RetryKeepsCaps
  <2>7. stage' # "score"
    BY <1>3 DEF RecordRetry, NextFailure
  <2> QED  BY <1>2, <2>3, <2>6, <2>7 DEF CapsInv
<1>4. CASE Settle
  <2> DEFINE p == SettledPoint(Failure)
  <2>1. (policy' = policy \/ policy' = Append(policy, p)) /\ history' = history
    BY <1>4, SettleAppends
  <2>2. p.action # "RETRY"
    BY SettledIsNoRetry
  <2>3. stage' # "score"
    BY <1>4 DEF Settle, NextFailure
  <2> HIDE DEF p
  <2>4. \A f \in ToSet(stream) : /\ CountedIn(policy', stream, history, now, f)
                                 /\ CapsIn(policy', stream, now, f)
    <3>1. CASE policy' = policy
      BY <1>1, <3>1
    <3>2. CASE policy' = Append(policy, p)
      BY <1>0, <1>1, <2>2, <3>2, OtherPointKeepsCaps
    <3> QED  BY <2>1, <3>1, <3>2
  <2> QED  BY <1>2, <2>1, <2>3, <2>4 DEF CapsInv
<1>5. CASE AskScheduler
  <2>1. policy' = policy /\ history' = history /\ at' = at /\ MayRetry(Failure)
    BY <1>5 DEF AskScheduler
  <2>2. MayRetry(Failure)'
    BY <1>2, <2>1 DEF MayRetry, Failure
  <2> QED  BY <1>1, <1>2, <2>1, <2>2 DEF CapsInv
<1>6. CASE ReplayBaseline
  <2>1. policy' = policy /\ history' = history /\ stage' # "score"
    BY <1>6 DEF ReplayBaseline
  <2> QED  BY <1>1, <1>2, <2>1 DEF CapsInv
<1>7. CASE UNCHANGED engineVars
  <2>1. policy' = policy /\ history' = history /\ stage' = stage /\ at' = at
    BY <1>7 DEF engineVars, runVars
  <2>2. stage' = "score" => MayRetry(Failure)'
    BY <1>2, <2>1 DEF CapsInv, MayRetry, Failure
  <2> QED  BY <1>1, <1>2, <2>1, <2>2 DEF CapsInv
<1>8. UNCHANGED engineVars \/ EngineStep
  BY DEF Next, AwaitedStep, OutsideStep, vars
<1> QED  BY <1>3, <1>4, <1>5, <1>6, <1>7, <1>8 DEF EngineStep

(***************************************************************************)
(* The retries a run schedules for one scope stay within its network's     *)
(* caps, whatever the caps are and however the failures of different       *)
(* scopes follow each other (engine.ts:88, "caps bind within a replay").   *)
(***************************************************************************)
THEOREM CapsBind == Spec => []CapsBindWithinRun
<1>1. Spec => []CapsInv
  BY CapsInit, CapsInductive, RunInvariant, DisclosureInvariant, PTL DEF Spec
<1> QED  BY <1>1, CapsInvIsEnough, PTL

-----------------------------------------------------------------------------
(***************************************************************************)
(* What a run shows: points of the types TypeOK gives them, whose outcome  *)
(* is the draw of their event and attempt.                                 *)
(***************************************************************************)
DrawnFor(p) == IF p.action = "ASK_CUSTOMER" THEN 0 ELSE p.attempt

ShownOK(p, draws) ==
  /\ PointOK(p)
  /\ draws[p.eventId][DrawnFor(p)] \in 0 .. 999
  /\ p.recovered <=> draws[p.eventId][DrawnFor(p)] < p.pRecover

ShownInv ==
  /\ draw \in [EventIds -> DrawTables]
  /\ IsSequence(baseline)
  /\ \A k \in DOMAIN baseline : ShownOK(baseline[k], draw) /\ baseline[k].action = "RETRY"
  /\ \A k \in DOMAIN policy : ShownOK(policy[k], draw)

LEMMA FailureFields ==
  ASSUME stream \in Streams, NEW f \in ToSet(stream)
  PROVE  /\ f.eventId \in EventIds /\ f.ts \in Nat
         /\ f.attempt \in Nat \ {0} /\ f.amountMinor \in Nat
  BY StreamAssumption

LEMMA PointIsShown ==
  ASSUME stream \in Streams, draw \in [EventIds -> DrawTables], NEW f \in ToSet(stream),
         NEW attempt \in f.attempt .. f.attempt + 2, NEW action, NEW when \in Nat,
         NEW p \in 0 .. 1000, NEW version, action = "SUPPRESS" => p = 0
  PROVE  ShownOK(Point(f, attempt, action, when, p, version), draw)
<1> DEFINE drawn == IF action = "ASK_CUSTOMER" THEN 0 ELSE attempt
           point == Point(f, attempt, action, when, p, version)
<1>1. /\ f.eventId \in EventIds /\ f.attempt \in Nat \ {0} /\ f.amountMinor \in Nat
  BY FailureFields
<1>2. draw[f.eventId] \in DrawTables
  BY <1>1
<1>3. drawn \in {0} \cup f.attempt .. f.attempt + 2
  OBVIOUS
<1> HIDE DEF drawn
<1>4. draw[f.eventId][drawn] \in 0 .. 999
  <2>1. \A table \in DrawTables : \A n \in {0} \cup f.attempt .. f.attempt + 2 :
          table[n] \in 0 .. 999
    BY DrawAssumption
  <2> QED  BY <1>2, <1>3, <2>1
<1> USE DEF drawn
<1>5. /\ point.eventId = f.eventId /\ point.attempt = attempt /\ point.action = action
      /\ point.scheduledFor = when /\ point.pRecover = p /\ point.amount = f.amountMinor
      /\ point.recovered <=> draw[f.eventId][drawn] < p
  BY DEF Point, Recovered
<1> HIDE DEF point
<1>6. DrawnFor(point) = drawn
  BY <1>5 DEF DrawnFor
<1> HIDE DEF drawn
<1>7. attempt \in Nat \ {0}
  BY <1>1
<1>8. point.recovered => action # "SUPPRESS"
  <2> DEFINE d == draw[f.eventId][drawn]
  <2>1. d \in 0 .. 999
    BY <1>4
  <2> HIDE DEF d
  <2>2. ~ d < 0
    BY <2>1
  <2>3. point.recovered <=> d < p
    BY <1>5 DEF d
  <2> QED  BY <2>2, <2>3
<1>9. PointOK(point)
  BY <1>1, <1>5, <1>7, <1>8 DEF PointOK
<1>10. ShownOK(point, draw)
  BY <1>4, <1>5, <1>6, <1>9 DEF ShownOK
<1> QED  BY <1>10 DEF point

LEMMA CurveIsAProbability ==
  ASSUME NEW attempt \in Nat \ {0}
  PROVE  CurveP(attempt) \in 0 .. 1000
<1> DEFINE least == Min({attempt, 5})
<1>1. Len(PublishedCurve) = 5
  BY DEF PublishedCurve
<1>2. least \in 1 .. 5
  <2>1. CASE attempt <= 5
    <3>1. least = attempt
      BY <2>1 DEF Min
    <3> QED  BY <2>1, <3>1
  <2>2. CASE attempt > 5
    <3>1. least = 5
      BY <2>2 DEF Min
    <3> QED  BY <3>1
  <2> QED  BY <2>1, <2>2
<1> HIDE DEF least
<1>3. PublishedCurve[least] \in 0 .. 1000
  BY <1>2 DEF PublishedCurve
<1> QED  BY <1>1, <1>3 DEF CurveP, least

LEMMA BaselinePIsAProbability ==
  ASSUME NEW action, NEW attempt \in Nat \ {0}
  PROVE  BaselineP(action, attempt) \in 0 .. 1000
<1> DEFINE least == Min({attempt, 5})
<1>1. Len(HalvedCurve) = 5
  BY DEF HalvedCurve
<1>2. least \in 1 .. 5
  <2>1. CASE attempt <= 5
    <3>1. least = attempt
      BY <2>1 DEF Min
    <3> QED  BY <2>1, <3>1
  <2>2. CASE attempt > 5
    <3>1. least = 5
      BY <2>2 DEF Min
    <3> QED  BY <3>1
  <2> QED  BY <2>1, <2>2
<1> HIDE DEF least
<1>3. HalvedCurve[least] \in 0 .. 1000
  BY <1>2 DEF HalvedCurve
<1>4. HalvedCurve[Min({attempt, Len(HalvedCurve)})] \in 0 .. 1000
  BY <1>1, <1>3 DEF least
<1> QED  BY <1>4 DEF BaselineP

(* The baseline's points about one failure: up to the first that recovers. *)
LEMMA BaselineArmShape ==
  ASSUME stream \in Streams, draw \in [EventIds -> DrawTables], NEW f \in ToSet(stream)
  PROVE  \E last \in 1 .. 3 :
           /\ IsSequence(BaselineArm(f)) /\ Len(BaselineArm(f)) = last
           /\ DOMAIN BaselineArm(f) = 1 .. last
           /\ \A i \in 1 .. last :
                /\ ShownOK(BaselineArm(f)[i], draw)
                /\ BaselineArm(f)[i].action = "RETRY"
                /\ BaselineArm(f)[i].eventId = f.eventId
           /\ \A i \in 1 .. last : i < last => ~ BaselineArm(f)[i].recovered
<1> DEFINE recovering == {i \in DOMAIN BaselineOffsets : BaselinePoint(f, i).recovered}
           last       == Min(recovering \cup {Len(BaselineOffsets)})
<1>1. DOMAIN BaselineOffsets = 1 .. 3 /\ Len(BaselineOffsets) = 3
  BY DEF BaselineOffsets
<1>2. recovering \subseteq 1 .. 3
  BY <1>1
<1>3. \E x \in recovering \cup {3} : \A y \in recovering \cup {3} : x <= y
  BY <1>2, LeastNatural
<1>4. last \in recovering \cup {3} /\ \A y \in recovering \cup {3} : last <= y
  BY <1>1, <1>3, Zenon DEF Min
<1>5. last \in 1 .. 3
  BY <1>2, <1>4
<1>6. BaselineArm(f) = [i \in 1 .. last |-> BaselinePoint(f, i)]
  BY DEF BaselineArm
<1>7. \A i \in 1 .. last : i < last => i \notin recovering
  <2> SUFFICES ASSUME NEW i \in 1 .. last, i < last, i \in recovering PROVE FALSE
    OBVIOUS
  <2>1. last <= i
    BY <1>4
  <2> HIDE DEF last
  <2> QED  BY <1>5, <2>1
<1>8. \A i \in 1 .. last : i < last => ~ BaselinePoint(f, i).recovered
  BY <1>1, <1>5, <1>7
<1> HIDE DEF last, recovering
<1>9. /\ f.attempt \in Nat \ {0} /\ f.ts \in Nat
  BY FailureFields
<1>10. ASSUME NEW i \in 1 .. 3
       PROVE  /\ ShownOK(BaselinePoint(f, i), draw)
              /\ BaselinePoint(f, i).action = "RETRY"
              /\ BaselinePoint(f, i).eventId = f.eventId
  <2> DEFINE attempt == f.attempt + i - 1
             p       == BaselineP(TriageOf(f), attempt)
             when    == f.ts + BaselineOffsets[i]
  <2>1. attempt \in f.attempt .. f.attempt + 2 /\ attempt \in Nat \ {0}
    BY <1>9
  <2>2. BaselineOffsets[i] \in Nat
    BY DEF BaselineOffsets
  <2>3. when \in Nat
    BY <1>9, <2>2
  <2>4. p \in 0 .. 1000
    BY <2>1, BaselinePIsAProbability
  <2>5. BaselinePoint(f, i) =
          Point(f, attempt, "RETRY", when, p, "baseline-fixed-schedule-v1")
    BY DEF BaselinePoint
  <2> HIDE DEF attempt, p, when
  <2>6. "RETRY" = "SUPPRESS" => p = 0
    OBVIOUS
  <2>7. ShownOK(Point(f, attempt, "RETRY", when, p, "baseline-fixed-schedule-v1"), draw)
    BY <2>1, <2>3, <2>4, <2>6, PointIsShown
  <2> QED  BY <2>5, <2>7 DEF Point
<1>11. BaselineArm(f) \in Seq({BaselinePoint(f, i) : i \in 1 .. 3})
       /\ Len(BaselineArm(f)) = last
  <2>1. \A i \in 1 .. last : BaselinePoint(f, i) \in {BaselinePoint(f, j) : j \in 1 .. 3}
    BY <1>5
  <2>2. last \in Nat
    BY <1>5
  <2>3. DOMAIN BaselineArm(f) = 1 .. last
    BY <1>6
  <2> DEFINE S == {BaselinePoint(f, i) : i \in 1 .. 3}
  <2>5. BaselineArm(f) \in [1 .. last -> S]
    BY <1>6, <2>1
  <2> HIDE DEF S
  <2>4. BaselineArm(f) \in Seq(S)
    BY <2>2, <2>5, SeqDef
  <2>6. Len(BaselineArm(f)) = last
    BY <2>2, <2>3, <2>4, LenProperties
  <2> QED  BY <2>4, <2>6 DEF S
<1>12. /\ IsSequence(BaselineArm(f)) /\ DOMAIN BaselineArm(f) = 1 .. last
  BY <1>6, <1>11 DEF IsSequence
<1>13. \A i \in 1 .. last : BaselineArm(f)[i] = BaselinePoint(f, i) /\ i \in 1 .. 3
  BY <1>5, <1>6
<1> QED  BY <1>5, <1>8, <1>10, <1>11, <1>12, <1>13

LEMMA ConcatSequence ==
  ASSUME NEW s, IsSequence(s), NEW t, IsSequence(t)
  PROVE  /\ IsSequence(s \o t)
         /\ Len(s) \in Nat /\ DOMAIN s = 1 .. Len(s)
         /\ Len(t) \in Nat /\ DOMAIN t = 1 .. Len(t)
         /\ DOMAIN (s \o t) = 1 .. Len(s) + Len(t)
         /\ \A k \in 1 .. Len(s) : (s \o t)[k] = s[k]
         /\ \A k \in 1 .. Len(t) : (s \o t)[Len(s) + k] = t[k]
<1>1. PICK S : s \in Seq(S)
  BY DEF IsSequence
<1>2. PICK T : t \in Seq(T)
  BY DEF IsSequence
<1> DEFINE U == S \cup T
<1>3. s \in Seq(U) /\ t \in Seq(U)
  BY <1>1, <1>2, SeqMonotonic
<1> HIDE DEF U
<1>4. /\ s \o t \in Seq(U) /\ Len(s \o t) = Len(s) + Len(t)
      /\ \A i \in 1 .. Len(s) + Len(t) :
           (s \o t)[i] = IF i <= Len(s) THEN s[i] ELSE t[i - Len(s)]
  BY <1>3, ConcatProperties
<1>5. /\ Len(s) \in Nat /\ DOMAIN s = 1 .. Len(s)
      /\ Len(t) \in Nat /\ DOMAIN t = 1 .. Len(t)
      /\ DOMAIN (s \o t) = 1 .. Len(s \o t)
  BY <1>3, <1>4, LenProperties
<1>6. \A k \in 1 .. Len(s) : (s \o t)[k] = s[k]
  BY <1>4, <1>5
<1>7. ASSUME NEW k \in 1 .. Len(t) PROVE (s \o t)[Len(s) + k] = t[k]
  <2>1. Len(s) + k \in 1 .. Len(s) + Len(t) /\ ~ Len(s) + k <= Len(s)
        /\ (Len(s) + k) - Len(s) = k
    BY <1>5
  <2> QED  BY <1>4, <2>1
<1>8. IsSequence(s \o t)
  BY <1>4 DEF IsSequence
<1> QED  BY <1>4, <1>5, <1>6, <1>7, <1>8

LEMMA ScheduleTypes ==
  ASSUME SchedulerOK, schedule # NoSchedule
  PROVE  schedule.scheduledFor \in Nat /\ schedule.pRecover \in 0 .. 1000
<1>1. asked \in [ts : Nat, attempt : Nat \ {0}, family : DeclineFamily]
  BY SchedulerAssumption DEF SchedulerOK
<1>2. asked.ts \in Nat /\ asked.attempt \in Nat \ {0}
  BY <1>1
<1>3. CASE schedule \in ModelDecisions(asked)
  <2>1. PICK i \in Candidates : schedule.scheduledFor = asked.ts + CandidateOffsets[i]
    BY <1>3 DEF ModelDecisions
  <2>2. CandidateOffsets[i] \in Nat
    BY SchedulerAssumption DEF Candidates
  <2>3. schedule.pRecover \in 0 .. 1000
    BY <1>3 DEF ModelDecisions
  <2> QED  BY <1>2, <2>1, <2>2, <2>3
<1>4. CASE schedule = FallbackSchedule(asked)
  <2>1. CurveP(asked.attempt) \in 0 .. 1000
    BY <1>2, CurveIsAProbability
  <2>2. /\ schedule.scheduledFor = asked.ts + (IF asked.attempt <= 2 THEN 24 ELSE 72)
        /\ schedule.pRecover = CurveP(asked.attempt)
    BY <1>4 DEF FallbackSchedule
  <2> QED  BY <1>2, <2>1, <2>2
<1> QED  BY <1>3, <1>4 DEF SchedulerOK

LEMMA RetriedIsShown ==
  ASSUME RunInv, draw \in [EventIds -> DrawTables], RecordRetry
  PROVE  ShownOK(Retried, draw)
<1>0. stage = "score" /\ schedule # NoSchedule
  BY DEF RecordRetry
<1>1. Failure \in ToSet(stream) /\ stream \in Streams /\ followup \in BOOLEAN
  BY <1>0, FailureOfStream DEF RunInv, EngineOK
<1>2. Failure.attempt \in Nat \ {0}
  BY <1>1, FailureFields
<1>3. Attempt \in Failure.attempt .. Failure.attempt + 2
  BY <1>1, <1>2 DEF Attempt
<1>4. schedule.scheduledFor \in Nat /\ schedule.pRecover \in 0 .. 1000
  BY <1>0, ScheduleTypes DEF RunInv
<1>5. "RETRY" = "SUPPRESS" => schedule.pRecover = 0
  OBVIOUS
<1> QED  BY <1>1, <1>3, <1>4, <1>5, PointIsShown DEF Retried

LEMMA SettledIsShown ==
  ASSUME RunInv, draw \in [EventIds -> DrawTables], Settle
  PROVE  ShownOK(SettledPoint(Failure), draw)
<1>1. Failure \in ToSet(stream) /\ stream \in Streams /\ now \in Nat
  BY FailureOfStream, StreamAssumption DEF Settle, RunInv, EngineOK
<1>2. Failure.attempt \in Nat \ {0} /\ Failure.ts \in Nat
  BY <1>1, FailureFields
<1>3. Failure.attempt \in Failure.attempt .. Failure.attempt + 2
  BY <1>2
<1>4. ShownOK(Point(Failure, Failure.attempt, "ASK_CUSTOMER", now, 450, "triage-rules-v1"), draw)
  <2> DEFINE p == 450
  <2>1. p \in 0 .. 1000
    OBVIOUS
  <2>2. "ASK_CUSTOMER" = "SUPPRESS" => p = 0
    OBVIOUS
  <2> HIDE DEF p
  <2>3. ShownOK(Point(Failure, Failure.attempt, "ASK_CUSTOMER", now, p, "triage-rules-v1"), draw)
    BY <1>1, <1>3, <2>1, <2>2, PointIsShown
  <2> QED  BY <2>3 DEF p
<1>5. ShownOK(Point(Failure, Failure.attempt, "SUPPRESS", Failure.ts, 0, "triage-rules-v1"), draw)
  <2>1. 0 \in 0 .. 1000 /\ ("SUPPRESS" = "SUPPRESS" => 0 = 0)
    OBVIOUS
  <2> QED  BY <1>1, <1>2, <1>3, <2>1, PointIsShown
<1> QED  BY <1>4, <1>5 DEF SettledPoint

LEMMA AppendShown ==
  ASSUME NEW points, IsSequence(points), NEW p, NEW draws, ShownOK(p, draws),
         \A k \in DOMAIN points : ShownOK(points[k], draws)
  PROVE  \A k \in DOMAIN Append(points, p) : ShownOK(Append(points, p)[k], draws)
<1> DEFINE n == Len(points)
           more == Append(points, p)
<1>1. /\ n \in Nat /\ DOMAIN points = 1 .. n /\ DOMAIN more = 1 .. n + 1
      /\ \A k \in 1 .. n : more[k] = points[k]
      /\ more[n + 1] = p
  BY AppendSequence
<1> HIDE DEF n, more
<1>2. \A k \in DOMAIN more : k \in DOMAIN points \/ k = n + 1
  BY <1>1
<1>3. \A k \in DOMAIN more : ShownOK(more[k], draws)
  BY <1>1, <1>2
<1> QED  BY <1>3 DEF more

LEMMA ShownInductive == RunInv /\ DisclosureInv /\ ShownInv /\ [Next]_vars => ShownInv'
<1> SUFFICES ASSUME RunInv, DisclosureInv, ShownInv, [Next]_vars PROVE ShownInv'
  OBVIOUS
<1>0. /\ draw \in [EventIds -> DrawTables] /\ IsSequence(baseline) /\ IsSequence(policy)
      /\ \A k \in DOMAIN baseline : ShownOK(baseline[k], draw) /\ baseline[k].action = "RETRY"
      /\ \A k \in DOMAIN policy : ShownOK(policy[k], draw)
  BY DEF ShownInv, DisclosureInv
<1>1. draw' = draw
  BY DEF Next, EngineStep, ReplayBaseline, AskScheduler, Settle, RecordRetry, AwaitedStep,
       OutsideStep, vars, engineVars, inputVars
<1>2. CASE ReplayBaseline
  <2> DEFINE arm == BaselineArm(Failure)
             n   == Len(baseline)
  <2>1. Failure \in ToSet(stream) /\ stream \in Streams
    BY <1>2, FailureOfStream DEF ReplayBaseline, RunInv, EngineOK
  <2>2. baseline' = baseline \o arm /\ policy' = policy
    BY <1>2 DEF ReplayBaseline
  <2>3. PICK last \in 1 .. 3 :
          /\ IsSequence(arm) /\ Len(arm) = last
          /\ \A i \in 1 .. last : ShownOK(arm[i], draw) /\ arm[i].action = "RETRY"
    BY <1>0, <2>1, BaselineArmShape
  <2> HIDE DEF arm
  <2>4. IsSequence(baseline) /\ IsSequence(arm)
    BY <1>0, <2>3
  <2>5. /\ IsSequence(baseline \o arm)
        /\ Len(baseline) \in Nat /\ DOMAIN baseline = 1 .. Len(baseline)
        /\ DOMAIN (baseline \o arm) = 1 .. Len(baseline) + Len(arm)
    BY <2>4, ConcatSequence
  <2>6. \A k \in 1 .. Len(baseline) : (baseline \o arm)[k] = baseline[k]
    BY <2>4, ConcatSequence
  <2>7. \A k \in 1 .. Len(arm) : (baseline \o arm)[n + k] = arm[k]
    BY <2>4, ConcatSequence
  <2>8. /\ IsSequence(baseline') /\ n \in Nat /\ DOMAIN baseline = 1 .. n
        /\ DOMAIN baseline' = 1 .. n + last
        /\ \A k \in 1 .. n : baseline'[k] = baseline[k]
        /\ \A k \in 1 .. last : baseline'[n + k] = arm[k]
    BY <2>2, <2>3, <2>5, <2>6, <2>7
  <2> HIDE DEF n
  <2>9. ASSUME NEW k \in DOMAIN baseline'
        PROVE  ShownOK(baseline'[k], draw) /\ baseline'[k].action = "RETRY"
    <3>1. CASE k \in 1 .. n
      BY <1>0, <2>8, <3>1
    <3>2. CASE k \notin 1 .. n
      <4>1. k - n \in 1 .. last /\ n + (k - n) = k
        BY <2>8, <3>2
      <4>2. baseline'[k] = arm[k - n]
        BY <2>8, <4>1
      <4> QED  BY <2>3, <4>1, <4>2
    <3> QED  BY <3>1, <3>2
  <2> QED  BY <1>0, <1>1, <2>2, <2>8, <2>9 DEF ShownInv
<1>3. CASE RecordRetry
  <2>1. policy' = Append(policy, Retried) /\ baseline' = baseline
    BY <1>3, RecordRetryAppends DEF RecordRetry
  <2>2. ShownOK(Retried, draw)
    BY <1>0, <1>3, RetriedIsShown
  <2> QED  BY <1>0, <1>1, <2>1, <2>2, AppendShown DEF ShownInv
<1>4. CASE Settle
  <2>1. /\ policy' = policy \/ policy' = Append(policy, SettledPoint(Failure))
        /\ baseline' = baseline
    BY <1>4, SettleAppends DEF Settle
  <2>2. ShownOK(SettledPoint(Failure), draw)
    BY <1>0, <1>4, SettledIsShown
  <2>3. \A k \in DOMAIN policy' : ShownOK(policy'[k], draw)
    BY <1>0, <2>1, <2>2, AppendShown
  <2> QED  BY <1>0, <1>1, <2>1, <2>3 DEF ShownInv
<1>5. CASE UNCHANGED <<baseline, policy>>
  BY <1>0, <1>1, <1>5 DEF ShownInv
<1>6. ReplayBaseline \/ RecordRetry \/ Settle \/ UNCHANGED <<baseline, policy>>
  BY DEF Next, EngineStep, AskScheduler, AwaitedStep, OutsideStep, vars, engineVars, runVars
<1> QED  BY <1>2, <1>3, <1>4, <1>5, <1>6

LEMMA ShownInvariant == Spec => []ShownInv
<1>1. Init => ShownInv
  <2> SUFFICES ASSUME Init PROVE ShownInv
    OBVIOUS
  <2>1. draw \in [EventIds -> DrawTables] /\ baseline = <<>> /\ policy = <<>>
    BY DEF Init, InitReplay
  <2> QED  BY <2>1, EmptyRun DEF ShownInv
<1> QED  BY <1>1, ShownInductive, RunInvariant, DisclosureInvariant, PTL DEF Spec

(***************************************************************************)
(* Both arms have the same luck: an attempt that recovers at the odds of   *)
(* the baseline recovers at any better odds in the policy arm, whatever    *)
(* either arm did before it (engine.ts:19-21).                             *)
(***************************************************************************)
THEOREM ArmsShareLuck == Spec => []LuckIsShared
<1>1. ShownInv => LuckIsShared
  <2> SUFFICES ASSUME ShownInv, NEW b \in ToSet(baseline), NEW q \in ToSet(policy),
                      b.eventId = q.eventId, b.attempt = q.attempt, q.action = "RETRY",
                      q.pRecover >= b.pRecover, b.recovered
               PROVE  q.recovered
    BY DEF LuckIsShared
  <2>1. ShownOK(b, draw) /\ b.action = "RETRY"
    BY DEF ShownInv, ToSet
  <2>2. ShownOK(q, draw)
    BY DEF ShownInv, ToSet
  <2> DEFINE d == draw[b.eventId][b.attempt]
             pb == b.pRecover
             pq == q.pRecover
  <2>3. d \in 0 .. 999 /\ d < pb /\ pb \in 0 .. 1000
    BY <2>1 DEF ShownOK, PointOK, DrawnFor
  <2>4. (q.recovered <=> d < pq) /\ pq \in 0 .. 1000 /\ pq >= pb
    BY <2>2 DEF ShownOK, PointOK, DrawnFor
  <2> HIDE DEF d, pb, pq
  <2>5. d < pq
    BY <2>3, <2>4
  <2> QED  BY <2>4, <2>5
<1> QED  BY <1>1, ShownInvariant, PTL

-----------------------------------------------------------------------------
(***************************************************************************)
(* The course of a run: whose points each arm holds, and how many.  An     *)
(* event stands once in a stream (replay-event.ts:17, "Dedupable id").     *)
(***************************************************************************)
DistinctEvents ==
  \A s \in Streams : \A j, k \in DOMAIN s : s[j].eventId = s[k].eventId => j = k

EventsUpTo(failures, n) == {failures[j].eventId : j \in 1 .. n}

(* The failures whose baseline arm has been replayed.                      *)
Replayed == IF stage \in {"baseline", "done"} THEN at - 1 ELSE at

RecoversLast(points) ==
  \A j, k \in DOMAIN points :
    j < k /\ points[j].eventId = points[k].eventId => ~ points[j].recovered

OnlyOf(points, events) == \A k \in DOMAIN points : points[k].eventId \in events

ArmHolds(points, failures, n, most) ==
  /\ RecoversLast(points)
  /\ \A j \in 1 .. n : PointsOf(points, failures[j].eventId) \in 1 .. most

FollowsUp(points, e) ==
  /\ PointsOf(points, e) = 1
  /\ \A k \in DOMAIN points : points[k].eventId = e => ~ points[k].recovered

CourseInv ==
  /\ at \in 1 .. Len(stream) + 1 /\ (stage = "done" <=> at = Len(stream) + 1)
  /\ followup => stage \in {"decide", "score"}
  /\ ArmHolds(baseline, stream, Replayed, 3)
  /\ OnlyOf(baseline, EventsUpTo(stream, Replayed))
  /\ ArmHolds(policy, stream, at - 1, 2)
  /\ OnlyOf(policy, EventsUpTo(stream, IF followup THEN at ELSE at - 1))
  /\ followup => FollowsUp(policy, Failure.eventId)

(* An arm grows by m points about one event.                               *)
Grown(points, more, m, e) ==
  /\ Len(points) \in Nat /\ m \in Nat
  /\ DOMAIN points = 1 .. Len(points) /\ DOMAIN more = 1 .. Len(points) + m
  /\ \A k \in 1 .. Len(points) : more[k] = points[k]
  /\ \A k \in 1 .. m : more[Len(points) + k].eventId = e

LEMMA PointsGrow ==
  ASSUME NEW points, NEW more, NEW m, NEW e, Grown(points, more, m, e)
  PROVE  /\ \A x : x # e => PointsOf(more, x) = PointsOf(points, x)
         /\ PointsOf(points, e) \in Nat
         /\ PointsOf(more, e) = PointsOf(points, e) + m
<1> DEFINE n == Len(points)
           About(s, x) == {k \in DOMAIN s : s[k].eventId = x}
<1>1. /\ n \in Nat /\ m \in Nat /\ DOMAIN points = 1 .. n /\ DOMAIN more = 1 .. n + m
      /\ \A k \in 1 .. n : more[k] = points[k]
      /\ \A k \in 1 .. m : more[n + k].eventId = e
  BY DEF Grown
<1> HIDE DEF n
<1>2. ASSUME NEW k \in 1 .. n + m, k \notin 1 .. n PROVE more[k].eventId = e
  <2>1. k - n \in 1 .. m /\ n + (k - n) = k
    BY <1>1, <1>2
  <2> QED  BY <1>1, <2>1
<1>3. ASSUME NEW x, x # e PROVE About(more, x) = About(points, x)
  <2>1. \A k \in 1 .. n + m : k \notin 1 .. n => more[k].eventId # x
    BY <1>2, <1>3
  <2>2. \A k \in 1 .. n : k \in 1 .. n + m
    BY <1>1
  <2> QED  BY <1>1, <2>1, <2>2
<1>4. About(more, e) = About(points, e) \cup (n + 1 .. n + m)
  <2>1. \A k \in 1 .. n + m : k \in 1 .. n \/ k \in n + 1 .. n + m
    BY <1>1
  <2>2. \A k \in n + 1 .. n + m : k \in 1 .. n + m /\ k \notin 1 .. n
    BY <1>1
  <2>3. \A k \in 1 .. n : k \in 1 .. n + m
    BY <1>1
  <2> QED  BY <1>1, <1>2, <2>1, <2>2, <2>3
<1>5. IsFiniteSet(About(points, e)) /\ About(points, e) \subseteq 1 .. n
  <2>1. IsFiniteSet(1 .. n)
    BY <1>1, FS_Interval
  <2>2. About(points, e) \subseteq 1 .. n
    BY <1>1
  <2> QED  BY <2>1, <2>2, FS_Subset
<1>6. IsFiniteSet(n + 1 .. n + m) /\ Cardinality(n + 1 .. n + m) = m
  <2>1. n + 1 \in Int /\ n + m \in Int
    BY <1>1
  <2>2. Cardinality(n + 1 .. n + m) = IF n + 1 > n + m THEN 0 ELSE (n + m) - (n + 1) + 1
    BY <2>1, FS_Interval
  <2>3. IsFiniteSet(n + 1 .. n + m)
    BY <2>1, FS_Interval
  <2> QED  BY <1>1, <2>2, <2>3
<1>7. About(points, e) \cap (n + 1 .. n + m) = {}
  BY <1>1, <1>5
<1> DEFINE A == About(points, e)
           B == n + 1 .. n + m
<1>8. A \cap B = {} /\ IsFiniteSet(A) /\ IsFiniteSet(B) /\ Cardinality(B) = m
  BY <1>5, <1>6, <1>7
<1>9. PointsOf(points, e) = Cardinality(A) /\ PointsOf(more, e) = Cardinality(A \cup B)
  BY <1>4 DEF PointsOf
<1> HIDE DEF A, B
<1>10. /\ Cardinality(A \cap B) = 0 /\ Cardinality(A) \in Nat
       /\ Cardinality(A \cup B) = Cardinality(A) + Cardinality(B) - Cardinality(A \cap B)
  BY <1>8, FS_Union, FS_EmptySet, FS_CardinalityType
<1>11. \A x : x # e => PointsOf(more, x) = PointsOf(points, x)
  BY <1>3 DEF PointsOf
<1> QED  BY <1>1, <1>8, <1>9, <1>10, <1>11

(* Until an arm recovers about an event, it may go on about it.            *)
LEMMA RecoversLastGrows ==
  ASSUME NEW points, NEW more, NEW m, NEW e, Grown(points, more, m, e),
         RecoversLast(points),
         \A k \in DOMAIN points : points[k].eventId = e => ~ points[k].recovered,
         \A i \in 1 .. m : i < m => ~ more[Len(points) + i].recovered
  PROVE  RecoversLast(more)
<1> DEFINE n == Len(points)
<1>1. /\ n \in Nat /\ m \in Nat /\ DOMAIN points = 1 .. n /\ DOMAIN more = 1 .. n + m
      /\ \A k \in 1 .. n : more[k] = points[k]
      /\ \A k \in 1 .. m : more[n + k].eventId = e
      /\ \A i \in 1 .. m : i < m => ~ more[n + i].recovered
  BY DEF Grown
<1> HIDE DEF n
<1> SUFFICES ASSUME NEW j \in 1 .. n + m, NEW k \in 1 .. n + m, j < k,
                    more[j].eventId = more[k].eventId
             PROVE  ~ more[j].recovered
  BY <1>1 DEF RecoversLast
<1>2. CASE k \in 1 .. n
  <2>1. j \in 1 .. n
    BY <1>1, <1>2
  <2> QED  BY <1>1, <1>2, <2>1 DEF RecoversLast
<1>3. CASE k \notin 1 .. n /\ j \in 1 .. n
  <2>1. k - n \in 1 .. m /\ n + (k - n) = k
    BY <1>1, <1>3
  <2>2. more[k].eventId = e
    BY <1>1, <2>1
  <2> QED  BY <1>1, <1>3, <2>2
<1>4. CASE j \notin 1 .. n
  <2>1. j - n \in 1 .. m /\ n + (j - n) = j /\ j - n < m
    BY <1>1, <1>4
  <2> QED  BY <1>1, <2>1
<1> QED  BY <1>2, <1>3, <1>4

LEMMA OnlyOfGrows ==
  ASSUME NEW points, NEW more, NEW m, NEW e, Grown(points, more, m, e),
         NEW events, OnlyOf(points, events)
  PROVE  OnlyOf(more, events \cup {e})
<1> DEFINE n == Len(points)
<1>1. /\ n \in Nat /\ m \in Nat /\ DOMAIN points = 1 .. n /\ DOMAIN more = 1 .. n + m
      /\ \A k \in 1 .. n : more[k] = points[k]
      /\ \A k \in 1 .. m : more[n + k].eventId = e
  BY DEF Grown
<1> HIDE DEF n
<1>2. ASSUME NEW k \in 1 .. n + m, k \notin 1 .. n PROVE more[k].eventId = e
  <2>1. k - n \in 1 .. m /\ n + (k - n) = k
    BY <1>1, <1>2
  <2> QED  BY <1>1, <2>1
<1> QED  BY <1>1, <1>2 DEF OnlyOf

LEMMA AppendGrows ==
  ASSUME NEW points, IsSequence(points), NEW p
  PROVE  Grown(points, Append(points, p), 1, p.eventId)
<1> DEFINE n == Len(points)
           more == Append(points, p)
<1>1. /\ n \in Nat /\ DOMAIN points = 1 .. n /\ DOMAIN more = 1 .. n + 1
      /\ \A k \in 1 .. n : more[k] = points[k]
      /\ more[n + 1] = p
  BY AppendSequence
<1> HIDE DEF n, more
<1>2. \A k \in 1 .. 1 : more[n + k].eventId = p.eventId
  BY <1>1
<1> QED  BY <1>1, <1>2 DEF Grown, n, more

LEMMA OtherEvents ==
  ASSUME DistinctEvents, NEW failures \in Streams, NEW n \in 1 .. Len(failures)
  PROVE  /\ \A j \in 1 .. n - 1 : failures[j].eventId # failures[n].eventId
         /\ EventsUpTo(failures, n) = EventsUpTo(failures, n - 1) \cup {failures[n].eventId}
<1>1. DOMAIN failures = 1 .. Len(failures) /\ Len(failures) \in Nat
  BY StreamAssumption
<1>2. \A j \in 1 .. n - 1 : j \in DOMAIN failures /\ n \in DOMAIN failures /\ j # n
  BY <1>1
<1>3. \A j \in 1 .. n - 1 : failures[j].eventId # failures[n].eventId
  BY <1>2 DEF DistinctEvents
<1>4. \A j \in 1 .. n : j \in 1 .. n - 1 \/ j = n
  BY <1>1
<1>5. (\A j \in 1 .. n - 1 : j \in 1 .. n) /\ n \in 1 .. n
  BY <1>1
<1> QED  BY <1>3, <1>4, <1>5 DEF EventsUpTo

LEMMA NoneYet ==
  ASSUME DistinctEvents, NEW failures \in Streams, NEW n \in 1 .. Len(failures),
         NEW points, OnlyOf(points, EventsUpTo(failures, n - 1))
  PROVE  /\ \A k \in DOMAIN points : points[k].eventId # failures[n].eventId
         /\ PointsOf(points, failures[n].eventId) = 0
<1>1. failures[n].eventId \notin EventsUpTo(failures, n - 1)
  BY OtherEvents DEF EventsUpTo
<1>2. \A k \in DOMAIN points : points[k].eventId # failures[n].eventId
  BY <1>1 DEF OnlyOf
<1>3. {k \in DOMAIN points : points[k].eventId = failures[n].eventId} = {}
  BY <1>2
<1> QED  BY <1>2, <1>3, FS_EmptySet DEF PointsOf

LEMMA ArmGrows ==
  ASSUME DistinctEvents, NEW failures \in Streams, NEW n \in 1 .. Len(failures),
         NEW points, NEW more, NEW m, Grown(points, more, m, failures[n].eventId),
         NEW most, ArmHolds(points, failures, n - 1, most),
         \A k \in DOMAIN points :
           points[k].eventId = failures[n].eventId => ~ points[k].recovered,
         \A i \in 1 .. m : i < m => ~ more[Len(points) + i].recovered,
         PointsOf(points, failures[n].eventId) + m \in 1 .. most
  PROVE  ArmHolds(more, failures, n, most)
<1> DEFINE e == failures[n].eventId
<1>1. RecoversLast(more)
  BY RecoversLastGrows DEF ArmHolds
<1>2. PointsOf(more, e) \in 1 .. most
  BY PointsGrow
<1>3. ASSUME NEW j \in 1 .. n - 1 PROVE PointsOf(more, failures[j].eventId) \in 1 .. most
  <2>1. failures[j].eventId # e
    BY OtherEvents
  <2>2. PointsOf(more, failures[j].eventId) = PointsOf(points, failures[j].eventId)
    BY <2>1, PointsGrow
  <2> QED  BY <2>2 DEF ArmHolds
<1>4. \A j \in 1 .. n : j \in 1 .. n - 1 \/ j = n
  BY StreamAssumption
<1> QED  BY <1>1, <1>2, <1>3, <1>4 DEF ArmHolds

(* NextFailure, once the arms hold what they should about this failure.    *)
LEMMA NextFailureKeepsCourse ==
  ASSUME EngineOK, CourseInv, stage \in {"decide", "score"}, NextFailure,
         stream' = stream, baseline' = baseline,
         ArmHolds(policy', stream, at, 2), OnlyOf(policy', EventsUpTo(stream, at))
  PROVE  CourseInv'
<1>1. Len(stream) \in Nat /\ at \in Nat \ {0} /\ at <= Len(stream)
  BY StreamAssumption DEF EngineOK
<1>2. /\ at' = at + 1 /\ followup' = FALSE
      /\ stage' = IF at = Len(stream) THEN "done" ELSE "baseline"
  BY DEF NextFailure
<1>3. at' \in 1 .. Len(stream) + 1 /\ (stage' = "done" <=> at' = Len(stream) + 1)
  BY <1>1, <1>2
<1>4. Replayed' = at /\ Replayed = at /\ at' - 1 = at
  <2>1. stage' \in {"baseline", "done"} /\ ~ stage \in {"baseline", "done"}
    BY <1>2
  <2>2. Replayed' = at' - 1 /\ Replayed = at
    BY <2>1 DEF Replayed
  <2> QED  BY <1>1, <1>2, <2>2
<1> QED  BY <1>2, <1>3, <1>4 DEF CourseInv

LEMMA BaselineKeepsCourse ==
  ASSUME DistinctEvents, RunInv, DisclosureInv, ShownInv, CourseInv, ReplayBaseline
  PROVE  CourseInv'
<1> DEFINE arm == BaselineArm(Failure)
           e   == Failure.eventId
<1>1. /\ stage = "baseline" /\ stage' = "decide" /\ baseline' = baseline \o arm
      /\ UNCHANGED <<stream, at, followup, policy>>
  BY DEF ReplayBaseline, inputVars
<1>2. EngineOK /\ Failure \in ToSet(stream) /\ stream \in Streams
  BY <1>1, FailureOfStream DEF RunInv, EngineOK
<1>3. at \in 1 .. Len(stream) /\ Len(stream) \in Nat
  BY <1>1, <1>2, StreamAssumption DEF EngineOK
<1>4. IsSequence(baseline) /\ draw \in [EventIds -> DrawTables]
  BY DEF ShownInv
<1>5. PICK last \in 1 .. 3 :
        /\ IsSequence(arm) /\ Len(arm) = last
        /\ \A i \in 1 .. last : arm[i].eventId = e
        /\ \A i \in 1 .. last : i < last => ~ arm[i].recovered
  BY <1>2, <1>4, BaselineArmShape
<1> HIDE DEF arm
<1>6. IsSequence(baseline) /\ IsSequence(arm)
  BY <1>4, <1>5
<1>7. /\ Len(baseline) \in Nat /\ DOMAIN baseline = 1 .. Len(baseline)
      /\ DOMAIN (baseline \o arm) = 1 .. Len(baseline) + Len(arm)
  BY <1>6, ConcatSequence
<1>8. \A k \in 1 .. Len(baseline) : (baseline \o arm)[k] = baseline[k]
  BY <1>6, ConcatSequence
<1>9. \A k \in 1 .. Len(arm) : (baseline \o arm)[Len(baseline) + k] = arm[k]
  BY <1>6, ConcatSequence
<1>10. Grown(baseline, baseline', last, e)
  BY <1>1, <1>5, <1>7, <1>8, <1>9 DEF Grown
<1>11. \A i \in 1 .. last : i < last => ~ baseline'[Len(baseline) + i].recovered
  BY <1>1, <1>5, <1>9
<1>12. Replayed = at - 1 /\ Replayed' = at
  <2>1. ~ stage' \in {"baseline", "done"}
    BY <1>1
  <2> QED  BY <1>1, <2>1 DEF Replayed
<1>13. ArmHolds(baseline, stream, at - 1, 3) /\ OnlyOf(baseline, EventsUpTo(stream, at - 1))
  BY <1>12 DEF CourseInv
<1>14. /\ \A k \in DOMAIN baseline : baseline[k].eventId # e
       /\ PointsOf(baseline, e) = 0
  BY <1>2, <1>3, <1>13, NoneYet DEF Failure
<1>15. PointsOf(baseline, e) + last \in 1 .. 3
  BY <1>14
<1>16. ArmHolds(baseline', stream, at, 3)
  BY <1>2, <1>3, <1>10, <1>11, <1>13, <1>14, <1>15, ArmGrows DEF Failure
<1>17. OnlyOf(baseline', EventsUpTo(stream, at))
  <2>1. OnlyOf(baseline', EventsUpTo(stream, at - 1) \cup {e})
    BY <1>10, <1>13, OnlyOfGrows
  <2>2. EventsUpTo(stream, at) = EventsUpTo(stream, at - 1) \cup {e}
    BY <1>2, <1>3, OtherEvents DEF Failure
  <2> QED  BY <2>1, <2>2
<1>18. followup = FALSE
  BY <1>1 DEF CourseInv, RunInv, EngineOK
<1>19. at \in 1 .. Len(stream) + 1 /\ at # Len(stream) + 1
  BY <1>3
<1> QED  BY <1>1, <1>12, <1>16, <1>17, <1>18, <1>19 DEF CourseInv

(* One more point of the policy: the first about an event, or its second.  *)
LEMMA PolicyGrows ==
  ASSUME DistinctEvents, EngineOK, stage # "done", IsSequence(policy), CourseInv,
         NEW p, p.eventId = Failure.eventId
  PROVE  /\ ArmHolds(Append(policy, p), stream, at, 2)
         /\ OnlyOf(Append(policy, p), EventsUpTo(stream, at))
         /\ ~ followup /\ ~ p.recovered => FollowsUp(Append(policy, p), Failure.eventId)
<1> DEFINE e    == Failure.eventId
           more == Append(policy, p)
<1>1. at \in 1 .. Len(stream) /\ Len(stream) \in Nat /\ stream \in Streams
  BY StreamAssumption DEF EngineOK
<1>2. Grown(policy, more, 1, e)
  BY AppendGrows
<1> HIDE DEF more
<1>3. \A i \in 1 .. 1 : i < 1 => ~ more[Len(policy) + i].recovered
  OBVIOUS
<1>4. EventsUpTo(stream, at) = EventsUpTo(stream, at - 1) \cup {e}
  BY <1>1, OtherEvents DEF Failure
<1>5. ~ followup => /\ \A k \in DOMAIN policy : policy[k].eventId # e
                    /\ PointsOf(policy, e) = 0
  BY <1>1, NoneYet DEF CourseInv, Failure
<1>6. followup => /\ \A k \in DOMAIN policy : policy[k].eventId = e => ~ policy[k].recovered
                  /\ PointsOf(policy, e) = 1
  BY DEF CourseInv, FollowsUp
<1>7. \A k \in DOMAIN policy : policy[k].eventId = e => ~ policy[k].recovered
  BY <1>5, <1>6
<1>8. PointsOf(policy, e) + 1 \in 1 .. 2
  BY <1>5, <1>6
<1>9. ArmHolds(policy, stream, at - 1, 2)
  BY DEF CourseInv
<1>10. ArmHolds(more, stream, at, 2)
  BY <1>1, <1>2, <1>3, <1>7, <1>8, <1>9, ArmGrows DEF Failure
<1>11. OnlyOf(policy, EventsUpTo(stream, at))
  BY <1>4 DEF CourseInv, OnlyOf
<1>12. OnlyOf(more, EventsUpTo(stream, at))
  <2>1. OnlyOf(more, EventsUpTo(stream, at) \cup {e})
    BY <1>2, <1>11, OnlyOfGrows
  <2>2. EventsUpTo(stream, at) \cup {e} = EventsUpTo(stream, at)
    BY <1>4
  <2> QED  BY <2>1, <2>2
<1>13. ASSUME ~ followup, ~ p.recovered PROVE FollowsUp(more, e)
  <2>1. PointsOf(more, e) = 1
    BY <1>2, <1>5, <1>13, PointsGrow
  <2>2. /\ DOMAIN more = 1 .. Len(policy) + 1 /\ DOMAIN policy = 1 .. Len(policy)
        /\ Len(policy) \in Nat /\ more[Len(policy) + 1] = p
        /\ \A k \in 1 .. Len(policy) : more[k] = policy[k]
    BY AppendSequence DEF more
  <2>3. \A k \in DOMAIN more : more[k].eventId = e => ~ more[k].recovered
    <3>1. \A k \in DOMAIN more : k \in DOMAIN policy \/ k = Len(policy) + 1
      BY <2>2
    <3> QED  BY <1>7, <1>13, <2>2, <3>1
  <2> QED  BY <2>1, <2>3 DEF FollowsUp
<1> QED  BY <1>10, <1>12, <1>13 DEF more

LEMMA SettleKeepsCourse ==
  ASSUME DistinctEvents, RunInv, DisclosureInv, CourseInv, Settle
  PROVE  CourseInv'
<1>1. /\ stage = "decide" /\ NextFailure /\ stream' = stream /\ baseline' = baseline
      /\ policy' = IF followup THEN policy ELSE Append(policy, SettledPoint(Failure))
  BY DEF Settle, inputVars
<1>2. EngineOK /\ IsSequence(policy)
  BY DEF RunInv, DisclosureInv
<1>3. CASE followup
  <2>1. at \in 1 .. Len(stream) /\ Len(stream) \in Nat
    BY <1>1, <1>2, StreamAssumption DEF EngineOK
  <2>2. \A j \in 1 .. at : j \in 1 .. at - 1 \/ j = at
    BY <2>1
  <2>3. PointsOf(policy, stream[at].eventId) = 1 /\ 1 \in 1 .. 2
    BY <1>3 DEF CourseInv, FollowsUp, Failure
  <2>4. ArmHolds(policy, stream, at, 2)
    BY <2>2, <2>3 DEF CourseInv, ArmHolds
  <2>5. OnlyOf(policy, EventsUpTo(stream, at))
    BY <1>3 DEF CourseInv
  <2> QED  BY <1>1, <1>2, <1>3, <2>4, <2>5, NextFailureKeepsCourse
<1>4. CASE ~ followup
  <2>1. SettledPoint(Failure).eventId = Failure.eventId
    BY DEF SettledPoint, Point
  <2>2. /\ ArmHolds(policy', stream, at, 2) /\ OnlyOf(policy', EventsUpTo(stream, at))
    BY <1>1, <1>2, <1>4, <2>1, PolicyGrows
  <2> QED  BY <1>1, <1>2, <2>2, NextFailureKeepsCourse
<1> QED  BY <1>3, <1>4

LEMMA RecordRetryKeepsCourse ==
  ASSUME DistinctEvents, RunInv, DisclosureInv, CourseInv, RecordRetry
  PROVE  CourseInv'
<1>1. /\ stage = "score" /\ stream' = stream /\ baseline' = baseline
      /\ policy' = Append(policy, Retried)
      /\ IF Retried.recovered \/ followup THEN NextFailure
         ELSE stage' = "decide" /\ followup' = TRUE /\ UNCHANGED at
  BY DEF RecordRetry, inputVars, Retried
<1>2. EngineOK /\ IsSequence(policy)
  BY DEF RunInv, DisclosureInv
<1>3. Retried.eventId = Failure.eventId
  BY DEF Retried, Point
<1>4. /\ ArmHolds(policy', stream, at, 2) /\ OnlyOf(policy', EventsUpTo(stream, at))
      /\ ~ followup /\ ~ Retried.recovered => FollowsUp(policy', Failure.eventId)
  BY <1>1, <1>2, <1>3, PolicyGrows
<1>5. CASE Retried.recovered \/ followup
  BY <1>1, <1>2, <1>4, <1>5, NextFailureKeepsCourse
<1>6. CASE ~ (Retried.recovered \/ followup)
  <2>1. stage' = "decide" /\ followup' = TRUE /\ at' = at
    BY <1>1, <1>6
  <2>2. Replayed = at /\ Replayed' = at
    BY <1>1, <2>1 DEF Replayed
  <2>3. Failure' = Failure
    BY <1>1, <2>1 DEF Failure
  <2>4. at \in 1 .. Len(stream) /\ Len(stream) \in Nat
    BY <1>1, <1>2, StreamAssumption DEF EngineOK
  <2>5. at' \in 1 .. Len(stream') + 1 /\ (stage' = "done" <=> at' = Len(stream') + 1)
    BY <1>1, <2>1, <2>4
  <2>6. ArmHolds(policy', stream, at - 1, 2)
    <3>1. \A j \in 1 .. at - 1 : j \in 1 .. at
      BY <2>4
    <3> QED  BY <1>4, <3>1 DEF ArmHolds
  <2>7. ArmHolds(baseline', stream', Replayed', 3)
        /\ OnlyOf(baseline', EventsUpTo(stream', Replayed'))
    BY <1>1, <2>2 DEF CourseInv
  <2> QED  BY <1>1, <1>4, <1>6, <2>1, <2>3, <2>5, <2>6, <2>7 DEF CourseInv
<1> QED  BY <1>5, <1>6

LEMMA CourseInductive ==
  ASSUME DistinctEvents
  PROVE  RunInv /\ DisclosureInv /\ ShownInv /\ CourseInv /\ [Next]_vars => CourseInv'
<1> SUFFICES ASSUME RunInv, DisclosureInv, ShownInv, CourseInv, [Next]_vars PROVE CourseInv'
  OBVIOUS
<1>1. CASE ReplayBaseline
  BY <1>1, BaselineKeepsCourse
<1>2. CASE Settle
  BY <1>2, SettleKeepsCourse
<1>3. CASE RecordRetry
  BY <1>3, RecordRetryKeepsCourse
<1>4. CASE AskScheduler
  <2>1. stage = "decide" /\ stage' = "score" /\ UNCHANGED <<stream, at, followup, baseline, policy>>
    BY <1>4 DEF AskScheduler, inputVars
  <2>2. Replayed' = Replayed /\ Failure' = Failure
    BY <2>1 DEF Replayed, Failure
  <2> QED  BY <2>1, <2>2 DEF CourseInv
<1>5. CASE UNCHANGED engineVars
  <2>1. UNCHANGED <<stream, at, stage, followup, baseline, policy>>
    BY <1>5 DEF engineVars, inputVars, runVars
  <2>2. Replayed' = Replayed /\ Failure' = Failure
    BY <2>1 DEF Replayed, Failure
  <2> QED  BY <2>1, <2>2 DEF CourseInv
<1>6. ReplayBaseline \/ Settle \/ RecordRetry \/ AskScheduler \/ UNCHANGED engineVars
  BY DEF Next, EngineStep, AwaitedStep, OutsideStep, vars
<1> QED  BY <1>1, <1>2, <1>3, <1>4, <1>5, <1>6

LEMMA CourseInit == Init => CourseInv
<1> SUFFICES ASSUME Init PROVE CourseInv
  OBVIOUS
<1>1. /\ stream \in Streams /\ at = 1 /\ stage = "baseline" /\ followup = FALSE
      /\ baseline = <<>> /\ policy = <<>>
  BY DEF Init, InitReplay
<1>2. DOMAIN <<>> = {}
  BY EmptyRun
<1>3. Len(stream) \in Nat \ {0}
  BY <1>1, StreamAssumption
<1>4. Replayed = 0 /\ at - 1 = 0
  BY <1>1 DEF Replayed
<1>5. at \in 1 .. Len(stream) + 1 /\ at # Len(stream) + 1
  BY <1>1, <1>3
<1>6. 1 .. 0 = {}
  OBVIOUS
<1>7. ArmHolds(<<>>, stream, 0, 3) /\ ArmHolds(<<>>, stream, 0, 2)
  BY <1>2, <1>6 DEF ArmHolds, RecoversLast
<1>8. \A events : OnlyOf(<<>>, events)
  BY <1>2 DEF OnlyOf
<1> QED  BY <1>1, <1>4, <1>5, <1>7, <1>8 DEF CourseInv

LEMMA CourseInvariant ==
  ASSUME DistinctEvents
  PROVE  Spec => []CourseInv
<1>1. RunInv /\ DisclosureInv /\ ShownInv /\ CourseInv /\ [Next]_vars => CourseInv'
  BY CourseInductive
<1> QED  BY <1>1, CourseInit, RunInvariant, DisclosureInvariant, ShownInvariant, PTL DEF Spec

(***************************************************************************)
(* An event that has recovered is left alone, in both arms (engine.ts:115, *)
(* "recovered payments stop the dunning sequence").                        *)
(***************************************************************************)
THEOREM RecoveryEndsDunning ==
  ASSUME DistinctEvents
  PROVE  Spec => []NothingAfterRecovery
<1>1. CourseInv => NothingAfterRecovery
  BY DEF CourseInv, ArmHolds, RecoversLast, NothingAfterRecovery
<1> QED  BY <1>1, CourseInvariant, PTL

(***************************************************************************)
(* Every failure replayed shows in both arms, at most three times in the   *)
(* baseline and twice in the policy: no arm of a finished run is empty     *)
(* (bootstrap/route.ts:24).                                                *)
(***************************************************************************)
THEOREM FailuresAreShown ==
  ASSUME DistinctEvents
  PROVE  Spec => []EveryFailureShown
<1>1. CourseInv => EveryFailureShown
  <2> SUFFICES ASSUME CourseInv, NEW k \in 1 .. at - 1
               PROVE  /\ PointsOf(baseline, stream[k].eventId) \in 1 .. 3
                      /\ PointsOf(policy, stream[k].eventId) \in 1 .. 2
    BY DEF EveryFailureShown
  <2>1. at \in Int
    BY DEF CourseInv
  <2>2. k \in 1 .. Replayed
    BY <2>1 DEF Replayed
  <2> QED  BY <2>2 DEF CourseInv, ArmHolds
<1> QED  BY <1>1, CourseInvariant, PTL

-----------------------------------------------------------------------------
(***************************************************************************)
(* Types: beyond the invariants above, where the run stands, and what is   *)
(* still awaited.                                                          *)
(***************************************************************************)
PositionOK == at \in 1 .. Len(stream) + 1 /\ (stage = "done" <=> at > Len(stream))

AwaitedOK ==
  /\ waiting \subseteq Candidates \ DOMAIN scores
  /\ schedule = NoSchedule => asked = NoPayment \/ waiting # {}

CachedOK == cached \in Bundle \cup {NoBundle}

TypedInv == PositionOK /\ AwaitedOK /\ CachedOK

LEMMA GetBundleKeepsCached ==
  ASSUME SidecarOK, CachedOK, GetBundle
  PROVE  CachedOK'
<1>1. cached' = IF Available THEN Served ELSE NoBundle
  BY DEF GetBundle
<1>2. ASSUME Loadable(artifact) PROVE LoadBundle(artifact) \in Bundle
  <2>1. artifact \in Artifact
    BY SidecarAssumption DEF SidecarOK
  <2>2. artifact.version \in STRING /\ artifact.booster \in DOMAIN Propensity
    BY <1>2, <2>1 DEF Artifact, Loadable
  <2> QED  BY <2>2 DEF LoadBundle, Bundle
<1>3. Available => Served \in Bundle
  BY <1>2 DEF Available, Served, CachedOK
<1> QED  BY <1>1, <1>3 DEF CachedOK

LEMMA SchedulerStepKeepsAwaited ==
  ASSUME SidecarOK, SchedulerOK, AwaitedOK, CachedOK, SchedulerStep
  PROVE  AwaitedOK' /\ CachedOK'
<1>1. PICK i \in Candidates : ScoreArrives(i) \/ ScoreRefused(i) \/ CallFails(i)
  BY DEF SchedulerStep
<1>2. i \in waiting /\ asked' = asked
  BY <1>1 DEF ScoreArrives, ScoreRefused, CallFails, Degrade
<1>3. asked \in Payments
  BY <1>2 DEF SchedulerOK
<1>4. CASE ScoreArrives(i)
  <2>1. GetBundle /\ waiting' = waiting \ {i} /\ DOMAIN scores' = DOMAIN scores \cup {i}
    BY <1>4 DEF ScoreArrives
  <2>2. waiting' \subseteq Candidates \ DOMAIN scores'
    BY <2>1 DEF AwaitedOK
  <2>3. ASSUME waiting' = {} PROVE schedule' # NoSchedule
    <3>1. schedule' \in ModelDecisions(asked)
      BY <1>4, <2>3, ScoreArrivesKeepsScheduler
    <3> QED  BY <1>3, <3>1, NoScheduleAssumption
  <2>4. CachedOK'
    BY <2>1, GetBundleKeepsCached
  <2> QED  BY <2>2, <2>3, <2>4 DEF AwaitedOK
<1>5. CASE ScoreRefused(i) \/ CallFails(i)
  <2>1. Degrade /\ cached' = cached
    BY <1>5 DEF ScoreRefused, CallFails, sidecarVars
  <2>2. waiting' = {} /\ schedule' = FallbackSchedule(asked)
    BY <2>1 DEF Degrade
  <2>3. schedule' # NoSchedule
    BY <1>3, <2>2, NoScheduleAssumption
  <2> QED  BY <2>1, <2>2, <2>3 DEF AwaitedOK, CachedOK
<1> QED  BY <1>1, <1>4, <1>5

LEMMA NextFailureKeepsPosition ==
  ASSUME EngineOK, stage # "done", PositionOK, NextFailure, stream' = stream
  PROVE  PositionOK'
<1>1. Len(stream) \in Nat /\ at \in Nat \ {0} /\ at <= Len(stream)
  BY StreamAssumption DEF EngineOK
<1>2. at' = at + 1 /\ stage' = IF at = Len(stream) THEN "done" ELSE "baseline"
  BY DEF NextFailure
<1> QED  BY <1>1, <1>2 DEF PositionOK

LEMMA TypedInit == Init => TypedInv
<1> SUFFICES ASSUME Init PROVE TypedInv
  OBVIOUS
<1>1. stream \in Streams /\ at = 1 /\ stage = "baseline"
  BY DEF Init, InitReplay
<1>2. Len(stream) \in Nat \ {0}
  BY <1>1, StreamAssumption
<1>3. PositionOK
  BY <1>1, <1>2 DEF PositionOK
<1>4. AwaitedOK
  BY DEF Init, InitScheduler, AwaitedOK
<1>5. CachedOK
  BY DEF Init, InitSidecar, CachedOK
<1> QED  BY <1>3, <1>4, <1>5 DEF TypedInv

LEMMA TypedInductive == RunInv /\ TypedInv /\ [Next]_vars => TypedInv'
<1> SUFFICES ASSUME RunInv, TypedInv, [Next]_vars PROVE TypedInv'
  OBVIOUS
<1>0. SidecarOK /\ SchedulerOK /\ EngineOK /\ PositionOK /\ AwaitedOK /\ CachedOK
  BY DEF RunInv, TypedInv
<1>1. CASE ReplayBaseline
  <2>1. /\ UNCHANGED <<at, stream, waiting, scores, schedule, asked, cached>>
        /\ stage = "baseline" /\ stage' = "decide"
    BY <1>1 DEF ReplayBaseline, inputVars, schedulerVars, sidecarVars
  <2> QED  BY <1>0, <2>1 DEF TypedInv, PositionOK, AwaitedOK, CachedOK
<1>2. CASE AskScheduler
  <2>1. /\ UNCHANGED <<at, stream, cached>> /\ stage = "decide" /\ stage' = "score"
        /\ waiting' = Candidates /\ scores' = <<>>
    BY <1>2 DEF AskScheduler, inputVars, sidecarVars, Ask
  <2>2. DOMAIN scores' = {}
    BY <2>1
  <2>3. Candidates # {}
    <3>1. Candidates = 1 .. Len(CandidateOffsets) /\ Len(CandidateOffsets) \in Nat \ {0}
      BY SchedulerAssumption DEF Candidates
    <3> QED  BY <3>1
  <2>4. PositionOK' /\ CachedOK'
    BY <1>0, <2>1 DEF PositionOK, CachedOK
  <2>5. AwaitedOK'
    BY <2>1, <2>2, <2>3 DEF AwaitedOK, Candidates
  <2> QED  BY <2>4, <2>5 DEF TypedInv
<1>3. CASE Settle
  <2>1. NextFailure /\ stage = "decide"
        /\ UNCHANGED <<stream, waiting, scores, schedule, asked, cached>>
    BY <1>3 DEF Settle, inputVars, schedulerVars, sidecarVars
  <2> QED  BY <1>0, <2>1, NextFailureKeepsPosition DEF TypedInv, AwaitedOK, CachedOK
<1>4. CASE RecordRetry
  <2>1. /\ stage = "score" /\ UNCHANGED <<stream, waiting, scores, schedule, asked, cached>>
        /\ NextFailure \/ (stage' = "decide" /\ at' = at)
    BY <1>4 DEF RecordRetry, inputVars, schedulerVars, sidecarVars
  <2>2. PositionOK'
    BY <1>0, <2>1, NextFailureKeepsPosition DEF PositionOK
  <2> QED  BY <1>0, <2>1, <2>2 DEF TypedInv, AwaitedOK, CachedOK
<1>5. CASE AwaitedStep
  <2>1. SchedulerStep /\ UNCHANGED <<at, stream, stage>>
    BY <1>5 DEF AwaitedStep, engineVars, inputVars, runVars
  <2> QED  BY <1>0, <2>1, SchedulerStepKeepsAwaited DEF TypedInv, PositionOK
<1>6. CASE OutsideStep
  <2>1. SidecarEvent /\ UNCHANGED <<at, stream, stage, waiting, scores, schedule, asked>>
    BY <1>6 DEF OutsideStep, engineVars, inputVars, runVars, schedulerVars
  <2>2. CachedOK'
    BY <1>0, <2>1, GetBundleKeepsCached
       DEF SidecarEvent, OtherRequest, ReplaceArtifact, RestartSidecar, CachedOK
  <2> QED  BY <1>0, <2>1, <2>2 DEF TypedInv, PositionOK, AwaitedOK
<1>7. CASE UNCHANGED vars
  BY <1>0, <1>7 DEF TypedInv, PositionOK, AwaitedOK, CachedOK, vars, engineVars, inputVars,
       runVars, schedulerVars, sidecarVars
<1> QED  BY <1>1, <1>2, <1>3, <1>4, <1>5, <1>6, <1>7 DEF Next, EngineStep

(***************************************************************************)
(* What a run, the scheduler and the sidecar hold is of its type.          *)
(***************************************************************************)
THEOREM ReplayTyped == Spec => []TypeOK
<1>1. RunInv /\ ShownInv /\ TypedInv => TypeOK
  <2> SUFFICES ASSUME RunInv, ShownInv, TypedInv PROVE TypeOK
    OBVIOUS
  <2>1. /\ at \in 1 .. Len(stream) + 1 /\ (stage = "done" <=> at > Len(stream))
        /\ waiting \subseteq Candidates \ DOMAIN scores
        /\ schedule = NoSchedule => asked = NoPayment \/ waiting # {}
        /\ cached \in Bundle \cup {NoBundle}
    BY DEF TypedInv, PositionOK, AwaitedOK, CachedOK
  <2>2. /\ stage \in {"baseline", "decide", "score", "done"}
        /\ stage = "score" => asked \in Payments
        /\ asked = NoPayment \/ waiting # {} => schedule = NoSchedule
    BY DEF RunInv, EngineOK, SchedulerOK
  <2>3. /\ \A k \in DOMAIN baseline : PointOK(baseline[k]) /\ baseline[k].action = "RETRY"
        /\ \A k \in DOMAIN policy : PointOK(policy[k])
    BY DEF ShownInv, ShownOK
  <2> QED  BY <2>1, <2>2, <2>3 DEF TypeOK
<1>2. RunInv /\ TypedInv /\ [Next]_vars => TypedInv'
  BY TypedInductive
<1> QED  BY <1>1, <1>2, TypedInit, RunInvariant, ShownInvariant, PTL DEF Spec

-----------------------------------------------------------------------------
(***************************************************************************)
(* The series.  An amount is a running sum over the points, so it grows    *)
(* with the points that are counted; and it is cumulated over hours that   *)
(* are in order, the last of which is no earlier than any recovery.        *)
(***************************************************************************)
Amounts(points) == \A k \in DOMAIN points : {points[k].scheduledFor, points[k].amount} \subseteq Nat

RunningSum(points, counted, n, g) ==
  /\ g \in [0 .. n -> Nat] /\ g[0] = 0
  /\ \A k \in 1 .. n : g[k] = g[k - 1] + (IF k \in counted THEN points[k].amount ELSE 0)

LEMMA RunningSumExists ==
  ASSUME NEW points, NEW counted, NEW n \in Nat,
         \A k \in 1 .. n : points[k].amount \in Nat
  PROVE  \E g : RunningSum(points, counted, n, g)
<1> DEFINE T == {m \in 0 .. n : ~ \E g : RunningSum(points, counted, m, g)}
<1> SUFFICES ASSUME ~ \E g : RunningSum(points, counted, n, g) PROVE FALSE
  OBVIOUS
<1>1. T \in SUBSET Nat /\ n \in T
  OBVIOUS
<1>2. PICK m \in T : \A y \in T : m <= y
  <2> HIDE DEF T
  <2> QED  BY <1>1, LeastNatural
<1>3. m \in 0 .. n /\ ~ \E g : RunningSum(points, counted, m, g)
  OBVIOUS
<1>4. CASE m = 0
  <2> DEFINE g == [k \in 0 .. 0 |-> 0]
  <2>1. RunningSum(points, counted, 0, g)
    BY DEF RunningSum
  <2> QED  BY <1>3, <1>4, <2>1
<1>5. CASE m # 0
  <2>1. m - 1 \in 0 .. n /\ ~ m <= m - 1 /\ m \in 1 .. n
    BY <1>3, <1>5
  <2>2. m - 1 \notin T
    <3> HIDE DEF T
    <3> QED  BY <1>2, <2>1
  <2>3. PICK g : RunningSum(points, counted, m - 1, g)
    BY <2>1, <2>2
  <2> DEFINE new == g[m - 1] + (IF m \in counted THEN points[m].amount ELSE 0)
             h   == [k \in 0 .. m |-> IF k = m THEN new ELSE g[k]]
  <2>4. m - 1 \in 0 .. m - 1 /\ g \in [0 .. m - 1 -> Nat]
    BY <2>1, <2>3 DEF RunningSum
  <2>5. new \in Nat
    <3>1. g[m - 1] \in Nat /\ points[m].amount \in Nat
      BY <2>1, <2>4
    <3> QED  BY <3>1
  <2>6. \A k \in 0 .. m : k # m => k \in 0 .. m - 1
    BY <2>1
  <2>7. h \in [0 .. m -> Nat]
    BY <2>4, <2>5, <2>6
  <2>8. h[0] = 0
    BY <1>5, <2>1, <2>3 DEF RunningSum
  <2>9. ASSUME NEW k \in 1 .. m
        PROVE  h[k] = h[k - 1] + (IF k \in counted THEN points[k].amount ELSE 0)
    <3>1. k \in 0 .. m /\ k - 1 \in 0 .. m /\ k - 1 # m
      BY <2>1
    <3>2. h[k - 1] = g[k - 1]
      BY <3>1
    <3>3. CASE k = m
      BY <2>1, <3>2, <3>3
    <3>4. CASE k # m
      <4>1. k \in 1 .. m - 1 /\ h[k] = g[k]
        BY <2>1, <3>1, <3>4
      <4> QED  BY <2>3, <3>2, <4>1 DEF RunningSum
    <3> QED  BY <3>3, <3>4
  <2> HIDE DEF h
  <2>10. RunningSum(points, counted, m, h)
    BY <2>7, <2>8, <2>9 DEF RunningSum
  <2> QED  BY <1>3, <2>10
<1> QED  BY <1>4, <1>5

(* An amount is the end of such a sum.                                     *)
LEMMA AmountIsASum ==
  ASSUME NEW points, IsSequence(points), Amounts(points), NEW counted
  PROVE  \E g : RunningSum(points, counted, Len(points), g)
                /\ AmountOf(points, counted) = g[Len(points)]
<1> DEFINE n       == Len(points)
           Grow(g) == [k \in 0 .. n |->
                         IF k = 0 THEN 0
                         ELSE g[k - 1] + (IF k \in counted THEN points[k].amount ELSE 0)]
           sum     == CHOOSE g : g = Grow(g)
<1>1. n \in Nat /\ DOMAIN points = 1 .. n
  BY DEF IsSequence
<1>2. \A k \in 1 .. n : points[k].amount \in Nat
  BY <1>1 DEF Amounts
<1>3. AmountOf(points, counted) = sum[n]
  BY DEF AmountOf
<1> HIDE DEF n
<1>4. PICK g : RunningSum(points, counted, n, g)
  BY <1>1, <1>2, RunningSumExists
<1>5. g = Grow(g)
  <2>1. g \in [0 .. n -> Nat] /\ g[0] = 0
        /\ \A k \in 1 .. n : g[k] = g[k - 1] + (IF k \in counted THEN points[k].amount ELSE 0)
    BY <1>4 DEF RunningSum
  <2>2. \A k \in 0 .. n : g[k] = Grow(g)[k]
    <3>1. \A k \in 0 .. n : k # 0 => k \in 1 .. n
      BY <1>1
    <3> QED  BY <2>1, <3>1
  <2>3. DOMAIN Grow(g) = 0 .. n
    OBVIOUS
  <2> QED  BY <2>1, <2>2, <2>3
<1>6. sum = Grow(sum)
  <2> HIDE DEF Grow
  <2> QED  BY <1>5
<1>7. RunningSum(points, counted, n, sum)
  <2> HIDE DEF sum
  <2>1. /\ DOMAIN sum = 0 .. n /\ sum[0] = 0
        /\ \A k \in 1 .. n : sum[k] = sum[k - 1] + (IF k \in counted THEN points[k].amount ELSE 0)
    <3>1. \A k \in 1 .. n : k \in 0 .. n /\ k # 0
      BY <1>1
    <3> QED  BY <1>1, <1>6, <3>1
  <2>2. \A k \in 0 .. n : sum[k] \in Nat
    <3> DEFINE T == {k \in 0 .. n : sum[k] \notin Nat}
    <3> SUFFICES ASSUME T # {} PROVE FALSE
      OBVIOUS
    <3>1. T \in SUBSET Nat
      OBVIOUS
    <3>2. PICK k \in T : \A y \in T : k <= y
      <4> HIDE DEF T
      <4> QED  BY <3>1, LeastNatural
    <3>3. k \in 0 .. n /\ sum[k] \notin Nat /\ k # 0
      BY <2>1
    <3>4. k \in 1 .. n /\ k - 1 \in 0 .. n /\ ~ k <= k - 1
      BY <1>1, <3>3
    <3>5. k - 1 \notin T
      <4> HIDE DEF T
      <4> QED  BY <3>2, <3>4
    <3>6. sum[k - 1] \in Nat /\ points[k].amount \in Nat
      BY <1>2, <3>4, <3>5
    <3>7. sum[k] = sum[k - 1] + (IF k \in counted THEN points[k].amount ELSE 0)
      BY <2>1, <3>4
    <3> QED  BY <3>3, <3>6, <3>7
  <2>3. sum = [k \in 0 .. n |-> sum[k]]
    BY <1>6, <2>1
  <2>4. sum \in [0 .. n -> Nat]
    BY <2>2, <2>3
  <2> QED  BY <2>1, <2>4 DEF RunningSum
<1> HIDE DEF sum
<1> QED  BY <1>3, <1>7 DEF n

LEMMA AmountGrows ==
  ASSUME NEW points, IsSequence(points), Amounts(points), NEW few, NEW many, few \subseteq many
  PROVE  AmountOf(points, few) <= AmountOf(points, many)
<1> DEFINE n == Len(points)
<1>1. n \in Nat /\ DOMAIN points = 1 .. n
  BY DEF IsSequence
<1>2. \A k \in 1 .. n : points[k].amount \in Nat
  BY <1>1 DEF Amounts
<1>3. PICK g : RunningSum(points, few, n, g) /\ AmountOf(points, few) = g[n]
  BY AmountIsASum
<1>4. PICK h : RunningSum(points, many, n, h) /\ AmountOf(points, many) = h[n]
  BY AmountIsASum
<1> HIDE DEF n
<1>5. \A k \in 0 .. n : g[k] \in Nat /\ h[k] \in Nat
  BY <1>3, <1>4 DEF RunningSum
<1>6. g[0] = 0 /\ h[0] = 0
  BY <1>3, <1>4 DEF RunningSum
<1>7. \A k \in 0 .. n : g[k] <= h[k]
  <2> DEFINE T == {k \in 0 .. n : ~ g[k] <= h[k]}
  <2> SUFFICES ASSUME T # {} PROVE FALSE
    OBVIOUS
  <2>1. T \in SUBSET Nat
    OBVIOUS
  <2>2. PICK k \in T : \A y \in T : k <= y
    <3> HIDE DEF T
    <3> QED  BY <2>1, LeastNatural
  <2>3. k \in 0 .. n /\ ~ g[k] <= h[k]
    OBVIOUS
  <2>4. k # 0
    BY <1>6, <2>3
  <2>5. k \in 1 .. n /\ k - 1 \in 0 .. n /\ ~ k <= k - 1
    BY <1>1, <2>3, <2>4
  <2>6. g[k - 1] <= h[k - 1]
    <3>1. k - 1 \notin T
      <4> HIDE DEF T
      <4> QED  BY <2>2, <2>5
    <3> QED  BY <2>5, <3>1
  <2>7. /\ g[k] = g[k - 1] + (IF k \in few THEN points[k].amount ELSE 0)
        /\ h[k] = h[k - 1] + (IF k \in many THEN points[k].amount ELSE 0)
    BY <1>3, <1>4, <2>5 DEF RunningSum
  <2>8. /\ g[k - 1] \in Nat /\ h[k - 1] \in Nat /\ points[k].amount \in Nat
        /\ k \in few => k \in many
    BY <1>2, <1>5, <2>5
  <2> HIDE DEF T
  <2> QED  BY <2>3, <2>6, <2>7, <2>8
<1> QED  BY <1>1, <1>3, <1>4, <1>7

(* The hours of an arm's recoveries are finitely many.                     *)
LEMMA BucketsFinite ==
  ASSUME NEW points, IsSequence(points), Amounts(points)
  PROVE  /\ IsFiniteSet(BucketsOf(points)) /\ BucketsOf(points) \subseteq Nat
         /\ \A i \in Recoveries(points) : points[i].scheduledFor \in BucketsOf(points)
<1> DEFINE R == Recoveries(points)
           B == BucketsOf(points)
           f == [i \in R |-> points[i].scheduledFor]
<1>1. Len(points) \in Nat /\ DOMAIN points = 1 .. Len(points)
  BY DEF IsSequence
<1>2. R \subseteq 1 .. Len(points)
  BY <1>1 DEF Recoveries
<1>3. IsFiniteSet(R)
  <2>1. IsFiniteSet(1 .. Len(points))
    BY <1>1, FS_Interval
  <2> QED  BY <1>2, <2>1, FS_Subset
<1>4. B = {points[i].scheduledFor : i \in R}
  BY DEF BucketsOf
<1>5. f \in Surjection(R, B)
  <2> HIDE DEF R, B
  <2> QED  BY <1>4 DEF Surjection
<1>6. IsFiniteSet(B)
  <2> HIDE DEF R, B, f
  <2> QED  BY <1>3, <1>5, FS_Surjection
<1>7. B \subseteq Nat
  BY <1>1, <1>2, <1>4 DEF Amounts
<1> QED  BY <1>4, <1>6, <1>7

LEMMA SeriesOfArms ==
  ASSUME NEW a, NEW b, IsSequence(a), IsSequence(b), Amounts(a), Amounts(b)
  PROVE  LET series == RunToReplaySeries(a, b)
             last   == Len(series)
         IN  /\ \A j, k \in DOMAIN series : j < k =>
                  /\ series[j].bucket < series[k].bucket
                  /\ series[j].baseline <= series[k].baseline
                  /\ series[j].policy <= series[k].policy
             /\ RecoveredAmount(a) = IF last = 0 THEN 0 ELSE series[last].baseline
             /\ RecoveredAmount(b) = IF last = 0 THEN 0 ELSE series[last].policy
<1> DEFINE keys   == Buckets(a, b)
           R      == {jk \in keys \X keys : jk[1] < jk[2]}
           hours  == InOrder(keys, R)
           n      == Cardinality(keys)
           series == RunToReplaySeries(a, b)
<1>1. /\ IsFiniteSet(keys) /\ keys \subseteq Nat
      /\ \A i \in Recoveries(a) : a[i].scheduledFor \in keys
      /\ \A i \in Recoveries(b) : b[i].scheduledFor \in keys
  <2>1. /\ IsFiniteSet(BucketsOf(a)) /\ BucketsOf(a) \subseteq Nat
        /\ IsFiniteSet(BucketsOf(b)) /\ BucketsOf(b) \subseteq Nat
        /\ \A i \in Recoveries(a) : a[i].scheduledFor \in BucketsOf(a)
        /\ \A i \in Recoveries(b) : b[i].scheduledFor \in BucketsOf(b)
    BY BucketsFinite
  <2>2. keys = BucketsOf(a) \cup BucketsOf(b)
    BY DEF Buckets
  <2> QED  BY <2>1, <2>2, FS_Union
<1>2. series = [k \in DOMAIN hours |-> [bucket   |-> hours[k],
                                        baseline |-> RecoveredBy(a, hours[k]),
                                        policy   |-> RecoveredBy(b, hours[k])]]
  BY DEF RunToReplaySeries
<1> HIDE DEF keys, series
<1>3. StrictOrder(keys, R)
  <2>1. \A x, y \in keys : <<x, y>> \in R <=> x < y
    OBVIOUS
  <2> HIDE DEF R
  <2>2. \A x, y \in keys : x \in Nat /\ y \in Nat
    BY <1>1
  <2>3. \A x \in keys : <<x, x>> \notin R
    BY <2>1, <2>2
  <2>4. \A x, y, z \in keys : <<x, y>> \in R /\ <<y, z>> \in R => <<x, z>> \in R
    BY <2>1, <2>2
  <2>5. \A x, y \in keys : x # y => <<x, y>> \in R \/ <<y, x>> \in R
    BY <2>1, <2>2
  <2> QED  BY <2>3, <2>4, <2>5 DEF StrictOrder
<1>4. /\ n \in Nat /\ hours \in [1 .. n -> keys]
      /\ \A x \in keys : \E k \in 1 .. n : hours[k] = x
      /\ \A j, k \in 1 .. n : j < k => <<hours[j], hours[k]>> \in R
  <2> HIDE DEF R
  <2> QED  BY <1>1, <1>3, InOrderSorts
<1>5. \A j, k \in 1 .. n : j < k => hours[j] < hours[k]
  BY <1>4
<1> HIDE DEF n, hours
<1>6. \A k \in 1 .. n : hours[k] \in Nat
  BY <1>1, <1>4
<1>7. /\ DOMAIN series = 1 .. n /\ Len(series) = n
      /\ \A k \in 1 .. n : /\ series[k].bucket = hours[k]
                           /\ series[k].baseline = RecoveredBy(a, hours[k])
                           /\ series[k].policy = RecoveredBy(b, hours[k])
  <2>1. DOMAIN hours = 1 .. n
    BY <1>4
  <2>2. DOMAIN series = 1 .. n
    BY <1>2, <2>1
  <2> DEFINE S == {series[k] : k \in 1 .. n}
  <2>3. series \in Seq(S) /\ Len(series) = n
    <3>1. series = [k \in 1 .. n |-> series[k]]
      BY <1>2, <2>1
    <3>2. series \in [1 .. n -> S]
      BY <3>1
    <3> HIDE DEF S
    <3> QED  BY <1>4, <3>2
  <2> QED  BY <1>2, <2>1, <2>2, <2>3
<1>8. ASSUME NEW p, IsSequence(p), Amounts(p), NEW early \in Nat, NEW late \in Nat, early < late
      PROVE  RecoveredBy(p, early) <= RecoveredBy(p, late)
  <2> DEFINE few  == {i \in Recoveries(p) : p[i].scheduledFor <= early}
             many == {i \in Recoveries(p) : p[i].scheduledFor <= late}
  <2>1. \A i \in Recoveries(p) : p[i].scheduledFor \in Nat
    BY <1>8 DEF Amounts, Recoveries
  <2>2. few \subseteq many
    BY <1>8, <2>1
  <2> HIDE DEF few, many
  <2>3. AmountOf(p, few) <= AmountOf(p, many)
    BY <1>8, <2>2, AmountGrows
  <2> QED  BY <2>3 DEF RecoveredBy, few, many
<1>9. ASSUME NEW j \in DOMAIN series, NEW k \in DOMAIN series, j < k
      PROVE  /\ series[j].bucket < series[k].bucket
             /\ series[j].baseline <= series[k].baseline
             /\ series[j].policy <= series[k].policy
  <2>1. /\ hours[j] \in Nat /\ hours[k] \in Nat /\ hours[j] < hours[k]
        /\ j \in 1 .. n /\ k \in 1 .. n
    BY <1>5, <1>6, <1>7, <1>9
  <2>2. RecoveredBy(a, hours[j]) <= RecoveredBy(a, hours[k])
    BY <1>8, <2>1
  <2>3. RecoveredBy(b, hours[j]) <= RecoveredBy(b, hours[k])
    BY <1>8, <2>1
  <2> QED  BY <1>7, <2>1, <2>2, <2>3
<1>10. ASSUME NEW p, IsSequence(p), Amounts(p),
              \A i \in Recoveries(p) : p[i].scheduledFor \in keys
       PROVE  RecoveredAmount(p) = IF n = 0 THEN 0 ELSE RecoveredBy(p, hours[n])
  <2>1. CASE n = 0
    <3>1. Recoveries(p) = {}
      <4>1. 1 .. n = {}
        BY <2>1
      <4> QED  BY <1>4, <1>10, <4>1
    <3>2. PICK g : RunningSum(p, {}, Len(p), g) /\ AmountOf(p, {}) = g[Len(p)]
      BY <1>10, AmountIsASum
    <3>3. g[Len(p)] = 0
      <4> DEFINE T == {k \in 0 .. Len(p) : g[k] # 0}
      <4>1. Len(p) \in Nat
        BY <1>10 DEF IsSequence
      <4> SUFFICES ASSUME g[Len(p)] # 0 PROVE FALSE
        OBVIOUS
      <4>2. T \in SUBSET Nat /\ Len(p) \in T
        BY <4>1
      <4>3. PICK k \in T : \A y \in T : k <= y
        <5> HIDE DEF T
        <5> QED  BY <4>2, LeastNatural
      <4>4. k \in 0 .. Len(p) /\ g[k] # 0 /\ k # 0
        BY <3>2 DEF RunningSum
      <4>5. k \in 1 .. Len(p) /\ k - 1 \in 0 .. Len(p) /\ ~ k <= k - 1
        BY <4>1, <4>4
      <4>6. g[k - 1] = 0
        <5>1. k - 1 \notin T
          <6> HIDE DEF T
          <6> QED  BY <4>3, <4>5
        <5> QED  BY <4>5, <5>1
      <4>7. g[k] = g[k - 1] + 0
        BY <3>2, <4>5 DEF RunningSum
      <4> QED  BY <4>4, <4>6, <4>7
    <3> QED  BY <2>1, <3>1, <3>2, <3>3 DEF RecoveredAmount
  <2>2. CASE n # 0
    <3>1. n \in 1 .. n
      BY <1>4, <2>2
    <3>2. \A i \in Recoveries(p) : p[i].scheduledFor <= hours[n]
      <4> SUFFICES ASSUME NEW i \in Recoveries(p) PROVE p[i].scheduledFor <= hours[n]
        OBVIOUS
      <4>1. PICK k \in 1 .. n : hours[k] = p[i].scheduledFor
        BY <1>4, <1>10
      <4>2. CASE k = n
        BY <1>6, <3>1, <4>1, <4>2
      <4>3. CASE k # n
        <5>1. k < n
          BY <1>4, <4>3
        <5>2. hours[k] < hours[n] /\ hours[k] \in Nat /\ hours[n] \in Nat
          BY <1>5, <1>6, <3>1, <5>1
        <5> QED  BY <4>1, <5>2
      <4> QED  BY <4>2, <4>3
    <3>3. {i \in Recoveries(p) : p[i].scheduledFor <= hours[n]} = Recoveries(p)
      BY <3>2
    <3> QED  BY <2>2, <3>3 DEF RecoveredAmount, RecoveredBy
  <2> QED  BY <2>1, <2>2
<1>11. RecoveredAmount(a) = IF Len(series) = 0 THEN 0 ELSE series[Len(series)].baseline
  <2>1. RecoveredAmount(a) = IF n = 0 THEN 0 ELSE RecoveredBy(a, hours[n])
    BY <1>1, <1>10
  <2>2. n # 0 => n \in 1 .. n
    BY <1>4
  <2> QED  BY <1>7, <2>1, <2>2
<1>12. RecoveredAmount(b) = IF Len(series) = 0 THEN 0 ELSE series[Len(series)].policy
  <2>1. RecoveredAmount(b) = IF n = 0 THEN 0 ELSE RecoveredBy(b, hours[n])
    BY <1>1, <1>10
  <2>2. n # 0 => n \in 1 .. n
    BY <1>4
  <2> QED  BY <1>7, <2>1, <2>2
<1> QED  BY <1>9, <1>11, <1>12 DEF series

(***************************************************************************)
(* The series the dashboard draws of a run runs forward in time, never     *)
(* falls, and ends at the totals of the counters beside it                 *)
(* (series.ts:41-60, engine.ts:217-224).                                   *)
(***************************************************************************)
THEOREM SeriesIsCumulative == Spec => []SeriesEndsAtTotals
<1>1. DisclosureInv /\ ShownInv => SeriesEndsAtTotals
  <2> SUFFICES ASSUME DisclosureInv, ShownInv PROVE SeriesEndsAtTotals
    OBVIOUS
  <2>1. IsSequence(baseline) /\ IsSequence(policy)
    BY DEF DisclosureInv, ShownInv
  <2>2. Amounts(baseline)
    BY DEF ShownInv, ShownOK, PointOK, Amounts
  <2>3. Amounts(policy)
    BY DEF ShownInv, ShownOK, PointOK, Amounts
  <2> QED  BY <2>1, <2>2, <2>3, SeriesOfArms DEF SeriesEndsAtTotals
<1> QED  BY <1>1, DisclosureInvariant, ShownInvariant, PTL
=============================================================================
