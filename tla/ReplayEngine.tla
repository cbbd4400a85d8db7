---------------------------- MODULE ReplayEngine ----------------------------
(***************************************************************************)
(* The A/B replay of lib/replay/engine.ts: each failure of a stream goes   *)
(* through the baseline's fixed schedule, then through HackGuard's policy: *)
(* triage, the guardrail over the retries of this run, the scheduler.  The *)
(* outcome of an attempt is a draw that both arms share.                   *)
(*                                                                         *)
(* Time is in hours.  A point carries, besides the fields of               *)
(* ReplayOutcomePoint, the event it is about and the decision's version.   *)
(***************************************************************************)
EXTENDS RetryScheduler, ReplaySeries, SequencesExt, Triage, Guardrail

CONSTANTS
  EventIds,    (* Of the failures in a stream.                             *)
  Streams,     (* The streams that may be replayed: sequences of failures. *)
  Nows,        (* The moments a replay may be started at.                  *)
  DrawTables   (* Attempt (0: dunning) to draw, in permille.               *)

(***************************************************************************)
(* A failure is one the scheduler may be asked about, twice; an event id   *)
(* stands for one scope, and a scope names the network (memory.ts:83-85).  *)
(***************************************************************************)
ASSUME StreamAssumption ==
  /\ Nows \subseteq Nat
  /\ \A s \in Streams :
       /\ DOMAIN s = 1 .. Len(s) /\ Len(s) \in Nat \ {0}
       /\ \A f \in ToSet(s), n \in {0, 1} :
            [ts |-> f.ts, attempt |-> f.attempt + n, family |-> f.family] \in Payments
       /\ \A f \in ToSet(s) :
            /\ f.eventId \in EventIds /\ f.ts \in Nat
            /\ f.attempt \in Nat \ {0} /\ f.amountMinor \in Nat
       /\ \A f, g \in ToSet(s) :
            /\ f.eventId = g.eventId => f.scopeKey = g.scopeKey
            /\ f.scopeKey = g.scopeKey => f.network = g.network

(* A draw lies in [0, 1), for every attempt either arm can come to.        *)
ASSUME DrawAssumption ==
  \A table \in DrawTables, s \in Streams : \A f \in ToSet(s) :
    \A attempt \in {0} \cup f.attempt .. f.attempt + 2 : table[attempt] \in 0 .. 999

VARIABLES
  stream, now,  (* The arguments of runReplay.                             *)
  draw,         (* Event to its draws: what SHA-256 makes of the keys.     *)
  at,           (* Position of the failure being replayed.                 *)
  stage,        (* Which arm, and whether the policy awaits a score.       *)
  followup,     (* Is the policy deciding the follow-up retry?             *)
  baseline, policy,  (* The points of the two arms.                        *)
  history,      (* attemptHistory, of the policy arm.                      *)
  degraded

inputVars  == <<stream, now, draw>>
runVars    == <<at, stage, followup, baseline, policy, history, degraded>>
engineVars == <<inputVars, runVars>>
vars       == <<engineVars, schedulerVars, sidecarVars>>

InitReplay ==
  /\ stream \in Streams
  /\ now \in Nows
  /\ draw \in [EventIds -> DrawTables]
  /\ at = 1
  /\ stage = "baseline"
  /\ followup = FALSE
  /\ baseline = <<>> /\ policy = <<>> /\ history = <<>>
  /\ degraded = FALSE

Failure == stream[at]

TriageOf(f) == TriageAction(f.network, f.class)

(* Mutant of Recovered: the next draw of a running generator.              *)
RecoveredInTurn(f, attempt, p) ==
  draw[f.eventId][((Len(baseline) + Len(policy)) % 6) + 1] < p

Recovered(f, attempt, p) == draw[f.eventId][attempt] < p

Point(f, attempt, action, scheduledFor, p, version) ==
  [eventId |-> f.eventId, attempt |-> attempt, action |-> action,
   scheduledFor |-> scheduledFor, pRecover |-> p, modelVersion |-> version,
   recovered |-> Recovered(f, IF action = "ASK_CUSTOMER" THEN 0 ELSE attempt, p),
   amount |-> f.amountMinor]

(* The next failure, or the end of the stream.                             *)
NextFailure ==
  /\ at' = at + 1
  /\ stage' = IF at = Len(stream) THEN "done" ELSE "baseline"
  /\ followup' = FALSE

-----------------------------------------------------------------------------
(***************************************************************************)
(* The baseline arm retries at fixed offsets until an attempt recovers.    *)
(***************************************************************************)
BaselineOffsets == <<24, 72, 168>>

(* Six tenths of 380 permille, halved with each attempt, and at least 20.  *)
HalvedCurve == <<228, 114, 57, 28, 20>>

BaselineP(action, attempt) ==
  CASE action = "NEVER_RETRY_HARD" -> 10
    [] action = "ASK_CUSTOMER"     -> 20
    [] OTHER                       -> HalvedCurve[Min({attempt, Len(HalvedCurve)})]

BaselinePoint(f, i) ==
  LET attempt == f.attempt + i - 1
  IN  Point(f, attempt, "RETRY", f.ts + BaselineOffsets[i],
            BaselineP(TriageOf(f), attempt), "baseline-fixed-schedule-v1")

(* Mutant of BaselineArm: a recovered payment is retried all the same.     *)
BaselineArmOfThree(f) == [i \in DOMAIN BaselineOffsets |-> BaselinePoint(f, i)]

BaselineArm(f) ==
  LET recovering == {i \in DOMAIN BaselineOffsets : BaselinePoint(f, i).recovered}
      last       == Min(recovering \cup {Len(BaselineOffsets)})
  IN  [i \in 1 .. last |-> BaselinePoint(f, i)]

ReplayBaseline ==
  /\ stage = "baseline"
  /\ baseline' = baseline \o BaselineArm(Failure)
  /\ stage' = "decide"
  /\ UNCHANGED <<inputVars, at, followup, policy, history, degraded, schedulerVars,
                 sidecarVars>>

-----------------------------------------------------------------------------
(***************************************************************************)
(* The policy arm.  Between the baseline and the call of the scheduler,    *)
(* and from its answer on, nothing is awaited.                             *)
(***************************************************************************)
Attempt == Failure.attempt + (IF followup THEN 1 ELSE 0)

MayRetry(f) ==
  Allowed([scopeKey |-> f.scopeKey, network |-> f.network, triageAction |-> TriageOf(f),
           now |-> now], history)

AskScheduler ==
  /\ stage = "decide"
  /\ MayRetry(Failure)
  /\ Ask([ts |-> Failure.ts, attempt |-> Attempt, family |-> Failure.family])
  /\ stage' = "score"
  /\ UNCHANGED <<inputVars, at, followup, baseline, policy, history, degraded, sidecarVars>>

(* Dunning, with a draw of its own, or nothing at all: no draw is below 0. *)
SettledPoint(f) ==
  IF TriageOf(f) = "ASK_CUSTOMER"
  THEN Point(f, f.attempt, "ASK_CUSTOMER", now, 450, "triage-rules-v1")
  ELSE Point(f, f.attempt, "SUPPRESS", f.ts, 0, "triage-rules-v1")

(* Mutant of Settle: what is suppressed leaves no point either.            *)
SettleAsked ==
  /\ stage = "decide"
  /\ ~ MayRetry(Failure)
  /\ policy' = IF followup \/ TriageOf(Failure) # "ASK_CUSTOMER" THEN policy
               ELSE Append(policy, SettledPoint(Failure))
  /\ NextFailure
  /\ UNCHANGED <<inputVars, baseline, history, degraded, schedulerVars, sidecarVars>>

(* A refused follow-up leaves no point.                                    *)
Settle ==
  /\ stage = "decide"
  /\ ~ MayRetry(Failure)
  /\ policy' = IF followup THEN policy ELSE Append(policy, SettledPoint(Failure))
  /\ NextFailure
  /\ UNCHANGED <<inputVars, baseline, history, degraded, schedulerVars, sidecarVars>>

(* Mutants of Commit: only first retries count; only the last one counts.  *)
CommitFirst(s) ==
  /\ history' = IF followup THEN history
                ELSE Append(history, [scopeKey |-> Failure.scopeKey, ts |-> s.scheduledFor])
  /\ degraded' = (degraded \/ s.degraded)

CommitForget(s) ==
  /\ history' = Append(history, [scopeKey |-> Failure.scopeKey, ts |-> s.scheduledFor])
  /\ degraded' = s.degraded

Commit(s) ==
  /\ history' = Append(history, [scopeKey |-> Failure.scopeKey, ts |-> s.scheduledFor])
  /\ degraded' = (degraded \/ s.degraded)

RecordRetry ==
  /\ stage = "score"
  /\ schedule # NoSchedule
  /\ LET point == Point(Failure, Attempt, "RETRY", schedule.scheduledFor,
                        schedule.pRecover, schedule.modelVersion)
     IN  /\ policy' = Append(policy, point)
         /\ IF point.recovered \/ followup THEN NextFailure
            ELSE stage' = "decide" /\ followup' = TRUE /\ UNCHANGED at
  /\ Commit(schedule)
  /\ UNCHANGED <<inputVars, baseline, schedulerVars, sidecarVars>>

EngineStep == ReplayBaseline \/ AskScheduler \/ Settle \/ RecordRetry

AwaitedStep == SchedulerStep /\ UNCHANGED engineVars

OutsideStep == SidecarEvent /\ UNCHANGED <<engineVars, schedulerVars>>

Init == InitReplay /\ InitScheduler /\ InitSidecar

Next == EngineStep \/ AwaitedStep \/ OutsideStep

Spec == Init /\ [][Next]_vars

FairSpec == Spec /\ WF_vars(EngineStep) /\ SchedulerFairness

-----------------------------------------------------------------------------
(***************************************************************************)
(* What a run, the scheduler and the sidecar can hold.                     *)
(***************************************************************************)
PointOK(p) ==
  /\ p.eventId \in EventIds /\ p.attempt \in Nat \ {0}
  /\ p.pRecover \in 0 .. 1000 /\ {p.scheduledFor, p.amount} \subseteq Nat
  /\ p.recovered => p.action # "SUPPRESS"

TypeOK ==
  /\ at \in 1 .. Len(stream) + 1 /\ stage \in {"baseline", "decide", "score", "done"}
  /\ (stage = "done") <=> (at > Len(stream))
  /\ \A k \in DOMAIN baseline : PointOK(baseline[k]) /\ baseline[k].action = "RETRY"
  /\ \A k \in DOMAIN policy : PointOK(policy[k])
  /\ (stage = "score") => asked \in Payments
  /\ waiting \subseteq Candidates \ DOMAIN scores
  /\ (schedule = NoSchedule) <=> (asked = NoPayment \/ waiting # {})
  /\ cached \in Bundle \cup {NoBundle}

(***************************************************************************)
(* In either arm an event recovers at most once, and is left alone once it *)
(* has (engine.ts:115, "recovered payments stop the dunning sequence").    *)
(***************************************************************************)
NothingAfterRecovery ==
  \A points \in {baseline, policy} : \A j, k \in DOMAIN points :
    j < k /\ points[j].eventId = points[k].eventId => ~ points[j].recovered

(***************************************************************************)
(* The arms differ by what they decide, not by luck: where the policy      *)
(* retries the attempt the baseline retried, at odds at least as good, it  *)
(* recovers what the baseline recovers (engine.ts:19-21).                  *)
(***************************************************************************)
LuckIsShared ==
  \A b \in ToSet(baseline), q \in ToSet(policy) :
    /\ b.eventId = q.eventId /\ b.attempt = q.attempt /\ q.action = "RETRY"
    /\ q.pRecover >= b.pRecover
    => (b.recovered => q.recovered)

(***************************************************************************)
(* The retries a run schedules for one scope stay within the caps around   *)
(* the moment the run was started at, follow-ups included (engine.ts:88,   *)
(* "caps bind within a replay").                                           *)
(***************************************************************************)
ScopeOfEvent(e) == (CHOOSE f \in ToSet(stream) : f.eventId = e).scopeKey

RetriesOf(scope, hours) ==
  Cardinality({k \in DOMAIN policy :
                 /\ policy[k].action = "RETRY" /\ policy[k].scheduledFor \in hours
                 /\ ScopeOfEvent(policy[k].eventId) = scope})

CapsBindWithinRun ==
  \A f \in ToSet(stream) :
    LET ever   == now - Window30d + 1 .. now + 2 * Window30d
        around == now - Window24h + 1 .. now + Window24h
    IN  /\ f.network = "visa" => RetriesOf(f.scopeKey, ever) <= VisaMax30d
        /\ f.network = "mastercard" => /\ RetriesOf(f.scopeKey, ever) <= McMax30d
                                       /\ RetriesOf(f.scopeKey, around) <= McMax24h

(***************************************************************************)
(* A run says it is degraded exactly when the published curve decided some *)
(* retry of it (scheduler.ts:10-11, the fallback is disclosed).            *)
(***************************************************************************)
FallbackDisclosed ==
  degraded <=> \E k \in DOMAIN policy : policy[k].modelVersion = FallbackVersion

(***************************************************************************)
(* A failure that has been replayed shows in both arms, at most three      *)
(* times in the baseline and twice in the policy; bootstrap/route.ts:24    *)
(* answers 500 to an empty arm.                                            *)
(***************************************************************************)
PointsOf(points, e) == Cardinality({k \in DOMAIN points : points[k].eventId = e})

EveryFailureShown ==
  \A k \in 1 .. at - 1 :
    /\ PointsOf(baseline, stream[k].eventId) \in 1 .. 3
    /\ PointsOf(policy, stream[k].eventId) \in 1 .. 2

(***************************************************************************)
(* The series the dashboard draws runs forward in time, never falls, and   *)
(* ends at the totals of the counters beside it (series.ts:11-14).         *)
(***************************************************************************)
SeriesEndsAtTotals ==
  stage = "done" =>
    LET series == RunToReplaySeries(baseline, policy)
        last   == Len(series)
    IN  /\ \A j, k \in DOMAIN series : j < k =>
             /\ series[j].bucket < series[k].bucket
             /\ series[j].baseline <= series[k].baseline
             /\ series[j].policy <= series[k].policy
        /\ RecoveredAmount(baseline) = IF last = 0 THEN 0 ELSE series[last].baseline
        /\ RecoveredAmount(policy) = IF last = 0 THEN 0 ELSE series[last].policy

(***************************************************************************)
(* The scheduler keeps its promise to the engine: one decision per payment *)
(* asked, all the model's or all the curve's, and always in the end.       *)
(***************************************************************************)
KeepsContract == Contract!Spec

(***************************************************************************)
(* However the sidecar fails or hangs, a replay comes to its end.          *)
(***************************************************************************)
ReplayFinishes == <>(stage = "done")
=============================================================================
