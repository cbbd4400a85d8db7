--------------------------- MODULE RetryScheduler ---------------------------
(***************************************************************************)
(* scheduleRetry (lib/scheduler/scheduler.ts) and its client               *)
(* (lib/scoring/client.ts): the candidate moments of a payment are scored  *)
(* by parallel calls to the sidecar.  When all have answered, the best one *)
(* is scheduled; when the first one fails (refused, timed out, answered    *)
(* with garbage), the published curve decides at once and what the other   *)
(* calls answer later is ignored.                                          *)
(***************************************************************************)
EXTENDS ScoringSidecar, Sequences

CONSTANTS
  CandidateOffsets,  (* CANDIDATE_OFFSET_HOURS, 6 24 48 72 120.            *)
  Payments,          (* What the scheduler may be asked about.             *)
  NoPayment, NoSchedule

VARIABLES
  asked,    (* The payment being scheduled, or the last one.               *)
  waiting,  (* Candidates whose call has not returned.                     *)
  scores,   (* Candidate to score, of those whose call has.                *)
  schedule  (* The decision on asked, once taken.                          *)

schedulerVars == <<asked, waiting, scores, schedule>>

Candidates == DOMAIN CandidateOffsets

PublishedCurve == <<380, 240, 150, 90, 50>>

CurveP(attempt) == PublishedCurve[Min({attempt, Len(PublishedCurve)})]

FallbackVersion == "published-curve-fallback-v1"

ASSUME SchedulerAssumption ==
  /\ CandidateOffsets \in Seq(Nat) \ {<<>>}
  /\ Payments \subseteq [ts : Nat, attempt : Nat \ {0}, family : DeclineFamily]
  /\ NoPayment \notin Payments
  /\ PinnedVersion # FallbackVersion

FallbackSchedule(payment) ==
  [scheduledFor |-> payment.ts + (IF payment.attempt <= 2 THEN 24 ELSE 72),
   pRecover |-> CurveP(payment.attempt), modelVersion |-> FallbackVersion,
   degraded |-> TRUE]

InitScheduler ==
  /\ asked = NoPayment
  /\ waiting = {}
  /\ scores = <<>>
  /\ schedule = NoSchedule

(* Mutant of Ask: the decision on the last payment is kept.                *)
AskAgain(payment) ==
  /\ asked' = payment
  /\ waiting' = Candidates
  /\ scores' = <<>>
  /\ UNCHANGED schedule

Ask(payment) ==
  /\ asked' = payment
  /\ waiting' = Candidates
  /\ scores' = <<>>
  /\ schedule' = NoSchedule

CandidateEvent(i) == [asked EXCEPT !.ts = @ + CandidateOffsets[i]]

(* Mutant of BestOf: a tie goes to the latest of the best.                 *)
LatestBestOf(answers) ==
  CHOOSE i \in Candidates :
    /\ \A j \in Candidates : answers[j].p <= answers[i].p
    /\ \A j \in Candidates : j > i => answers[j].p < answers[i].p

(* The reduce replaces its pick only by a strictly better one.             *)
BestOf(answers) ==
  CHOOSE i \in Candidates :
    /\ \A j \in Candidates : answers[j].p <= answers[i].p
    /\ \A j \in Candidates : j < i => answers[j].p < answers[i].p

ModelSchedule(answers) ==
  LET best == BestOf(answers)
  IN  [scheduledFor |-> asked.ts + CandidateOffsets[best], pRecover |-> answers[best].p,
       modelVersion |-> answers[best].modelVersion, degraded |-> FALSE]

ScoreArrives(i) ==
  /\ i \in waiting
  /\ Available /\ Scorable(asked)
  /\ GetBundle
  /\ waiting' = waiting \ {i}
  /\ scores' = [j \in DOMAIN scores \cup {i} |->
                  IF j = i THEN ScoreOf(Served, CandidateEvent(i)) ELSE scores[j]]
  /\ schedule' = IF waiting' = {} THEN ModelSchedule(scores') ELSE NoSchedule
  /\ UNCHANGED asked

(* Mutant of Degrade: the best answer so far, under the curve's name.      *)
DegradeToBestSoFar ==
  /\ waiting' = {}
  /\ schedule' = IF scores = <<>> THEN FallbackSchedule(asked)
                 ELSE [FallbackSchedule(asked) EXCEPT
                         !.pRecover = Max({scores[i].p : i \in DOMAIN scores})]
  /\ UNCHANGED <<asked, scores>>

Degrade ==
  /\ waiting' = {}
  /\ schedule' = FallbackSchedule(asked)
  /\ UNCHANGED <<asked, scores>>

(* No model (503) or an attempt beyond the limit (500).                    *)
ScoreRefused(i) ==
  /\ i \in waiting
  /\ ~ (Available /\ Scorable(asked))
  /\ Degrade
  /\ UNCHANGED sidecarVars

(* Mutant of CallFails: fetch without AbortSignal.timeout.                 *)
CallFailsUntimed(i) ==
  /\ i \in waiting
  /\ ~ Available
  /\ Degrade
  /\ UNCHANGED sidecarVars

(* The network fails, the answer is garbage, or SCORE_TIMEOUT_MS is over.  *)
CallFails(i) ==
  /\ i \in waiting
  /\ Degrade
  /\ UNCHANGED sidecarVars

SchedulerStep ==
  \E i \in Candidates : ScoreArrives(i) \/ ScoreRefused(i) \/ CallFails(i)

(***************************************************************************)
(* The timer of a call fires if nothing else ends the call; the sidecar    *)
(* owes nobody an answer.                                                  *)
(***************************************************************************)
SchedulerFairness ==
  \A i \in Candidates : WF_<<schedulerVars, sidecarVars>>(CallFails(i))

-----------------------------------------------------------------------------
ModelDecisions(payment) ==
  [scheduledFor : {payment.ts + CandidateOffsets[i] : i \in Candidates},
   pRecover : 0 .. 1000, modelVersion : {PinnedVersion}, degraded : {FALSE}]

ASSUME NoScheduleAssumption ==
  \A payment \in Payments :
    NoSchedule \notin ModelDecisions(payment) \cup {FallbackSchedule(payment)}

Contract ==
  INSTANCE ScheduleContract WITH CurveDecision <- FallbackSchedule

(***************************************************************************)
(* A model's decision is the first of the best of all its candidates, none *)
(* missing, and every score it compared came from an artifact that records *)
(* the pinned version (model_registry.py:62, "must never silently serve an *)
(* unpinned or mismatched model").                                         *)
(***************************************************************************)
ModelDecided == schedule # NoSchedule /\ ~ schedule.degraded

FirstOfTheBest ==
  ModelDecided =>
    /\ DOMAIN scores = Candidates
    /\ \E i \in Candidates :
         /\ schedule.scheduledFor = asked.ts + CandidateOffsets[i]
         /\ \A j \in Candidates : scores[j].p <= schedule.pRecover
         /\ \A j \in Candidates : j < i => scores[j].p < schedule.pRecover

OnlyPinnedModelScores ==
  \A i \in DOMAIN scores : scores[i].bundle.recorded = PinnedVersion
=============================================================================
