----------------------------- MODULE EvalTuner ------------------------------
(***************************************************************************)
(* The improvement loop (lib/eval/tuner.ts): from policy v1, each round    *)
(* grades the neighbours of the current parameters on the grid and adopts  *)
(* the best one if it is strictly better.                                  *)
(***************************************************************************)
EXTENDS EvalGrader

CONSTANT Rounds  (* TUNING_ROUNDS, 6.                                      *)

ASSUME RoundsAssumption == Rounds \in Nat \ {0}

VARIABLES
  stage,      (* Which grade is running, or "pick" between two, or "done". *)
  baselineMetrics,
  current, currentMetrics,      (* The adopted parameters and their grade. *)
  best, bestMetrics, improved,  (* Of this round, so far.                  *)
  todo,       (* Moves from current that are not graded yet.               *)
  records,    (* roundRecords.                                             *)
  grades      (* History: every policy grade the loop has made.            *)

roundVars == <<current, currentMetrics, best, bestMetrics, improved, todo, records>>
vars == <<corpus, gradeVars, stage, baselineMetrics, roundVars, grades>>

(***************************************************************************)
(* The moves of gridNeighbors, in its order: each key one step down or up. *)
(***************************************************************************)
Moves ==
  <<[key |-> "firstOffsetHours", delta |-> -1], [key |-> "firstOffsetHours", delta |-> 1],
    [key |-> "stepHours", delta |-> -1],        [key |-> "stepHours", delta |-> 1],
    [key |-> "paydaySnapDays", delta |-> -1],   [key |-> "paydaySnapDays", delta |-> 1]>>

IndexOf(key, value) == CHOOSE i \in DOMAIN ParamGrid[key] : ParamGrid[key][i] = value

MovesFrom(p) ==
  {m \in DOMAIN Moves :
     IndexOf(Moves[m].key, p[Moves[m].key]) + Moves[m].delta \in DOMAIN ParamGrid[Moves[m].key]}

Neighbour(p, m) ==
  LET key == Moves[m].key
  IN  [p EXCEPT ![key] = ParamGrid[key][IndexOf(key, p[key]) + Moves[m].delta]]

(***************************************************************************)
(* paramsKey compares as a string, "12|..." before "6|...": the values of  *)
(* each key in that order.                                                 *)
(***************************************************************************)
StringOrder ==
  [firstOffsetHours |-> <<12, 24, 48, 6>>,
   stepHours        |-> <<12, 24, 48, 72>>,
   paydaySnapDays   |-> <<0, 1, 14, 3, 7>>]

Rank(p, key) == CHOOSE i \in DOMAIN StringOrder[key] : StringOrder[key][i] = p[key]

KeyBefore(p, q) ==
  LET less(key) == Rank(p, key) < Rank(q, key)
      same(key) == p[key] = q[key]
  IN  \/ less("firstOffsetHours")
      \/ same("firstOffsetHours") /\ less("stepHours")
      \/ same("firstOffsetHours") /\ same("stepHours") /\ less("paydaySnapDays")

-----------------------------------------------------------------------------
Init ==
  /\ corpus \in Corpora
  /\ stage = "baseline"
  /\ InitGrade(PolicyV1)
  /\ baselineMetrics = EmptyMetrics
  /\ current = PolicyV1 /\ currentMetrics = EmptyMetrics
  /\ best = PolicyV1 /\ bestMetrics = EmptyMetrics /\ improved = FALSE
  /\ todo = {} /\ records = <<>> /\ grades = {}

(* The baseline's grade does not look at params.                           *)
GradeBaseline ==
  /\ stage = "baseline"
  /\ BaselineAttempt \/ StreamEnd
  /\ UNCHANGED <<corpus, stage, baselineMetrics, roundVars, grades>>

GradePolicy ==
  /\ stage \in {"first", "candidate"}
  /\ PolicyAttempt \/ PolicyStop \/ StreamEnd
  /\ UNCHANGED <<corpus, stage, baselineMetrics, roundVars, grades>>

BaselineGraded ==
  /\ stage = "baseline" /\ Graded
  /\ baselineMetrics' = metrics
  /\ BeginGrade(PolicyV1)
  /\ stage' = "first"
  /\ UNCHANGED <<corpus, roundVars, grades>>

(* A round closes: its parameters are on record, and the next one starts.  *)
OpenRound(p, m, better) ==
  /\ records' = Append(records, [params |-> p, metrics |-> m, improved |-> better])
  /\ current' = p /\ currentMetrics' = m
  /\ best' = p /\ bestMetrics' = m /\ improved' = FALSE
  /\ IF Len(records) + 1 = Rounds THEN stage' = "done" /\ todo' = {}
     ELSE stage' = "pick" /\ todo' = MovesFrom(p)

Note == grades' = grades \cup {[params |-> params, metrics |-> metrics]}

FirstGraded ==
  /\ stage = "first" /\ Graded
  /\ OpenRound(params, metrics, FALSE)
  /\ Note
  /\ UNCHANGED <<corpus, gradeVars, baselineMetrics>>

PickCandidate ==
  /\ stage = "pick"
  /\ \E m \in todo :
       /\ \A n \in todo : m <= n
       /\ todo' = todo \ {m}
       /\ BeginGrade(Neighbour(current, m))
  /\ stage' = "candidate"
  /\ UNCHANGED <<corpus, baselineMetrics, current, currentMetrics, best, bestMetrics,
                 improved, records, grades>>

(* Mutants of Wins: an equal grade is enough; ties never change the pick.  *)
WinsTies == Objective(metrics) >= Objective(bestMetrics)

WinsOutright == Objective(metrics) > Objective(bestMetrics)

Wins ==
  \/ Objective(metrics) > Objective(bestMetrics)
  \/ /\ Objective(metrics) = Objective(bestMetrics)
     /\ improved
     /\ KeyBefore(params, best)

CandidateGraded ==
  /\ stage = "candidate" /\ Graded
  /\ IF Wins THEN best' = params /\ bestMetrics' = metrics /\ improved' = TRUE
     ELSE UNCHANGED <<best, bestMetrics, improved>>
  /\ stage' = "pick"
  /\ Note
  /\ UNCHANGED <<corpus, gradeVars, baselineMetrics, current, currentMetrics, todo, records>>

(* Mutant of CloseRound: improved means better than the first round.       *)
CloseRoundVsFirst ==
  /\ stage = "pick" /\ todo = {}
  /\ OpenRound(best, bestMetrics,
               Objective(bestMetrics) > Objective(records[1].metrics))
  /\ UNCHANGED <<corpus, gradeVars, baselineMetrics, grades>>

CloseRound ==
  /\ stage = "pick" /\ todo = {}
  /\ OpenRound(best, bestMetrics,
               Objective(bestMetrics) > Objective(records[Len(records)].metrics))
  /\ UNCHANGED <<corpus, gradeVars, baselineMetrics, grades>>

Next ==
  \/ GradeBaseline \/ GradePolicy
  \/ BaselineGraded \/ FirstGraded \/ PickCandidate \/ CandidateGraded \/ CloseRound

Spec == Init /\ [][Next]_vars

-----------------------------------------------------------------------------
(***************************************************************************)
(* What the loop can hold: parameters stay on the grid.                    *)
(***************************************************************************)
Metrics ==
  [recoveredCount : Nat, retryableCount : Nat, complianceViolations : Nat,
   penaltyFeeMinor : Nat, recoveredAmountMinor : Nat]

TypeOK ==
  /\ stage \in {"baseline", "first", "pick", "candidate", "done"}
  /\ params \in Params /\ current \in Params /\ best \in Params
  /\ stream \in Nat \ {0} /\ failure \in Nat \ {0} /\ retry \in 0 .. 2
  /\ executed \in Seq([scopeKey : ScopeKeys, ts : Int])
  /\ {metrics, baselineMetrics, currentMetrics, bestMetrics} \subseteq Metrics
  /\ improved \in BOOLEAN
  /\ todo \subseteq MovesFrom(current)
  /\ records \in Seq([params : Params, metrics : Metrics, improved : BOOLEAN])

(***************************************************************************)
(* The policy arm never runs into a penalty fee, whatever the parameters:  *)
(* what the guardrail lets through is below the networks' own thresholds   *)
(* (grader.ts:90-91; policy violations of the 24 h rule cost no fee).      *)
(***************************************************************************)
PolicyPaysNoFee ==
  /\ stage \in {"first", "candidate"} => metrics.penaltyFeeMinor = 0
  /\ \A i \in DOMAIN records : records[i].metrics.penaltyFeeMinor = 0

(***************************************************************************)
(* The policy recovers a failure at most once and only a retryable one, so *)
(* its recovery rate stays within the artifact's 0..1 (artifact.ts:23);    *)
(* outside it, the run would throw.                                        *)
(***************************************************************************)
RecoveredAreRetryable ==
  /\ stage \in {"first", "candidate"} => metrics.recoveredCount <= metrics.retryableCount
  /\ \A i \in DOMAIN records :
       records[i].metrics.recoveredCount <= records[i].metrics.retryableCount

(***************************************************************************)
(* A round either improves, changing the parameters and raising the        *)
(* objective, or changes nothing and says so (tuner.ts:17-21).             *)
(***************************************************************************)
RoundsOnlyImprove ==
  \A i \in DOMAIN records \ {1} :
    LET last == records[i - 1]
        now  == records[i]
    IN  \/ /\ now.improved /\ now.params # last.params
           /\ Objective(now.metrics) > Objective(last.metrics)
        \/ /\ ~ now.improved
           /\ now.params = last.params /\ now.metrics = last.metrics

(***************************************************************************)
(* What a round ends with is at least as good as every neighbour of what   *)
(* it began with, and the first in string order among the best ones: the   *)
(* order they were graded in does not matter (tuner.ts:77-79).             *)
(***************************************************************************)
RoundTakesBestNeighbour ==
  \A i \in DOMAIN records \ {1} : \A m \in MovesFrom(records[i - 1].params) :
    LET p == Neighbour(records[i - 1].params, m)
    IN  \E g \in grades :
          /\ g.params = p
          /\ Objective(g.metrics) <= Objective(records[i].metrics)
          /\ Objective(g.metrics) = Objective(records[i].metrics) /\ records[i].improved
               => ~ KeyBefore(p, records[i].params)

(***************************************************************************)
(* Grading the same parameters twice gives the same metrics (policy.ts:15, *)
(* "every candidate evaluation is a deterministic replay").                *)
(***************************************************************************)
GradesReproducible ==
  \A g, h \in grades : g.params = h.params => g.metrics = h.metrics

(***************************************************************************)
(* Once a round changes nothing, no later round does: the search has come  *)
(* to its end and further rounds are idle.                                 *)
(***************************************************************************)
StallIsFinal ==
  \A i, j \in DOMAIN records \ {1} :
    i < j /\ ~ records[i].improved => records[j].params = records[i].params
=============================================================================
