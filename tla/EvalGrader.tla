----------------------------- MODULE EvalGrader -----------------------------
(***************************************************************************)
(* The grader of the eval loop (lib/eval/grader.ts): one arm retries every *)
(* failure of every stream of the corpus, and is graded on what it         *)
(* recovers, what rules it breaks and what fees that costs.  One attempt   *)
(* of the arm is one step.                                                 *)
(***************************************************************************)
EXTENDS EvalSimulator, EvalPolicy, Guardrail

CONSTANTS
  VisaRafCap30d, McTpeCap30d, McTpeCap24h,  (* 15, 35 and 10 in the code.  *)
  FeeHardDeclineRetry, FeeVisaRaf, FeeMcTpe (* In minor units.             *)

ASSUME FeeAssumption ==
  /\ {VisaRafCap30d, McTpeCap30d, McTpeCap24h} \subseteq Nat
  /\ {FeeHardDeclineRetry, FeeVisaRaf, FeeMcTpe} \subseteq Nat
  /\ VisaMax30d <= VisaRafCap30d /\ McMax30d <= McTpeCap30d

VARIABLES
  corpus,    (* The streams, the same for every grade.                     *)
  params,    (* The parameters the policy arm is graded with.              *)
  stream, failure, retry,  (* Where the arm stands; retries from 0.        *)
  executed,  (* The attempts executed in this stream, of all scopes.       *)
  metrics    (* Of the arm so far, summed over the streams.                *)

gradeVars == <<params, stream, failure, retry, executed, metrics>>

EmptyMetrics ==
  [recoveredCount |-> 0, retryableCount |-> 0, complianceViolations |-> 0,
   penaltyFeeMinor |-> 0, recoveredAmountMinor |-> 0]

Objective(m) == m.recoveredAmountMinor - m.penaltyFeeMinor

InitGrade(arm) ==
  /\ params = arm
  /\ stream = 1 /\ failure = 1 /\ retry = 0
  /\ executed = <<>>
  /\ metrics = EmptyMetrics

(* Mutant of BeginGrade: the metrics of the last grade are added to.       *)
BeginGradeKeeping(arm) ==
  /\ params' = arm
  /\ stream' = 1 /\ failure' = 1 /\ retry' = 0
  /\ executed' = <<>>
  /\ UNCHANGED metrics

BeginGrade(arm) ==
  /\ params' = arm
  /\ stream' = 1 /\ failure' = 1 /\ retry' = 0
  /\ executed' = <<>>
  /\ metrics' = EmptyMetrics

Graded == stream > Len(corpus)

Standing == ~ Graded /\ failure <= Len(corpus[stream])

Failing == corpus[stream][failure]

-----------------------------------------------------------------------------
(***************************************************************************)
(* executionCost: the rules an attempt at moment t breaks, given what was  *)
(* executed for the scope, and the fees.                                   *)
(***************************************************************************)
One(condition) == IF condition THEN 1 ELSE 0

HardRetry(f) == TriageAction(f.network, f.class) = "NEVER_RETRY_HARD"

PastVisaRaf(f, t) ==
  f.network = "visa" /\ CountAfter(executed, f.scopeKey, t - Window30d) >= VisaRafCap30d

PastMcTpe30d(f, t) ==
  f.network = "mastercard" /\ CountAfter(executed, f.scopeKey, t - Window30d) >= McTpeCap30d

PastMcTpe24h(f, t) ==
  f.network = "mastercard" /\ CountAfter(executed, f.scopeKey, t - Window24h) >= McTpeCap24h

Violations(f, t) ==
  One(HardRetry(f)) + One(PastVisaRaf(f, t)) + One(PastMcTpe30d(f, t))
    + One(PastMcTpe24h(f, t))

Fee(f, t) ==
  (IF HardRetry(f) THEN FeeHardDeclineRetry ELSE 0)
    + (IF PastVisaRaf(f, t) THEN FeeVisaRaf ELSE 0)
    + (IF PastMcTpe30d(f, t) THEN FeeMcTpe ELSE 0)

-----------------------------------------------------------------------------
(* A failure is counted as retryable when the arm first stands before it.  *)
NewlyRetryable(f) == One(retry = 0 /\ TriageAction(f.network, f.class) = "RETRY_SOFT")

(* Mutant of NextFailure: the retry count goes on.                         *)
NextFailureCounting == failure' = failure + 1 /\ retry' = retry + 1

NextFailure == failure' = failure + 1 /\ retry' = 0

(* Mutant of Execute: a recovered failure is retried to the end.           *)
ExecuteAll(f, t) ==
  LET recovered == f.draws[retry + 1] < PRecoverAt(f, retry, t)
  IN  /\ metrics' = [metrics EXCEPT
           !.recoveredCount = @ + One(recovered),
           !.retryableCount = @ + NewlyRetryable(f),
           !.complianceViolations = @ + Violations(f, t),
           !.penaltyFeeMinor = @ + Fee(f, t),
           !.recoveredAmountMinor = @ + (IF recovered THEN f.amountMinor ELSE 0)]
      /\ executed' = Append(executed, [scopeKey |-> f.scopeKey, ts |-> t])
      /\ IF retry = 2 THEN NextFailure ELSE retry' = retry + 1 /\ UNCHANGED failure
      /\ UNCHANGED <<params, stream>>

Execute(f, t) ==
  LET recovered == f.draws[retry + 1] < PRecoverAt(f, retry, t)
  IN  /\ metrics' = [metrics EXCEPT
           !.recoveredCount = @ + One(recovered),
           !.retryableCount = @ + NewlyRetryable(f),
           !.complianceViolations = @ + Violations(f, t),
           !.penaltyFeeMinor = @ + Fee(f, t),
           !.recoveredAmountMinor = @ + (IF recovered THEN f.amountMinor ELSE 0)]
      /\ executed' = Append(executed, [scopeKey |-> f.scopeKey, ts |-> t])
      /\ IF recovered \/ retry = 2 THEN NextFailure
         ELSE retry' = retry + 1 /\ UNCHANGED failure
      /\ UNCHANGED <<params, stream>>

(* The baseline ignores decline codes and caps.                            *)
BaselineAttempt ==
  /\ Standing
  /\ Execute(Failing, Failing.ts + <<24, 72, 168>>[retry + 1])

(* The guardrail looks around the failure, not around the moment proposed. *)
MayExecute(f) ==
  Allowed([scopeKey |-> f.scopeKey, network |-> f.network,
           triageAction |-> TriageAction(f.network, f.class), now |-> f.ts], executed)

PolicyAttempt ==
  /\ Standing
  /\ MayExecute(Failing)
  /\ Execute(Failing, CandidateMoment(Failing.ts, params, retry))

(* Not retryable, or the budget is spent.                                  *)
PolicyStop ==
  /\ Standing
  /\ ~ MayExecute(Failing)
  /\ metrics' = [metrics EXCEPT !.retryableCount = @ + NewlyRetryable(Failing)]
  /\ NextFailure
  /\ UNCHANGED <<params, stream, executed>>

StreamEnd ==
  /\ ~ Graded /\ failure > Len(corpus[stream])
  /\ stream' = stream + 1 /\ failure' = 1 /\ retry' = 0
  /\ executed' = <<>>
  /\ UNCHANGED <<params, metrics>>
=============================================================================
