----------------------------- MODULE EvalPolicy -----------------------------
(***************************************************************************)
(* The timing policy the eval loop tunes (lib/eval/policy.ts): three       *)
(* numbers on a fixed grid, and the retry moments they give a failure.     *)
(***************************************************************************)
EXTENDS Calendar, Sequences

ParamGrid ==
  [firstOffsetHours |-> <<6, 12, 24, 48>>,
   stepHours        |-> <<12, 24, 48, 72>>,
   paydaySnapDays   |-> <<0, 1, 3, 7, 14>>]

OnGrid(key) == {ParamGrid[key][i] : i \in DOMAIN ParamGrid[key]}

Params ==
  [firstOffsetHours : OnGrid("firstOffsetHours"), stepHours : OnGrid("stepHours"),
   paydaySnapDays : OnGrid("paydaySnapDays")]

PolicyV1 == [firstOffsetHours |-> 24, stepHours |-> 72, paydaySnapDays |-> 0]

(* The first payday at or after t.                                         *)
FirstPaydayFrom(t) ==
  CHOOSE p \in PaydaysNear(t) : p >= t /\ \A q \in PaydaysNear(t) : q >= t => p <= q

(***************************************************************************)
(* Whatever moment is asked for, it becomes the payday when one lies       *)
(* within snapDays after the failure: all three retries of such a failure  *)
(* fall on one moment.                                                     *)
(***************************************************************************)
SnapToPayday(t, failure, snapDays) ==
  LET payday == FirstPaydayFrom(failure)
  IN  IF snapDays > 0 /\ payday > failure /\ payday <= failure + 24 * snapDays
      THEN payday ELSE t

(* candidateMomentsMs, by the 0-based retry.                               *)
CandidateMoment(failure, params, k) ==
  SnapToPayday(failure + params.firstOffsetHours + k * params.stepHours,
               failure, params.paydaySnapDays)
=============================================================================
