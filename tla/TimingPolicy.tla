---------------------------- MODULE TimingPolicy ----------------------------
(***************************************************************************)
(* The scoring sidecar's timing policy (scoring/policy.py): P(recover) of  *)
(* a payer at a moment, from the payer's propensity and published priors.  *)
(*                                                                         *)
(* Time is in hours, as in Calendar.  A probability is in permille, and so *)
(* is a combined factor: the clamp of P to [1e-4, 1 - 1e-4] lies below     *)
(* that resolution.                                                        *)
(***************************************************************************)
EXTENDS Calendar, FiniteSetsExt

DeclineFamily == {"soft", "review", "hard", "unknown"}

(* In hundredths, by 1-based attempt.                                      *)
AttemptFactor(attempt) ==
  LET published == <<100, 62, 38, 24, 15, 10>>
  IN  IF attempt \in DOMAIN published THEN published[attempt] ELSE 7

(* In twentieths.                                                          *)
HourFactor(t) ==
  CASE HourOf(t) \in 6 .. 11  -> 23
    [] HourOf(t) \in 12 .. 17 -> 20
    [] HourOf(t) \in 18 .. 22 -> 18
    [] OTHER                  -> 15

(* In tenths: on the pay cycle, in the last two days of the month, else.   *)
PaydayFactor(t) ==
  CASE DayOf(t) \in 1 .. 5 \cup {15, 16} -> 12
    [] DayOf(t) \in {29, 30}             -> 11
    [] OTHER                             -> 10

(* In hundredths: 0.85 to the power of the days past the tenth, whole ones. *)
RecencyFactor(failure, t) ==
  LET late  == (t - failure) \div 24 - 10
      decay == <<85, 72, 61, 52, 44>>
  IN  IF late < 1 THEN 100 ELSE IF late \in DOMAIN decay THEN decay[late] ELSE 40

(* In tenths.                                                              *)
FamilyFactor(family) ==
  CASE family = "soft" -> 11 [] family = "hard" -> 6 [] OTHER -> 10

(* The product of the factors, in permille.                                *)
TimingFactor(attempt, t, failure, family) ==
  (AttemptFactor(attempt) * HourFactor(t) * PaydayFactor(t)
     * RecencyFactor(failure, t) * FamilyFactor(family)) \div 20000

(* The factor multiplies the odds of the propensity.                       *)
CombineP(propensity, factor) ==
  (propensity * factor * 1000) \div (propensity * factor + (1000 - propensity) * 1000)

MomentP(propensity, attempt, t, failure, family) ==
  CombineP(propensity, TimingFactor(attempt, t, failure, family))
=============================================================================
