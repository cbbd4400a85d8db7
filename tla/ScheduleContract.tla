-------------------------- MODULE ScheduleContract --------------------------
(***************************************************************************)
(* What scheduleRetry promises its callers: every payment it is asked      *)
(* about gets one decision, and the decision is either the model's in all  *)
(* of its fields or the published curve's in all of its fields.            *)
(***************************************************************************)
EXTENDS Integers

CONSTANTS
  Payments,         (* The payments callers may ask about.                 *)
  ModelDecisions(_),(* What the model may answer for a payment.            *)
  CurveDecision(_), (* What the published curve answers.                   *)
  NoPayment, NoSchedule

VARIABLES asked, schedule

Init == asked = NoPayment /\ schedule = NoSchedule

Ask ==
  /\ asked = NoPayment \/ schedule # NoSchedule
  /\ asked' \in Payments
  /\ schedule' = NoSchedule

Decide ==
  /\ asked # NoPayment /\ schedule = NoSchedule
  /\ schedule' \in ModelDecisions(asked) \cup {CurveDecision(asked)}
  /\ UNCHANGED asked

Next == Ask \/ Decide

(* The scheduler decides; callers need not ask.                            *)
Spec == Init /\ [][Next]_<<asked, schedule>> /\ WF_<<asked, schedule>>(Decide)
=============================================================================
