--------------------------- MODULE EvalSimulator ----------------------------
(***************************************************************************)
(* The adversarial corpus of the eval loop (lib/eval/simulator.ts): five   *)
(* streams of synthetic failures, each with the truth about when and how   *)
(* likely it is cured.                                                     *)
(*                                                                         *)
(* What a seed makes the generator roll for one failure is a roll, any     *)
(* member of Rolls; the SHA-256 draws of its three retries belong to it.   *)
(* Times are in hours, propensities, probabilities and draws in permille.  *)
(***************************************************************************)
EXTENDS Calendar, Sequences, Triage

CONSTANTS
  Rolls,    (* What may be rolled for one failure.                         *)
  Failures  (* How many failures of each kind: 28, 18, 20, 12, 24.         *)

Roll ==
  [network : {"visa", "mastercard"},
   day : 0 .. 27, hour : 0 .. 20,  (* Of the failure, past the cadence.    *)
   cureHours : Nat,   (* Hours until the funds are there.                  *)
   hardClass : DeclineClass, propensity : 0 .. 920, amountMinor : Nat,
   draws : Seq(0 .. 999)]

ScopeKeys == {"pd", "trap", "cap", "ho", "ten"} \X Nat \X Network

ASSUME FailuresAssumption ==
  {Failures.paydayTiming, Failures.penaltyTrap, Failures.capExceed,
   Failures.hostileOrdering, Failures.mixedTenure} \subseteq Nat

ASSUME RollAssumption ==
  \A r \in Rolls :
    /\ r \in Roll /\ Len(r.draws) = 3
    /\ TriageAction(r.network, r.hardClass) # "RETRY_SOFT"

-----------------------------------------------------------------------------
(***************************************************************************)
(* The outcome model: a retry recovers best within 48 h of the cure, half  *)
(* as well until day five, hardly at all otherwise, and less each time.    *)
(***************************************************************************)
AlignmentFactor(t, cureAt) ==
  CASE t \in cureAt .. cureAt + 48       -> 100
    [] t \in cureAt + 49 .. cureAt + 120 -> 50
    [] OTHER                             -> 12

AttemptDecay(k) == CASE k = 0 -> 100 [] k = 1 -> 60 [] k = 2 -> 36 [] OTHER -> 20

(* Clamped to [0.001, 0.99].                                               *)
PRecoverAt(failure, k, t) ==
  LET p == (failure.propensity * AttemptDecay(k) * AlignmentFactor(t, failure.cureAt))
             \div 10000
  IN  IF p < 1 THEN 1 ELSE IF p > 990 THEN 990 ELSE p

-----------------------------------------------------------------------------
(* makeFailure: what must not be retried automatically never cures.        *)
MakeFailure(roll, scopeKey, network, class, ts, cureAt) ==
  [scopeKey |-> scopeKey, network |-> network, class |-> class, ts |-> ts,
   cureAt |-> cureAt, amountMinor |-> roll.amountMinor, draws |-> roll.draws,
   propensity |-> IF TriageAction(network, class) = "RETRY_SOFT" THEN roll.propensity ELSE 0]

SoftClass(network) == IF network = "mastercard" THEN "mac02" ELSE "cat23"

OwnScope(kind, i, network) == <<kind, i, network>>

NextPaydayAfter(t) ==
  CHOOSE p \in PaydaysNear(t) : p > t /\ \A q \in PaydaysNear(t) : q > t => p <= q

(* Soft declines that cure on the next payday morning.                     *)
PaydayTimingStream(rolls) ==
  [i \in DOMAIN rolls |->
     LET ts == 24 * rolls[i].day + rolls[i].hour
     IN  MakeFailure(rolls[i], OwnScope("pd", i, rolls[i].network), rolls[i].network,
                     SoftClass(rolls[i].network), ts, NextPaydayAfter(ts))]

(* Nothing but codes that must not be retried.                             *)
PenaltyTrapStream(rolls) ==
  [i \in DOMAIN rolls |->
     MakeFailure(rolls[i], OwnScope("trap", i, rolls[i].network), rolls[i].network,
                 rolls[i].hardClass, 62 + (i - 1) * rolls[i].hour,
                 62 + (i - 1) * rolls[i].hour + rolls[i].cureHours)]

(* One Visa scope that fails day after day.                                *)
CapExceedStream(rolls) ==
  [i \in DOMAIN rolls |->
     LET ts == 34 + 24 * (i - 1) + rolls[i].hour
     IN  MakeFailure(rolls[i], OwnScope("cap", 0, "visa"), "visa", "cat23", ts, ts + 48)]

(* A hard decline and then a soft one of the same scope, every second day. *)
HardRolls == {r \in Rolls : TriageAction(r.network, r.hardClass) = "NEVER_RETRY_HARD"}

HostileOrderingStream(rolls) ==
  [j \in DOMAIN rolls |->
     LET i       == (j + 1) \div 2
         network == rolls[2 * i - 1].network
         scope   == OwnScope("ho", i, network)
         first   == 104 + 48 * (i - 1)
     IN  IF j % 2 = 1
         THEN MakeFailure(rolls[j], scope, network, rolls[j].hardClass, first,
                          first + rolls[j].cureHours)
         ELSE MakeFailure(rolls[j], scope, network, SoftClass(network),
                          first + rolls[j].hour, first + 72)]

(* Soft declines of payers whose tenure makes their propensity.            *)
MixedTenureStream(rolls) ==
  [i \in DOMAIN rolls |->
     LET ts == 180 + 24 * rolls[i].day + rolls[i].hour
     IN  MakeFailure(rolls[i], OwnScope("ten", i, rolls[i].network), rolls[i].network,
                     SoftClass(rolls[i].network), ts, ts + rolls[i].cureHours)]

Corpora ==
  {<<PaydayTimingStream(pd), PenaltyTrapStream(trap), CapExceedStream(cap),
     HostileOrderingStream(ho), MixedTenureStream(ten)>> :
     pd   \in [1 .. Failures.paydayTiming -> Rolls],
     trap \in [1 .. Failures.penaltyTrap -> Rolls],
     cap  \in [1 .. Failures.capExceed -> Rolls],
     ho   \in [1 .. 2 * Failures.hostileOrdering -> HardRolls],
     ten  \in [1 .. Failures.mixedTenure -> Rolls]}
=============================================================================
