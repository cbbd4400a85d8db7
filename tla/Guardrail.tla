----------------------------- MODULE Guardrail ------------------------------
(***************************************************************************)
(* The compliance guardrail of lib/compliance/guardrail.ts: may one more   *)
(* retry of a scope be scheduled, given the attempts on record for it?     *)
(*                                                                         *)
(* A history is a function whose values are attempts [scopeKey, ts]; what  *)
(* its domain is (positions of an array, payment ids) does not matter, and *)
(* two attempts at one moment count twice.                                 *)
(***************************************************************************)
EXTENDS Integers, FiniteSets

CONSTANTS
  VisaMax30d,  (* VISA_MAX_REATTEMPTS_30D, 15 in the code.                 *)
  McMax24h,    (* MC_MAX_RETRIES_24H, 10.                                  *)
  McMax30d,    (* MC_MAX_RETRIES_30D, 35.                                  *)
  Window30d,   (* THIRTY_DAYS_MS, in ticks of the model's clock.           *)
  Window24h    (* TWENTY_FOUR_HOURS_MS, likewise.                          *)

ASSUME CapAssumption ==
  /\ {VisaMax30d, McMax24h, McMax30d, Window30d, Window24h} \subseteq Nat \ {0}
  /\ Window24h < Window30d

(* Attempts of the scope inside (from, +inf) and (from, to].               *)
CountAfter(history, scopeKey, from) ==
  Cardinality({k \in DOMAIN history :
                 history[k].scopeKey = scopeKey /\ history[k].ts > from})

CountWithin(history, scopeKey, from, to) ==
  Cardinality({k \in DOMAIN history :
                 /\ history[k].scopeKey = scopeKey
                 /\ history[k].ts > from
                 /\ history[k].ts <= to})

(* Mutant of OverVisaCap: one attempt too many.                            *)
PastVisaCap(p, history) ==
  /\ p.network = "visa"
  /\ CountAfter(history, p.scopeKey, p.now - Window30d) > VisaMax30d

OverVisaCap(p, history) ==
  /\ p.network = "visa"
  /\ CountAfter(history, p.scopeKey, p.now - Window30d) >= VisaMax30d

(* Mutant of OverMc24hCap: the same with Mastercard.                       *)
PastMc24hCap(p, history) ==
  /\ p.network = "mastercard"
  /\ CountWithin(history, p.scopeKey, p.now - Window24h, p.now + Window24h) > McMax24h

OverMc24hCap(p, history) ==
  /\ p.network = "mastercard"
  /\ CountWithin(history, p.scopeKey, p.now - Window24h, p.now + Window24h) >= McMax24h

OverMc30dCap(p, history) ==
  /\ p.network = "mastercard"
  /\ CountAfter(history, p.scopeKey, p.now - Window30d) >= McMax30d

(***************************************************************************)
(* evaluateScheduleProposal's verdict.  It depends on the proposal's now,  *)
(* never on the moment the retry is proposed for.                          *)
(***************************************************************************)
Allowed(p, history) ==
  /\ p.triageAction = "RETRY_SOFT"
  /\ ~ OverVisaCap(p, history)
  /\ ~ OverMc24hCap(p, history)
  /\ ~ OverMc30dCap(p, history)
=============================================================================
