------------------------------- MODULE Triage -------------------------------
(***************************************************************************)
(* The triage rules of lib/triage/rules.ts: decline code and card network  *)
(* to the action that may follow.                                          *)
(*                                                                         *)
(* A decline code is represented by the class the code tables put it in:   *)
(* VISA_CAT1_CODES, VISA_CAT23_CODES, ASK_CUSTOMER_CODES, a Mastercard     *)
(* Merchant Advice Code (one class per outcome), or none of these.         *)
(***************************************************************************)

Network == {"visa", "mastercard", "other"}

MerchantAdvice == {"mac01", "mac02", "mac0321"}

DeclineClass == {"cat1", "cat23", "ask", "unlisted"} \cup MerchantAdvice

(* Advice codes are read only on Mastercard; Visa Category 1 only on Visa. *)
HardDecline(network, class) ==
  \/ network = "mastercard" /\ class = "mac0321"
  \/ network = "visa" /\ class = "cat1"

(***************************************************************************)
(* Categories 2/3 are retryable on every network but Mastercard, where     *)
(* only advice code 02 is.                                                 *)
(***************************************************************************)
SoftDecline(network, class) ==
  \/ network = "mastercard" /\ class = "mac02"
  \/ network # "mastercard" /\ class = "cat23"

TriageAction(network, class) ==
  IF HardDecline(network, class) THEN "NEVER_RETRY_HARD"
  ELSE IF SoftDecline(network, class) THEN "RETRY_SOFT"
  ELSE "ASK_CUSTOMER"
=============================================================================
