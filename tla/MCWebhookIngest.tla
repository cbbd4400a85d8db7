-------------------------- MODULE MCWebhookIngest ---------------------------
(***************************************************************************)
(* Model-checking instances of WebhookIngest: the functions its cfgs give  *)
(* to the constants.                                                       *)
(***************************************************************************)
EXTENDS WebhookIngest

CONSTANTS e1, e2, e3, in_a, in_b, in_c, r1, r2, p1, p2

(* Every event about an invoice of its own, or all about one.              *)
DistinctInvoices ==
  [e \in Events |-> CASE e = e1 -> in_a [] e = e2 -> in_b [] OTHER -> in_c]

SharedInvoice == [e \in Events |-> in_a]

(* One customer paying with one Visa card.                                 *)
OneScope == [e \in Events |-> "cus:visa"]

AllMastercard == [e \in Events |-> "cus:mastercard"]

Networks ==
  [s \in {"cus:visa", "cus:mastercard"} |->
     IF s = "cus:visa" THEN "visa" ELSE "mastercard"]

OneProcess == [h \in Requests |-> p1]

TwoProcesses == [h \in Requests |-> IF h = r1 THEN p1 ELSE p2]

(* Two replicas of the BFF are interchangeable, each with its request.     *)
SwapReplicas ==
  {[x \in {r1, r2, p1, p2} |-> x],
   [x \in {r1, r2, p1, p2} |->
      CASE x = r1 -> r2 [] x = r2 -> r1 [] x = p1 -> p2 [] OTHER -> p1]}
=============================================================================
