---------------------------- MODULE MCDashboard -----------------------------
(***************************************************************************)
(* Model-checking instance of Dashboard: this page and one other client.   *)
(* Two of the event lists have the same failure ids and thus one run id.   *)
(***************************************************************************)
EXTENDS Dashboard

DemoFailures == [ids |-> "demo", rest |-> "seed"]

Lists == {DemoFailures, [ids |-> "demo", rest |-> "edited"]}
=============================================================================
