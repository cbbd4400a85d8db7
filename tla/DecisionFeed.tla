---------------------------- MODULE DecisionFeed ----------------------------
(***************************************************************************)
(* What the dashboard can count on of the decision store (DecisionStore in *)
(* lib/stores/memory.ts): every decision saved shows in the feed at once,  *)
(* and the feed holds at most Limit payments, in the order in which they   *)
(* were first decided.  Deciding a payment again changes its record where  *)
(* it stands, and shows nowhere if the payment has dropped out.  This is   *)
(* less than the "Newest first" of memory.ts:57, which no store keeps:     *)
(* see NewestFirst in Dashboard.                                           *)
(***************************************************************************)
EXTENDS Integers, Sequences

CONSTANTS Payments, Decisions, Limit

VARIABLES
  decided,  (* Every decision saved, in the order of the saves.            *)
  feed      (* What is listed.                                             *)

Init == decided = <<>> /\ feed = <<>>

Occurs(p, s) == \E i \in DOMAIN s : s[i].paymentId = p

Upto(s) == SubSeq(s, 1, IF Len(s) < Limit THEN Len(s) ELSE Limit)

Decide(p, d) ==
  LET decision == [paymentId |-> p, record |-> d]
  IN  /\ decided' = Append(decided, decision)
      /\ \/ ~ Occurs(p, decided) /\ feed' = Upto(<<decision>> \o feed)
         \/ /\ Occurs(p, decided)
            /\ feed' = [i \in DOMAIN feed |->
                          IF feed[i].paymentId = p THEN decision ELSE feed[i]]

Next == \E p \in Payments, d \in Decisions : Decide(p, d)

Spec == Init /\ [][Next]_<<decided, feed>>
=============================================================================
