--------------------------- MODULE DecisionStores ---------------------------
(***************************************************************************)
(* The decision feed as the two runtimes keep it: a Map in the order its   *)
(* keys were first set (InMemoryDecisionStore), or rows stamped with the   *)
(* time of their insert (PostgresDecisionStore).  GET /api/decisions reads *)
(* the list; the webhook saves decisions.  The stamps are taken to be all  *)
(* different and in the order of the commits, which now() of several       *)
(* pooled connections is only nearly.                                      *)
(***************************************************************************)
EXTENDS Integers, Sequences, SequencesExt, Ordering

CONSTANTS Payments, Decisions, Limit  (* Limit is 200 in the code.         *)

ASSUME LimitAssumption == Limit \in Nat \ {0}

CONSTANT MaxSaves  (* Bound: the decisions saved.                          *)

VARIABLES
  store,        (* "memory" or "postgres".                                 *)
  byPaymentId,  (* The Map: a sequence of [paymentId, record].             *)
  rows,         (* The table: by payment id, [record, createdAt].          *)
  saves,        (* Decisions saved so far; the clock of the inserts.       *)
  decided       (* History: every decision saved, in the order of saves.   *)

decisionVars == <<store, byPaymentId, rows, saves, decided>>

NoRow == [record |-> "none", createdAt |-> 0]

InitDecisions ==
  /\ byPaymentId = <<>>
  /\ rows = [p \in Payments |-> NoRow]
  /\ saves = 0 /\ decided = <<>>

InMap(p) == \E i \in DOMAIN byPaymentId : byPaymentId[i].paymentId = p

(* Map.set keeps the place of a key it knows.                              *)
MapSave(p, d) ==
  /\ IF InMap(p)
     THEN byPaymentId' = [i \in DOMAIN byPaymentId |->
            IF byPaymentId[i].paymentId = p THEN [byPaymentId[i] EXCEPT !.record = d]
            ELSE byPaymentId[i]]
     ELSE byPaymentId' = Append(byPaymentId, [paymentId |-> p, record |-> d])
  /\ UNCHANGED rows

(* Mutant of RowSave: ON CONFLICT DO NOTHING, as the replay runs have it.  *)
RowSaveOnce(p, d) ==
  /\ rows' = [rows EXCEPT ![p] =
       IF @ = NoRow THEN [record |-> d, createdAt |-> saves + 1] ELSE @]
  /\ UNCHANGED byPaymentId

(* ON CONFLICT sets the record alone.                                      *)
RowSave(p, d) ==
  /\ rows' = [rows EXCEPT ![p] =
       [record |-> d, createdAt |-> IF @ = NoRow THEN saves + 1 ELSE @.createdAt]]
  /\ UNCHANGED byPaymentId

SaveDecision(p, d) ==
  /\ saves < MaxSaves /\ saves' = saves + 1
  /\ decided' = Append(decided, [paymentId |-> p, record |-> d])
  /\ \/ store = "memory" /\ MapSave(p, d)
     \/ store = "postgres" /\ RowSave(p, d)
  /\ UNCHANGED store

-----------------------------------------------------------------------------
(* list(limit): the last of the Map, reversed; the rows ORDER BY           *)
(* created_at DESC LIMIT limit.                                            *)
Newest(s) == SubSeq(s, 1, IF Len(s) < Limit THEN Len(s) ELSE Limit)

MapList == Newest(Reverse(byPaymentId))

RowList ==
  LET stored == {p \in Payments : rows[p] # NoRow}
      later  == {pq \in stored \X stored : rows[pq[1]].createdAt > rows[pq[2]].createdAt}
      order  == InOrder(stored, later)
  IN  Newest([i \in DOMAIN order |-> [paymentId |-> order[i], record |-> rows[order[i]].record]])

List == IF store = "memory" THEN MapList ELSE RowList
=============================================================================
