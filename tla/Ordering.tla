------------------------------ MODULE Ordering ------------------------------
(***************************************************************************)
(* Sorting, as the code leaves it to Array.prototype.sort and ORDER BY:    *)
(* the elements of a finite set in the order a relation puts them, each    *)
(* after exactly those that precede it.                                    *)
(***************************************************************************)
EXTENDS Integers, FiniteSets

Before(S, R, x) == {y \in S : <<y, x>> \in R}

InOrder(S, R) ==
  [k \in 1 .. Cardinality(S) |-> CHOOSE x \in S : Cardinality(Before(S, R, x)) = k - 1]

(* What R has to be on S.                                                  *)
StrictOrder(S, R) ==
  /\ \A x \in S : <<x, x>> \notin R
  /\ \A x, y, z \in S : <<x, y>> \in R /\ <<y, z>> \in R => <<x, z>> \in R
  /\ \A x, y \in S : x # y => <<x, y>> \in R \/ <<y, x>> \in R
=============================================================================
