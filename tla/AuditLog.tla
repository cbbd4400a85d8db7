------------------------------ MODULE AuditLog ------------------------------
(***************************************************************************)
(* What the audit ledger promises its callers: one list of attestations    *)
(* that only ever grows, at its end, one attestation at a time.  Nothing   *)
(* is said of hashes, stores or concurrent writers.                        *)
(***************************************************************************)
EXTENDS Sequences

CONSTANTS DecisionRef, Actor

VARIABLE log

Attestation == [decisionRef : DecisionRef, actor : Actor]

Init == log = << >>

Attest(a) == log' = Append(log, a)

Next == \E a \in Attestation : Attest(a)

Spec == Init /\ [][Next]_log
=============================================================================
