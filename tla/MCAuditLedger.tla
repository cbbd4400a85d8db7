--------------------------- MODULE MCAuditLedger ----------------------------
(***************************************************************************)
(* Model-checking instance of AuditLedger: a bound on the ledger's length. *)
(***************************************************************************)
EXTENDS AuditLedger

CONSTANT MaxEntries

LedgerBound == Len(ledger) <= MaxEntries
=============================================================================
