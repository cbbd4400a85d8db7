---------------------------- MODULE AuditLedger -----------------------------
(***************************************************************************)
(* The audit ledger and the writers that append to it: appendAuditEntry of *)
(* lib/audit/chain.ts over the in-memory and the Postgres store.           *)
(*                                                                         *)
(* An append is two awaited calls, latest() and insert(), and nothing      *)
(* holds a lock between them.  Between the two calls a request holds the   *)
(* sealed entry it is going to insert.                                     *)
(***************************************************************************)
EXTENDS AuditChain

CONSTANTS
  Requests, (* Request slots: each may be inside appendAuditEntry.         *)
  Store,    (* "postgres" when DATABASE_URL is set, else "memory".         *)
  NoEntry   (* What a request outside appendAuditEntry holds.              *)

ASSUME StoreAssumption == Store \in {"memory", "postgres"}

ASSUME NoEntryAssumption == NoEntry \notin AuditEntry

VARIABLES
  ledger,   (* The stored entries, in the order they were inserted.        *)
  pending   (* Per request: the entry it has sealed and not yet inserted.  *)

ledgerVars == <<ledger, pending>>

InitLedger ==
  /\ ledger = << >>
  /\ pending = [w \in Requests |-> NoEntry]

(***************************************************************************)
(* The rows latest() can return: the last one pushed in memory, the one of *)
(* greatest seq in Postgres (ORDER BY seq DESC LIMIT 1).                   *)
(***************************************************************************)
Latest ==
  IF Store = "memory"
  THEN {ledger[i] : i \in {j \in DOMAIN ledger : j = Len(ledger)}}
  ELSE {ledger[i] : i \in {j \in DOMAIN ledger :
                             \A k \in DOMAIN ledger : ledger[k].seq <= ledger[j].seq}}

ReadLatest(w, ref, actor) ==
  /\ pending[w] = NoEntry
  /\ pending' = [pending EXCEPT ![w] = SealedEntry(LinkAfter(Latest), ref, actor)]
  /\ UNCHANGED ledger

(* Mutant of Conflicts: UNIQUE(hash) alone, without the primary key.       *)
HashConflicts(entry) ==
  Store = "postgres" /\ \E i \in DOMAIN ledger : ledger[i].hash = entry.hash

(***************************************************************************)
(* seq is the primary key of audit_log and hash is UNIQUE; the in-memory   *)
(* array has neither.                                                      *)
(***************************************************************************)
Conflicts(entry) ==
  /\ Store = "postgres"
  /\ \E i \in DOMAIN ledger : \/ ledger[i].seq = entry.seq
                              \/ ledger[i].hash = entry.hash

(* Mutant of Insert: an upsert, ON CONFLICT (seq) DO UPDATE.               *)
Upsert(w) ==
  /\ pending[w] # NoEntry
  /\ ledger' = IF pending[w].seq < Len(ledger)
               THEN [ledger EXCEPT ![pending[w].seq + 1] = pending[w]]
               ELSE Append(ledger, pending[w])
  /\ pending' = [pending EXCEPT ![w] = NoEntry]

Insert(w) ==
  /\ pending[w] # NoEntry
  /\ ~ Conflicts(pending[w])
  /\ ledger' = Append(ledger, pending[w])
  /\ pending' = [pending EXCEPT ![w] = NoEntry]

(* The database rejects the row and appendAuditEntry throws.               *)
InsertRejected(w) ==
  /\ pending[w] # NoEntry
  /\ Conflicts(pending[w])
  /\ pending' = [pending EXCEPT ![w] = NoEntry]
  /\ UNCHANGED ledger

(***************************************************************************)
(* Requests that go away between the calls: a connection or a process      *)
(* fails before the row is committed.                                      *)
(***************************************************************************)
AbandonAppends(gone) ==
  /\ pending' = [w \in Requests |-> IF w \in gone THEN NoEntry ELSE pending[w]]
  /\ UNCHANGED ledger

(* The one process that holds the in-memory stores restarts.               *)
Restart ==
  /\ Store = "memory"
  /\ ledger' = << >>
  /\ pending' = [w \in Requests |-> NoEntry]

NextLedger ==
  \/ \E w \in Requests :
       \/ \E ref \in DecisionRef, actor \in Actor : ReadLatest(w, ref, actor)
       \/ Insert(w)
       \/ InsertRejected(w)
  \/ \E gone \in SUBSET Requests : AbandonAppends(gone)
  \/ Restart

SpecLedger == InitLedger /\ [][NextLedger]_ledgerVars

-----------------------------------------------------------------------------
(***************************************************************************)
(* Every stored entry and every sealed one has the shape AuditEntrySchema  *)
(* demands.                                                                *)
(***************************************************************************)
LedgerTypeOK ==
  /\ ledger \in Seq(AuditEntry)
  /\ pending \in [Requests -> AuditEntry \cup {NoEntry}]

(***************************************************************************)
(* However appends interleave, the stored chain is linear and links from   *)
(* genesis: at no position would the full scan report anything             *)
(* (chain.ts:10-15).                                                       *)
(***************************************************************************)
ChainIntact == \A i \in DOMAIN ledger : ~ BadAt(ledger, i)

(***************************************************************************)
(* A sealed entry continues some prefix of the ledger as it is now: what   *)
(* was read as the head never disappears, however stale it becomes.        *)
(***************************************************************************)
PendingExtendsPrefix ==
  \A w \in Requests : pending[w] # NoEntry =>
    /\ pending[w].seq \in 0 .. Len(ledger)
    /\ pending[w].prevHash = IF pending[w].seq = 0 THEN GenesisPrevHash
                             ELSE ledger[pending[w].seq].hash
    /\ pending[w].hash = ComputeAuditHash(pending[w])

(***************************************************************************)
(* The Postgres ledger is an append-only log: seen without its hashes,     *)
(* every step leaves it alone or appends one attestation                   *)
(* (0001_audit_log.sql:1-6).                                               *)
(***************************************************************************)
attestations ==
  [i \in DOMAIN ledger |-> [decisionRef |-> ledger[i].decisionRef,
                            actor       |-> ledger[i].actor]]

Log == INSTANCE AuditLog WITH log <- attestations

ImplementsLog == Log!Spec

-----------------------------------------------------------------------------
(***************************************************************************)
(* Rows that differ from `row` in one column.                              *)
(***************************************************************************)
KnownHashes == {GenesisPrevHash} \cup {ledger[i].hash : i \in DOMAIN ledger}

OneColumnRewrites(row) ==
  {[row EXCEPT !.seq = n] : n \in (0 .. Len(ledger)) \ {row.seq}}
    \cup {[row EXCEPT !.prevHash = h] : h \in KnownHashes \ {row.prevHash}}
    \cup {[row EXCEPT !.decisionRef = r] : r \in DecisionRef \ {row.decisionRef}}
    \cup {[row EXCEPT !.actor = a] : a \in Actor \ {row.actor}}
    \cup {[row EXCEPT !.hash = h] : h \in KnownHashes \ {row.hash}}

(***************************************************************************)
(* Rows whose decisionRef or actor is changed and whose hash is computed   *)
(* again to match.                                                         *)
(***************************************************************************)
ResealedRewrites(row) ==
  {SealedEntry([seq |-> row.seq, prevHash |-> row.prevHash], r, a) :
     r \in DecisionRef, a \in Actor} \ {row}

(***************************************************************************)
(* The full scan says "valid" exactly of the chains that are linear in the *)
(* order they were written, forked chains of racing in-memory appends      *)
(* included (chain.ts:98-127).                                             *)
(***************************************************************************)
VerifierExact == VerifyAuditChain(ledger).valid <=> ChainIntact

(***************************************************************************)
(* On an intact ledger the full scan reports every row rewritten in one    *)
(* column, and every resealed row that has a successor (chain.ts:13-15).   *)
(***************************************************************************)
RewritesReported ==
  ChainIntact =>
    \A i \in DOMAIN ledger :
      \A row \in OneColumnRewrites(ledger[i])
                   \cup (IF i < Len(ledger) THEN ResealedRewrites(ledger[i]) ELSE {}) :
        ~ VerifyAuditChain([ledger EXCEPT ![i] = row]).valid
=============================================================================
