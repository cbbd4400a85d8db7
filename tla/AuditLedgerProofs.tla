------------------------- MODULE AuditLedgerProofs --------------------------
(***************************************************************************)
(* Proofs about AuditLedger, for every set of writers, payment ids and     *)
(* actors and ledgers of every length.                                     *)
(*                                                                         *)
(* Type correctness needs no assumption on the store.  That the chain      *)
(* stays linear does: it is proved for the Postgres store, from the        *)
(* primary key on seq and from the fact that a sealed entry, however old,  *)
(* still continues a prefix of the ledger.  A single writer is not even    *)
(* rejected.                                                               *)
(*                                                                         *)
(* The scan is exact on every ledger of either store: a sorted ledger has  *)
(* no bad row just when each row stands at its own number and follows the  *)
(* one before.  Hence it reports every rewrite that leaves a mark.         *)
(***************************************************************************)
EXTENDS AuditLedger, SequenceTheorems, Minima

(***************************************************************************)
(* Sealing a link gives a well-formed entry whose hash recomputes.         *)
(***************************************************************************)
LEMMA SealedEntryProperties ==
  ASSUME NEW n \in Nat, NEW h \in Hash, NEW ref \in DecisionRef, NEW actor \in Actor
  PROVE  LET e == SealedEntry([seq |-> n, prevHash |-> h], ref, actor)
         IN  /\ e \in AuditEntry
             /\ e.seq = n
             /\ e.prevHash = h
             /\ e.hash = ComputeAuditHash(e)
<1> DEFINE c == [seq |-> n, decisionRef |-> ref, actor |-> actor]
<1>1. c \in Content
  BY DEF Content
<1>2. Append(h, c) \in Hash
  BY <1>1, AppendProperties DEF Hash
<1> QED
  BY <1>2 DEF SealedEntry, ComputeAuditHash, AuditEntry

(***************************************************************************)
(* The link latest() leads to attaches either at genesis or after a row of *)
(* the ledger.                                                             *)
(***************************************************************************)
LEMMA LinkAfterLatest ==
  ASSUME LedgerTypeOK
  PROVE  /\ LinkAfter(Latest) = [seq |-> LinkAfter(Latest).seq,
                                 prevHash |-> LinkAfter(Latest).prevHash]
         /\ LinkAfter(Latest).seq \in Nat
         /\ LinkAfter(Latest).prevHash \in Hash
<1>1. Latest \subseteq AuditEntry
  BY DEF Latest, LedgerTypeOK
<1>2. CASE Latest = {}
  <2>1. GenesisPrevHash \in Hash
    BY DEF GenesisPrevHash, Hash
  <2> QED
    BY <1>2, <2>1 DEF LinkAfter
<1>3. CASE Latest # {}
  <2> DEFINE latest == CHOOSE e \in Latest : TRUE
  <2>1. latest \in AuditEntry
    BY <1>1, <1>3
  <2>2. latest.seq + 1 \in Nat /\ latest.hash \in Hash
    BY <2>1 DEF AuditEntry
  <2> HIDE DEF latest
  <2>3. LinkAfter(Latest) = [seq |-> latest.seq + 1, prevHash |-> latest.hash]
    BY <1>3 DEF LinkAfter, latest
  <2> QED
    BY <2>2, <2>3
<1> QED
  BY <1>2, <1>3

LEMMA LedgerTypeInductive ==
  LedgerTypeOK /\ [NextLedger]_ledgerVars => LedgerTypeOK'
<1> SUFFICES ASSUME LedgerTypeOK, [NextLedger]_ledgerVars
             PROVE  LedgerTypeOK'
  OBVIOUS
<1>1. ASSUME NEW w \in Requests, NEW ref \in DecisionRef, NEW actor \in Actor,
             ReadLatest(w, ref, actor)
      PROVE  LedgerTypeOK'
  <2> DEFINE e == SealedEntry(LinkAfter(Latest), ref, actor)
  <2>1. e \in AuditEntry
    BY LinkAfterLatest, SealedEntryProperties
  <2> QED
    BY <1>1, <2>1 DEF LedgerTypeOK, ReadLatest
<1>2. ASSUME NEW w \in Requests, Insert(w)
      PROVE  LedgerTypeOK'
  <2>1. pending[w] \in AuditEntry
    BY <1>2 DEF LedgerTypeOK, Insert
  <2>2. Append(ledger, pending[w]) \in Seq(AuditEntry)
    BY <2>1, AppendProperties DEF LedgerTypeOK
  <2> QED
    BY <1>2, <2>2 DEF LedgerTypeOK, Insert
<1>3. ASSUME NEW w \in Requests, InsertRejected(w)
      PROVE  LedgerTypeOK'
  BY <1>3 DEF LedgerTypeOK, InsertRejected
<1>5. ASSUME NEW gone \in SUBSET Requests, AbandonAppends(gone)
      PROVE  LedgerTypeOK'
  BY <1>5 DEF LedgerTypeOK, AbandonAppends
<1>6. CASE Restart
  BY <1>6 DEF LedgerTypeOK, Restart
<1>4. CASE UNCHANGED ledgerVars
  BY <1>4 DEF LedgerTypeOK, ledgerVars
<1> QED
  BY <1>1, <1>2, <1>3, <1>4, <1>5, <1>6 DEF NextLedger

(***************************************************************************)
(* LedgerTypeOK holds in every reachable state, over either store.         *)
(***************************************************************************)
THEOREM LedgerTyped == SpecLedger => []LedgerTypeOK
<1>1. InitLedger => LedgerTypeOK
  BY DEF InitLedger, LedgerTypeOK
<1> QED
  BY <1>1, LedgerTypeInductive, PTL DEF SpecLedger

-----------------------------------------------------------------------------
(***************************************************************************)
(* The inductive invariant of the Postgres ledger.  ChainIntact alone is   *)
(* not inductive: inserting a sealed entry keeps the chain linear only     *)
(* because the entry continues a prefix, and the primary key lets through  *)
(* none but the one that continues the whole ledger.                       *)
(***************************************************************************)
LedgerInv ==
  /\ LedgerTypeOK
  /\ ChainIntact
  /\ PendingExtendsPrefix

LEMMA IntactRows ==
  ASSUME LedgerTypeOK, ChainIntact, NEW i \in DOMAIN ledger
  PROVE  /\ ledger[i] \in AuditEntry
         /\ ledger[i].seq = i - 1
         /\ ledger[i].prevHash = IF i = 1 THEN GenesisPrevHash ELSE ledger[i - 1].hash
         /\ ledger[i].hash = ComputeAuditHash(ledger[i])
  BY DEF LedgerTypeOK, ChainIntact, BadAt

(***************************************************************************)
(* On an intact Postgres ledger latest() returns the row in last position, *)
(* so the next link is the ledger's length and its last hash.              *)
(***************************************************************************)
LEMMA LatestIsLast ==
  ASSUME LedgerTypeOK, ChainIntact, Store = "postgres"
  PROVE  LinkAfter(Latest) =
           [seq      |-> Len(ledger),
            prevHash |-> IF Len(ledger) = 0 THEN GenesisPrevHash
                         ELSE ledger[Len(ledger)].hash]
<1>1. Len(ledger) \in Nat /\ DOMAIN ledger = 1 .. Len(ledger)
  BY LenProperties DEF LedgerTypeOK
<1>2. \A i \in DOMAIN ledger : ledger[i].seq = i - 1
  BY IntactRows
<1>3. CASE Len(ledger) = 0
  <2>1. Latest = {}
    BY <1>1, <1>3 DEF Latest
  <2> QED
    BY <1>3, <2>1 DEF LinkAfter
<1>4. CASE Len(ledger) # 0
  <2> DEFINE last == Len(ledger)
  <2>1. last \in DOMAIN ledger
    BY <1>1, <1>4
  <2>2. Latest = {ledger[last]}
    <3>1. {j \in DOMAIN ledger : \A k \in DOMAIN ledger : ledger[k].seq <= ledger[j].seq}
            = {last}
      BY <1>1, <1>2, <2>1
    <3> QED
      BY <3>1 DEF Latest
  <2>3. (CHOOSE e \in Latest : TRUE) = ledger[last]
    BY <2>2
  <2>4. ledger[last].seq + 1 = last
    BY <1>1, <1>2, <2>1
  <2> QED
    BY <1>4, <2>2, <2>3, <2>4 DEF LinkAfter
<1> QED
  BY <1>3, <1>4

LEMMA LedgerInvInductive ==
  ASSUME Store = "postgres"
  PROVE  LedgerInv /\ [NextLedger]_ledgerVars => LedgerInv'
<1> SUFFICES ASSUME LedgerInv, [NextLedger]_ledgerVars
             PROVE  ChainIntact' /\ PendingExtendsPrefix'
  BY LedgerTypeInductive DEF LedgerInv
<1> USE DEF LedgerInv
<1>0. /\ LedgerTypeOK'
      /\ Len(ledger) \in Nat
      /\ DOMAIN ledger = 1 .. Len(ledger)
  BY LedgerTypeInductive, LenProperties DEF LedgerTypeOK
<1>1. ASSUME NEW w \in Requests, NEW ref \in DecisionRef, NEW actor \in Actor,
             ReadLatest(w, ref, actor)
      PROVE  ChainIntact' /\ PendingExtendsPrefix'
  <2>1. ChainIntact'
    BY <1>1 DEF ChainIntact, BadAt, ReadLatest
  <2> DEFINE n == Len(ledger)
             h == IF n = 0 THEN GenesisPrevHash ELSE ledger[n].hash
             e == SealedEntry(LinkAfter(Latest), ref, actor)
  <2>2. h \in Hash
    <3>1. GenesisPrevHash \in Hash
      BY DEF GenesisPrevHash, Hash
    <3>2. n # 0 => n \in DOMAIN ledger
      BY <1>0
    <3>3. n # 0 => ledger[n].hash \in Hash
      BY <3>2, IntactRows DEF AuditEntry
    <3> QED
      BY <3>1, <3>3
  <2>3. e.seq = n /\ e.prevHash = h /\ e.hash = ComputeAuditHash(e)
    BY <1>0, <2>2, LatestIsLast, SealedEntryProperties
  <2> HIDE DEF e
  <2>4. pending' = [pending EXCEPT ![w] = e] /\ ledger' = ledger
    BY <1>1 DEF ReadLatest, e
  <2>5. PendingExtendsPrefix'
    BY <1>0, <2>3, <2>4 DEF PendingExtendsPrefix, LedgerTypeOK
  <2> QED
    BY <2>1, <2>5
<1>2. ASSUME NEW w \in Requests, Insert(w)
      PROVE  ChainIntact' /\ PendingExtendsPrefix'
  <2> DEFINE e == pending[w]
             n == Len(ledger)
  <2>1. e \in AuditEntry
    BY <1>2 DEF LedgerTypeOK, Insert
  <2>2. /\ ledger' = Append(ledger, e)
        /\ Len(ledger') = n + 1
        /\ DOMAIN ledger' = 1 .. n + 1
        /\ \A i \in 1 .. n : ledger'[i] = ledger[i]
        /\ ledger'[n + 1] = e
    BY <1>0, <1>2, <2>1, AppendProperties, LenProperties DEF Insert, LedgerTypeOK
  <2>3. /\ e.seq \in 0 .. n
        /\ e.prevHash = IF e.seq = 0 THEN GenesisPrevHash ELSE ledger[e.seq].hash
        /\ e.hash = ComputeAuditHash(e)
    BY <1>2 DEF PendingExtendsPrefix, Insert
  <2>4. e.seq = n
    <3>1. \A i \in 1 .. n : ledger[i].seq # e.seq
      BY <1>0, <1>2 DEF Insert, Conflicts
    <3>2. \A i \in 1 .. n : ledger[i].seq = i - 1
      BY <1>0, IntactRows
    <3>3. CASE e.seq < n
      <4>1. e.seq + 1 \in 1 .. n
        BY <1>0, <2>3, <3>3
      <4> QED
        BY <2>3, <3>1, <3>2, <4>1
    <3> QED
      BY <1>0, <2>3, <3>3
  <2>5. ChainIntact'
    <3> SUFFICES ASSUME NEW i \in 1 .. n + 1
                 PROVE  ~ BadAt(ledger', i)
      BY <2>2 DEF ChainIntact
    <3>1. CASE i \in 1 .. n
      <4>1. ~ BadAt(ledger, i)
        BY <1>0, <3>1 DEF ChainIntact
      <4>2. i # 1 => i - 1 \in 1 .. n
        BY <1>0, <3>1
      <4> QED
        BY <2>2, <3>1, <4>1, <4>2 DEF BadAt
    <3>2. CASE i = n + 1
      <4>0. n \in Nat
        BY <1>0
      <4> HIDE DEF n
      <4>1. n # 0 => n \in 1 .. n /\ ledger'[n] = ledger[n]
        <5>1. n # 0 => n \in 1 .. n
          BY <1>0 DEF n
        <5> QED
          BY <2>2, <5>1
      <4>2. ledger'[i] = e /\ i - 1 = n /\ (i = 1 <=> n = 0)
        BY <2>2, <3>2, <4>0
      <4>3. e.prevHash = IF i = 1 THEN GenesisPrevHash ELSE ledger'[i - 1].hash
        BY <2>3, <2>4, <4>1, <4>2
      <4> HIDE DEF e
      <4> QED
        BY <2>3, <2>4, <4>2, <4>3 DEF BadAt
    <3> QED
      BY <1>0, <3>1, <3>2
  <2>6. PendingExtendsPrefix'
    <3> SUFFICES ASSUME NEW v \in Requests, pending'[v] # NoEntry
                 PROVE  /\ pending'[v].seq \in 0 .. Len(ledger')
                        /\ pending'[v].prevHash =
                             IF pending'[v].seq = 0 THEN GenesisPrevHash
                             ELSE ledger'[pending'[v].seq].hash
                        /\ pending'[v].hash = ComputeAuditHash(pending'[v])
      BY DEF PendingExtendsPrefix
    <3>1. pending'[v] = pending[v]
      BY <1>2 DEF Insert, LedgerTypeOK
    <3>2. /\ pending[v].seq \in 0 .. n
          /\ pending[v].prevHash = IF pending[v].seq = 0 THEN GenesisPrevHash
                                   ELSE ledger[pending[v].seq].hash
          /\ pending[v].hash = ComputeAuditHash(pending[v])
      BY <3>1 DEF PendingExtendsPrefix
    <3>3. pending[v].seq # 0 => pending[v].seq \in 1 .. n
      BY <1>0, <3>2
    <3> QED
      BY <1>0, <2>2, <3>1, <3>2, <3>3
  <2> QED
    BY <2>5, <2>6
<1>3. ASSUME NEW w \in Requests, InsertRejected(w)
      PROVE  ChainIntact' /\ PendingExtendsPrefix'
  BY <1>3 DEF ChainIntact, BadAt, PendingExtendsPrefix, InsertRejected, LedgerTypeOK
<1>5. ASSUME NEW gone \in SUBSET Requests, AbandonAppends(gone)
      PROVE  ChainIntact' /\ PendingExtendsPrefix'
  BY <1>5 DEF ChainIntact, BadAt, PendingExtendsPrefix, AbandonAppends
<1>6. CASE Restart
  BY <1>6 DEF Restart
<1>4. CASE UNCHANGED ledgerVars
  BY <1>4 DEF ChainIntact, BadAt, PendingExtendsPrefix, ledgerVars
<1> QED
  BY <1>1, <1>2, <1>3, <1>4, <1>5, <1>6 DEF NextLedger

(***************************************************************************)
(* The inductive invariant holds in every reachable state of the Postgres  *)
(* ledger (chain.ts:70-88 over postgres.ts:94-113).                        *)
(***************************************************************************)
THEOREM LedgerInvariant ==
  ASSUME Store = "postgres"
  PROVE  SpecLedger => []LedgerInv
<1>1. InitLedger => LedgerInv
  BY DEF InitLedger, LedgerInv, LedgerTypeOK, ChainIntact, PendingExtendsPrefix
<1> QED
  BY <1>1, LedgerInvInductive, PTL DEF SpecLedger

(***************************************************************************)
(* Over Postgres no interleaving of any number of appends, rejections and  *)
(* lost connections ever bends the chain: ChainIntact is an invariant.     *)
(***************************************************************************)
THEOREM PostgresChainIntact ==
  ASSUME Store = "postgres"
  PROVE  SpecLedger => []ChainIntact
  BY LedgerInvariant, PTL DEF LedgerInv

(***************************************************************************)
(* Over Postgres a sealed entry, however stale, still extends a prefix of  *)
(* the ledger: PendingExtendsPrefix is an invariant.                       *)
(***************************************************************************)
THEOREM PostgresPendingLinked ==
  ASSUME Store = "postgres"
  PROVE  SpecLedger => []PendingExtendsPrefix
  BY LedgerInvariant, PTL DEF LedgerInv

-----------------------------------------------------------------------------
(***************************************************************************)
(* The ledger implements AuditLog: seen without hashes it starts empty,    *)
(* and every step appends one attestation at its end or changes nothing.   *)
(* The in-memory ledger does not: a restart empties it.                    *)
(***************************************************************************)
THEOREM LedgerImplementsLog ==
  ASSUME Store = "postgres"
  PROVE  SpecLedger => ImplementsLog
<1>1. InitLedger => Log!Init
  BY DEF InitLedger, Log!Init, attestations
<1>2. LedgerTypeOK /\ [NextLedger]_ledgerVars => [Log!Next]_attestations
  <2> SUFFICES ASSUME LedgerTypeOK, [NextLedger]_ledgerVars
               PROVE  Log!Next \/ UNCHANGED attestations
    OBVIOUS
  <2>1. ASSUME NEW w \in Requests, Insert(w)
        PROVE  Log!Next
    <3> DEFINE e == pending[w]
               a == [decisionRef |-> e.decisionRef, actor |-> e.actor]
    <3>1. e \in AuditEntry
      BY <2>1 DEF LedgerTypeOK, Insert
    <3>2. a \in Log!Attestation
      BY <3>1 DEF AuditEntry, Log!Attestation
    <3>3. /\ Len(ledger) \in Nat
          /\ DOMAIN ledger = 1 .. Len(ledger)
          /\ DOMAIN ledger' = 1 .. Len(ledger) + 1
          /\ \A i \in 1 .. Len(ledger) : ledger'[i] = ledger[i]
          /\ ledger'[Len(ledger) + 1] = e
      BY <2>1, <3>1, AppendProperties, LenProperties DEF LedgerTypeOK, Insert
    <3>4. /\ attestations \in Seq(Log!Attestation)
          /\ Len(attestations) = Len(ledger)
      <4>1. \A i \in 1 .. Len(ledger) : ledger[i] \in AuditEntry
        BY <3>3 DEF LedgerTypeOK
      <4>2. attestations \in [1 .. Len(ledger) -> Log!Attestation]
        BY <3>3, <4>1 DEF attestations, AuditEntry, Log!Attestation
      <4> QED
        BY <3>3, <4>2, SeqDef, LenProperties
    <3>5. Append(attestations, a) \in [1 .. Len(ledger) + 1 -> Log!Attestation]
      <4> HIDE DEF a
      <4>1. /\ Append(attestations, a) \in Seq(Log!Attestation)
            /\ Len(Append(attestations, a)) = Len(ledger) + 1
        BY <3>2, <3>4, AppendProperties
      <4> QED
        BY <4>1, LenProperties
    <3>6. attestations' = Append(attestations, a)
      <4> SUFFICES ASSUME NEW i \in 1 .. Len(ledger) + 1
                   PROVE  attestations'[i] = Append(attestations, a)[i]
        BY <3>3, <3>5 DEF attestations
      <4>1. CASE i \in 1 .. Len(ledger)
        <5>1. Append(attestations, a)[i] = attestations[i]
          BY <3>2, <3>3, <3>4, <4>1, AppendProperties
        <5> QED
          BY <3>3, <4>1, <5>1 DEF attestations
      <4>2. CASE i = Len(ledger) + 1
        <5>1. Append(attestations, a)[i] = a
          BY <3>2, <3>3, <3>4, <4>2, AppendProperties
        <5> QED
          BY <3>3, <4>2, <5>1 DEF attestations
      <4>3. i \in 1 .. Len(ledger) \/ i = Len(ledger) + 1
        BY <3>3
      <4> QED
        BY <4>1, <4>2, <4>3
    <3> QED
      BY <3>2, <3>6 DEF Log!Next, Log!Attest
  <2>2. ASSUME UNCHANGED ledger
        PROVE  UNCHANGED attestations
    BY <2>2 DEF attestations
  <2> QED
    BY <2>1, <2>2 DEF NextLedger, ReadLatest, InsertRejected, AbandonAppends, Restart,
                      ledgerVars
<1> QED
  BY <1>1, <1>2, LedgerTyped, PTL DEF SpecLedger, ImplementsLog, Log!Spec

-----------------------------------------------------------------------------
(***************************************************************************)
(* Digests are collision-free: what recomputes to the same hash is the     *)
(* same row.                                                               *)
(***************************************************************************)
LEMMA HashInjective ==
  ASSUME NEW e \in AuditEntry, NEW f \in AuditEntry,
         ComputeAuditHash(e) = ComputeAuditHash(f)
  PROVE  /\ e.seq = f.seq
         /\ e.prevHash = f.prevHash
         /\ e.decisionRef = f.decisionRef
         /\ e.actor = f.actor
<1> DEFINE c(x) == [seq |-> x.seq, decisionRef |-> x.decisionRef, actor |-> x.actor]
<1>1. /\ c(e) \in Content /\ c(f) \in Content
      /\ e.prevHash \in Seq(Content) /\ f.prevHash \in Seq(Content)
  BY DEF AuditEntry, Content, Hash
<1>2. Append(e.prevHash, c(e)) = Append(f.prevHash, c(f))
  BY DEF ComputeAuditHash
<1>3. Len(e.prevHash) = Len(f.prevHash)
  BY <1>1, <1>2, AppendProperties, LenProperties
<1>4. c(e) = c(f)
  BY <1>1, <1>2, <1>3, AppendProperties
<1>5. \A i \in 1 .. Len(e.prevHash) : e.prevHash[i] = f.prevHash[i]
  BY <1>1, <1>2, <1>3, AppendProperties
<1>6. e.prevHash = f.prevHash
  BY <1>1, <1>3, <1>5, SeqEqual
<1> QED
  BY <1>4, <1>6

(***************************************************************************)
(* Rewriting history is visible: put any other row, resealed or not, in    *)
(* any position but the last of an intact chain, and the scan finds that   *)
(* row or its successor bad (chain.ts:13-15).                              *)
(***************************************************************************)
THEOREM RewriteBreaksChain ==
  ASSUME LedgerTypeOK, ChainIntact,
         NEW i \in 1 .. Len(ledger) - 1,
         NEW row \in AuditEntry, row # ledger[i]
  PROVE  LET rewritten == [ledger EXCEPT ![i] = row]
         IN  BadAt(rewritten, i) \/ BadAt(rewritten, i + 1)
<1> DEFINE rewritten == [ledger EXCEPT ![i] = row]
<1>1. /\ DOMAIN ledger = 1 .. Len(ledger)
      /\ Len(ledger) \in Nat
      /\ i \in DOMAIN ledger /\ i + 1 \in DOMAIN ledger
      /\ i + 1 # 1 /\ i + 1 - 1 = i
  BY LenProperties DEF LedgerTypeOK
<1>2. /\ rewritten[i] = row
      /\ rewritten[i + 1] = ledger[i + 1]
  BY <1>1
<1>3. /\ ledger[i] \in AuditEntry
      /\ ledger[i].hash = ComputeAuditHash(ledger[i])
      /\ ledger[i + 1].prevHash = ledger[i].hash
  BY <1>1, IntactRows
<1> HIDE DEF rewritten
<1> SUFFICES ASSUME ~ BadAt(rewritten, i), ~ BadAt(rewritten, i + 1)
             PROVE  FALSE
  BY DEF rewritten
<1>4. row.hash = ComputeAuditHash(row)
  BY <1>2 DEF BadAt
<1>5. row.hash = ledger[i].hash
  BY <1>1, <1>2, <1>3 DEF BadAt
<1>6. ComputeAuditHash(row) = ComputeAuditHash(ledger[i])
  BY <1>3, <1>4, <1>5
<1>7. /\ row.seq = ledger[i].seq
      /\ row.prevHash = ledger[i].prevHash
      /\ row.decisionRef = ledger[i].decisionRef
      /\ row.actor = ledger[i].actor
  BY <1>3, <1>6, HashInjective
<1>8. row = ledger[i]
  BY <1>3, <1>5, <1>7 DEF AuditEntry
<1> QED
  BY <1>8

-----------------------------------------------------------------------------
(***************************************************************************)
(* With one request at a time no append is rejected: between the head it   *)
(* read and its insert nobody else appends.                                *)
(***************************************************************************)
OneWriter == \A v, w \in Requests : v = w

NoConflicts == \A w \in Requests : pending[w] # NoEntry => ~ Conflicts(pending[w])

FreshPending == \A w \in Requests : pending[w] # NoEntry => pending[w].seq = Len(ledger)

LEMMA FreshNeverConflicts ==
  ASSUME LedgerInv, FreshPending
  PROVE  NoConflicts
<1> SUFFICES ASSUME NEW w \in Requests, pending[w] # NoEntry, NEW i \in DOMAIN ledger,
                    ledger[i].seq = pending[w].seq \/ ledger[i].hash = pending[w].hash
             PROVE  FALSE
  BY DEF NoConflicts, Conflicts
<1>1. /\ ledger[i] \in AuditEntry /\ ledger[i].seq = i - 1
      /\ ledger[i].hash = ComputeAuditHash(ledger[i])
  BY IntactRows DEF LedgerInv
<1>2. /\ pending[w] \in AuditEntry /\ pending[w].seq = Len(ledger)
      /\ pending[w].hash = ComputeAuditHash(pending[w])
  BY DEF LedgerInv, LedgerTypeOK, FreshPending, PendingExtendsPrefix
<1>3. ledger[i].seq = pending[w].seq
  BY <1>1, <1>2, HashInjective
<1>4. i \in 1 .. Len(ledger) /\ Len(ledger) \in Nat
  BY LenProperties DEF LedgerInv, LedgerTypeOK
<1> QED
  BY <1>1, <1>2, <1>3, <1>4

LEMMA FreshInductive ==
  ASSUME Store = "postgres", OneWriter, LedgerInv, FreshPending, [NextLedger]_ledgerVars
  PROVE  FreshPending'
<1>0. pending \in [Requests -> AuditEntry \cup {NoEntry}]
  BY DEF LedgerInv, LedgerTypeOK
<1>1. ASSUME NEW w \in Requests, NEW ref \in DecisionRef, NEW actor \in Actor,
             ReadLatest(w, ref, actor)
      PROVE  FreshPending'
  <2> DEFINE e == SealedEntry(LinkAfter(Latest), ref, actor)
  <2>1. e.seq = Len(ledger)
    BY LatestIsLast DEF LedgerInv, SealedEntry
  <2> HIDE DEF e
  <2>2. pending' = [pending EXCEPT ![w] = e] /\ ledger' = ledger
    BY <1>1 DEF ReadLatest, e
  <2> QED
    BY <1>0, <2>1, <2>2 DEF FreshPending
<1>2. ASSUME NEW w \in Requests, Insert(w) \/ InsertRejected(w)
      PROVE  FreshPending'
  <2>1. \A v \in Requests : pending'[v] = NoEntry
    BY <1>0, <1>2 DEF Insert, InsertRejected, OneWriter
  <2> QED
    BY <2>1 DEF FreshPending
<1>3. ASSUME NEW gone \in SUBSET Requests, AbandonAppends(gone)
      PROVE  FreshPending'
  BY <1>3 DEF AbandonAppends, FreshPending
<1>4. CASE Restart
  BY <1>4 DEF Restart
<1>5. CASE UNCHANGED ledgerVars
  BY <1>5 DEF FreshPending, ledgerVars
<1> QED
  BY <1>1, <1>2, <1>3, <1>4, <1>5 DEF NextLedger

(***************************************************************************)
(* Over Postgres one request at a time never meets the primary key or the  *)
(* UNIQUE hash, whatever connections and processes it loses on the way     *)
(* (chain.ts:70-88 over postgres.ts:94-113).                               *)
(***************************************************************************)
THEOREM SoleWriterIsNeverRejected ==
  ASSUME Store = "postgres", OneWriter
  PROVE  SpecLedger => []NoConflicts
<1>1. InitLedger => FreshPending
  BY DEF InitLedger, FreshPending
<1>2. LedgerInv /\ FreshPending /\ [NextLedger]_ledgerVars => FreshPending'
  BY FreshInductive
<1>3. LedgerInv /\ FreshPending => NoConflicts
  BY FreshNeverConflicts
<1> QED
  BY <1>1, <1>2, <1>3, LedgerInvariant, PTL DEF SpecLedger

-----------------------------------------------------------------------------
(***************************************************************************)
(* The full scan.  Sorting permutes the rows; rows that are numbered by    *)
(* their positions stay where they are.                                    *)
(***************************************************************************)
LEMMA SortedPermutes ==
  ASSUME NEW entries \in Seq(AuditEntry)
  PROVE  \E p \in [1 .. Len(entries) -> 1 .. Len(entries)] :
           /\ Sorted(entries) = [k \in 1 .. Len(entries) |-> entries[p[k]]]
           /\ \A i \in 1 .. Len(entries) : \E k \in 1 .. Len(entries) : p[k] = i
           /\ \A j, k \in 1 .. Len(entries) : j < k =>
                \/ entries[p[j]].seq < entries[p[k]].seq
                \/ entries[p[j]].seq = entries[p[k]].seq /\ p[j] < p[k]
<1> DEFINE n == Len(entries)
           S == 1 .. n
           R == {q \in S \X S : \/ entries[q[1]].seq < entries[q[2]].seq
                                \/ entries[q[1]].seq = entries[q[2]].seq /\ q[1] < q[2]}
           p == InOrder(S, R)
<1>1. n \in Nat /\ DOMAIN entries = S /\ \A i \in S : entries[i].seq \in Nat
  <2>1. n \in Nat /\ DOMAIN entries = S
    BY LenProperties
  <2>2. \A i \in S : entries[i] \in AuditEntry
    BY <2>1
  <2> QED  BY <2>1, <2>2 DEF AuditEntry
<1>2. IsFiniteSet(S) /\ Cardinality(S) = n
  <2>1. IsFiniteSet(1 .. n) /\ Cardinality(1 .. n) = IF 1 > n THEN 0 ELSE n - 1 + 1
    BY <1>1, FS_Interval
  <2> QED  BY <1>1, <2>1
<1>3. \A i, j \in S :
        <<i, j>> \in R <=>
          \/ entries[i].seq < entries[j].seq
          \/ entries[i].seq = entries[j].seq /\ i < j
  OBVIOUS
<1>4. StrictOrder(S, R)
  <2> HIDE DEF R
  <2>1. \A i \in S : i \in Int
    BY <1>1
  <2> HIDE DEF S
  <2>2. \A i \in S : <<i, i>> \notin R
    BY <1>1, <1>3, <2>1
  <2>3. \A i, j, k \in S : <<i, j>> \in R /\ <<j, k>> \in R => <<i, k>> \in R
    BY <1>1, <1>3, <2>1
  <2>4. \A i, j \in S : i # j => <<i, j>> \in R \/ <<j, i>> \in R
    BY <1>1, <1>3, <2>1
  <2> QED  BY <2>2, <2>3, <2>4 DEF StrictOrder
<1>5. Sorted(entries) = [k \in S |-> entries[p[k]]]
  BY <1>1 DEF Sorted
<1> HIDE DEF R, S
<1>6. /\ p \in [1 .. n -> S]
      /\ \A i \in S : \E k \in 1 .. n : p[k] = i
      /\ \A j, k \in 1 .. n : j < k => <<p[j], p[k]>> \in R
  BY <1>2, <1>4, InOrderSorts
<1>7. \A k \in 1 .. n : p[k] \in S
  BY <1>6
<1> HIDE DEF p
<1>8. \A j, k \in 1 .. n : j < k =>
        \/ entries[p[j]].seq < entries[p[k]].seq
        \/ entries[p[j]].seq = entries[p[k]].seq /\ p[j] < p[k]
  BY <1>3, <1>6, <1>7
<1>9. p \in [1 .. n -> 1 .. n]
  BY <1>6 DEF S
<1> QED  BY <1>5, <1>6, <1>8, <1>9 DEF S

LEMMA SortedInPlace ==
  ASSUME NEW entries \in Seq(AuditEntry), \A i \in 1 .. Len(entries) : entries[i].seq = i - 1
  PROVE  Sorted(entries) = entries
<1> DEFINE n == Len(entries)
<1>1. PICK p \in [1 .. n -> 1 .. n] :
        /\ Sorted(entries) = [k \in 1 .. n |-> entries[p[k]]]
        /\ \A j, k \in 1 .. n : j < k =>
             \/ entries[p[j]].seq < entries[p[k]].seq
             \/ entries[p[j]].seq = entries[p[k]].seq /\ p[j] < p[k]
  BY SortedPermutes
<1>2. n \in Nat /\ DOMAIN entries = 1 .. n /\ entries = [k \in 1 .. n |-> entries[k]]
  BY LenProperties
<1> HIDE DEF n
<1>3. ASSUME NEW k \in 2 .. n PROVE p[k - 1] < p[k]
  <2>1. k - 1 \in 1 .. n /\ k \in 1 .. n /\ k - 1 < k
    BY <1>2
  <2>2. p[k - 1] \in 1 .. n /\ p[k] \in 1 .. n
    BY <2>1
  <2>3. entries[p[k - 1]].seq = p[k - 1] - 1 /\ entries[p[k]].seq = p[k] - 1
    BY <2>2 DEF n
  <2> QED  BY <1>1, <2>1, <2>2, <2>3
<1>4. \A k \in 1 .. n : p[k] = k
  BY <1>2, <1>3, RisingStaysInPlace
<1> QED  BY <1>1, <1>2, <1>4

LEMMA ValidScan ==
  ASSUME NEW entries
  PROVE  VerifyAuditChain(entries).valid
           <=> \A i \in DOMAIN Sorted(entries) : ~ BadAt(Sorted(entries), i)
  BY DEF VerifyAuditChain

(* What is valid holds each number of a row once.                          *)
LEMMA ValidNumbers ==
  ASSUME NEW entries \in Seq(AuditEntry), VerifyAuditChain(entries).valid
  PROVE  \E p \in [1 .. Len(entries) -> 1 .. Len(entries)] :
           /\ Sorted(entries) = [k \in 1 .. Len(entries) |-> entries[p[k]]]
           /\ \A k \in 1 .. Len(entries) : entries[p[k]].seq = k - 1
           /\ \A i, j \in 1 .. Len(entries) : entries[i].seq = entries[j].seq => i = j
<1> DEFINE n == Len(entries)
<1>1. PICK p \in [1 .. n -> 1 .. n] :
        /\ Sorted(entries) = [k \in 1 .. n |-> entries[p[k]]]
        /\ \A i \in 1 .. n : \E k \in 1 .. n : p[k] = i
  BY SortedPermutes
<1>2. \A k \in 1 .. n : ~ BadAt(Sorted(entries), k)
  BY <1>1, ValidScan
<1>3. \A k \in 1 .. n : entries[p[k]].seq = k - 1
  BY <1>1, <1>2 DEF BadAt
<1>4. ASSUME NEW i \in 1 .. n, NEW j \in 1 .. n, entries[i].seq = entries[j].seq PROVE i = j
  <2>1. PICK k \in 1 .. n : p[k] = i
    BY <1>1
  <2>2. PICK m \in 1 .. n : p[m] = j
    BY <1>1
  <2>3. k - 1 = m - 1
    BY <1>3, <1>4, <2>1, <2>2
  <2>4. k = m
    BY <2>3
  <2> QED  BY <2>1, <2>2, <2>4
<1> QED  BY <1>1, <1>3, <1>4

(***************************************************************************)
(* Whichever head an append read, a row of that number stands before its   *)
(* own in the ledger: forks repeat numbers, but never run ahead.           *)
(***************************************************************************)
SeqsDescend ==
  /\ \A i \in DOMAIN ledger : ledger[i].seq > 0 =>
       \E j \in DOMAIN ledger : j < i /\ ledger[j].seq = ledger[i].seq - 1
  /\ \A w \in Requests : pending[w] # NoEntry /\ pending[w].seq > 0 =>
       \E j \in DOMAIN ledger : ledger[j].seq = pending[w].seq - 1

LEMMA SealedSeq ==
  ASSUME NEW link, NEW ref, NEW actor
  PROVE  SealedEntry(link, ref, actor).seq = link.seq
  BY DEF SealedEntry

LEMMA SeqsDescendInductive ==
  LedgerTypeOK /\ SeqsDescend /\ [NextLedger]_ledgerVars => SeqsDescend'
<1> SUFFICES ASSUME LedgerTypeOK, SeqsDescend, [NextLedger]_ledgerVars PROVE SeqsDescend'
  OBVIOUS
<1>1. ASSUME NEW w \in Requests, NEW ref \in DecisionRef, NEW actor \in Actor,
             ReadLatest(w, ref, actor)
      PROVE  SeqsDescend'
  <2> DEFINE e == SealedEntry(LinkAfter(Latest), ref, actor)
  <2>1. ledger' = ledger /\ pending' = [pending EXCEPT ![w] = e]
    BY <1>1 DEF ReadLatest
  <2>2. e.seq > 0 => \E j \in DOMAIN ledger : ledger[j].seq = e.seq - 1
    <3>1. e.seq = LinkAfter(Latest).seq
      BY SealedSeq
    <3>2. CASE Latest = {}
      <4>1. LinkAfter(Latest).seq = 0
        BY <3>2 DEF LinkAfter
      <4> QED  BY <3>1, <4>1
    <3>3. CASE Latest # {}
      <4> DEFINE latest == CHOOSE x \in Latest : TRUE
      <4>1. latest \in Latest
        BY <3>3
      <4>2. LinkAfter(Latest).seq = latest.seq + 1
        BY <3>3 DEF LinkAfter
      <4> HIDE DEF latest
      <4>3. PICK j \in DOMAIN ledger : latest = ledger[j]
        BY <4>1 DEF Latest
      <4>4. ledger[j].seq \in Nat
        <5>1. ledger[j] \in AuditEntry
          BY DEF LedgerTypeOK
        <5> QED  BY <5>1 DEF AuditEntry
      <4>5. ledger[j].seq = e.seq - 1
        BY <3>1, <4>2, <4>3, <4>4
      <4> QED  BY <4>5
    <3> QED  BY <3>2, <3>3
  <2> HIDE DEF e
  <2>3. ASSUME NEW v \in Requests, pending'[v] # NoEntry, pending'[v].seq > 0
        PROVE  \E j \in DOMAIN ledger : ledger[j].seq = pending'[v].seq - 1
    <3>1. CASE v = w
      <4>1. pending'[v] = e
        BY <2>1, <3>1 DEF LedgerTypeOK
      <4> QED  BY <2>2, <2>3, <4>1
    <3>2. CASE v # w
      <4>1. pending'[v] = pending[v]
        BY <2>1, <3>2 DEF LedgerTypeOK
      <4> QED  BY <2>3, <4>1 DEF SeqsDescend
    <3> QED  BY <3>1, <3>2
  <2> QED  BY <2>1, <2>3 DEF SeqsDescend
<1>2. ASSUME NEW w \in Requests, Insert(w)
      PROVE  SeqsDescend'
  <2> DEFINE e == pending[w]
             n == Len(ledger)
  <2>1. e \in AuditEntry /\ e # NoEntry
    BY <1>2 DEF LedgerTypeOK, Insert
  <2>2. /\ n \in Nat /\ DOMAIN ledger = 1 .. n /\ DOMAIN ledger' = 1 .. n + 1
        /\ \A i \in 1 .. n : ledger'[i] = ledger[i]
        /\ ledger'[n + 1] = e
    BY <1>2, <2>1, AppendProperties, LenProperties DEF Insert, LedgerTypeOK
  <2>3. e.seq > 0 => \E j \in 1 .. n : ledger[j].seq = e.seq - 1
    BY <2>1, <2>2 DEF SeqsDescend
  <2>4. \A v \in Requests : pending'[v] = pending[v] \/ pending'[v] = NoEntry
    BY <1>2 DEF Insert, LedgerTypeOK
  <2> HIDE DEF n, e
  <2>5. \A j \in 1 .. n : j \in 1 .. n + 1 /\ j < n + 1
    BY <2>2
  <2>6. ASSUME NEW i \in 1 .. n + 1, ledger'[i].seq > 0
        PROVE  \E j \in 1 .. n + 1 : j < i /\ ledger'[j].seq = ledger'[i].seq - 1
    <3>1. CASE i \in 1 .. n
      <4>1. ledger'[i] = ledger[i]
        BY <2>2, <3>1
      <4>2. PICK j \in 1 .. n : j < i /\ ledger[j].seq = ledger[i].seq - 1
        BY <2>2, <2>6, <3>1, <4>1 DEF SeqsDescend
      <4> QED  BY <2>2, <2>5, <4>1, <4>2
    <3>2. CASE i = n + 1
      <4>1. PICK j \in 1 .. n : ledger[j].seq = e.seq - 1
        BY <2>2, <2>3, <2>6, <3>2
      <4> QED  BY <2>2, <2>5, <3>2, <4>1
    <3>3. i \in 1 .. n \/ i = n + 1
      BY <2>2
    <3> QED  BY <3>1, <3>2, <3>3
  <2>7. ASSUME NEW v \in Requests, pending'[v] # NoEntry, pending'[v].seq > 0
        PROVE  \E j \in 1 .. n + 1 : ledger'[j].seq = pending'[v].seq - 1
    <3>1. pending'[v] = pending[v]
      BY <2>4, <2>7
    <3>2. PICK j \in 1 .. n : ledger[j].seq = pending[v].seq - 1
      BY <2>2, <2>7, <3>1 DEF SeqsDescend
    <3> QED  BY <2>2, <2>5, <3>1, <3>2
  <2> QED  BY <2>2, <2>6, <2>7 DEF SeqsDescend
<1>3. ASSUME NEW w \in Requests, InsertRejected(w)
      PROVE  SeqsDescend'
  <2>1. ledger' = ledger /\ \A v \in Requests : pending'[v] = pending[v] \/ pending'[v] = NoEntry
    BY <1>3 DEF InsertRejected, LedgerTypeOK
  <2> QED  BY <2>1 DEF SeqsDescend
<1>4. ASSUME NEW gone \in SUBSET Requests, AbandonAppends(gone)
      PROVE  SeqsDescend'
  <2>1. ledger' = ledger /\ \A v \in Requests : pending'[v] = pending[v] \/ pending'[v] = NoEntry
    BY <1>4 DEF AbandonAppends
  <2> QED  BY <2>1 DEF SeqsDescend
<1>5. CASE Restart
  <2>1. DOMAIN ledger' = {} /\ \A v \in Requests : pending'[v] = NoEntry
    BY <1>5 DEF Restart
  <2> QED  BY <2>1 DEF SeqsDescend
<1>6. CASE UNCHANGED ledgerVars
  BY <1>6 DEF SeqsDescend, ledgerVars
<1> QED  BY <1>1, <1>2, <1>3, <1>4, <1>5, <1>6 DEF NextLedger

LEMMA SeqsDescendInvariant == SpecLedger => []SeqsDescend
<1>1. InitLedger => SeqsDescend
  <2> SUFFICES ASSUME InitLedger PROVE SeqsDescend
    OBVIOUS
  <2>1. DOMAIN ledger = {} /\ \A w \in Requests : pending[w] = NoEntry
    BY DEF InitLedger
  <2> QED  BY <2>1 DEF SeqsDescend
<1> QED  BY <1>1, SeqsDescendInductive, LedgerTyped, PTL DEF SpecLedger

(***************************************************************************)
(* The full scan is exact on every ledger either store can come to hold,   *)
(* the forked ones of racing in-memory appends included (chain.ts:98-127): *)
(* it says "valid" if and only if the chain is linear as written.          *)
(***************************************************************************)
THEOREM ScanIsExact == SpecLedger => []VerifierExact
<1>1. LedgerTypeOK /\ SeqsDescend => VerifierExact
  <2> SUFFICES ASSUME LedgerTypeOK, SeqsDescend PROVE VerifierExact
    OBVIOUS
  <2> DEFINE n == Len(ledger)
  <2>1. ledger \in Seq(AuditEntry) /\ n \in Nat /\ DOMAIN ledger = 1 .. n
    BY LenProperties DEF LedgerTypeOK
  <2>2. ASSUME ChainIntact PROVE VerifyAuditChain(ledger).valid
    <3>1. \A i \in 1 .. n : ledger[i].seq = i - 1
      BY <2>1, <2>2, IntactRows
    <3>2. Sorted(ledger) = ledger
      BY <2>1, <3>1, SortedInPlace
    <3> QED  BY <2>2, <3>2, ValidScan DEF ChainIntact
  <2>3. ASSUME VerifyAuditChain(ledger).valid PROVE ChainIntact
    <3>1. PICK p \in [1 .. n -> 1 .. n] :
            /\ Sorted(ledger) = [k \in 1 .. n |-> ledger[p[k]]]
            /\ \A k \in 1 .. n : ledger[p[k]].seq = k - 1
            /\ \A i, j \in 1 .. n : ledger[i].seq = ledger[j].seq => i = j
      BY <2>1, <2>3, ValidNumbers
    <3>2. ASSUME NEW k \in 2 .. n PROVE p[k - 1] < p[k]
      <4>1. k - 1 \in 1 .. n /\ k \in 1 .. n /\ (k - 1) - 1 = k - 2 /\ k - 1 > 0
        BY <2>1
      <4>2. ledger[p[k]].seq = k - 1 /\ ledger[p[k - 1]].seq = k - 2
        BY <3>1, <4>1
      <4>3. PICK j \in 1 .. n : j < p[k] /\ ledger[j].seq = ledger[p[k]].seq - 1
        BY <2>1, <3>1, <4>1, <4>2 DEF SeqsDescend
      <4>4. p[k - 1] \in 1 .. n
        BY <4>1
      <4>5. ledger[p[k - 1]].seq = ledger[j].seq
        BY <4>2, <4>3
      <4>6. p[k - 1] = j
        BY <3>1, <4>4, <4>5
      <4> QED  BY <4>3, <4>6
    <3>3. \A k \in 1 .. n : p[k] = k
      BY <2>1, <3>2, RisingStaysInPlace
    <3>4. DOMAIN Sorted(ledger) = 1 .. n /\ \A k \in 1 .. n : Sorted(ledger)[k] = ledger[k]
      BY <3>1, <3>3
    <3>5. ASSUME NEW i \in 1 .. n PROVE ~ BadAt(ledger, i)
      <4>1. ~ BadAt(Sorted(ledger), i)
        BY <2>3, <3>4, ValidScan
      <4>2. i # 1 => i - 1 \in 1 .. n
        BY <2>1
      <4> QED  BY <3>4, <4>1, <4>2 DEF BadAt
    <3> QED  BY <2>1, <3>5 DEF ChainIntact
  <2> QED  BY <2>2, <2>3 DEF VerifierExact
<1> QED  BY <1>1, LedgerTyped, SeqsDescendInvariant, PTL

-----------------------------------------------------------------------------
(***************************************************************************)
(* One rewritten row in an intact chain.  If it keeps its number the rows  *)
(* stay in place; if not, that number is missing.                          *)
(***************************************************************************)
LEMMA RenumberedIsReported ==
  ASSUME LedgerTypeOK, ChainIntact, NEW i \in DOMAIN ledger, NEW row \in AuditEntry,
         row.seq # ledger[i].seq
  PROVE  ~ VerifyAuditChain([ledger EXCEPT ![i] = row]).valid
<1> DEFINE rewritten == [ledger EXCEPT ![i] = row]
           n         == Len(ledger)
<1>1. ledger \in Seq(AuditEntry) /\ n \in Nat /\ DOMAIN ledger = 1 .. n
  BY LenProperties DEF LedgerTypeOK
<1>2. rewritten \in Seq(AuditEntry) /\ Len(rewritten) = n
  BY <1>1, ExceptSeq
<1>3. /\ rewritten[i] = row
      /\ \A j \in 1 .. n : j # i => rewritten[j] = ledger[j]
  BY <1>1
<1>4. \A j \in 1 .. n : ledger[j].seq = j - 1
  BY <1>1, IntactRows
<1> HIDE DEF rewritten, n
<1> SUFFICES ASSUME VerifyAuditChain(rewritten).valid PROVE FALSE
  BY DEF rewritten
<1>5. PICK p \in [1 .. n -> 1 .. n] : \A k \in 1 .. n : rewritten[p[k]].seq = k - 1
  BY <1>2, ValidNumbers
<1>6. i \in 1 .. n
  BY <1>1
<1>7. p[i] \in 1 .. n /\ rewritten[p[i]].seq = i - 1
  BY <1>5, <1>6
<1>8. CASE p[i] = i
  BY <1>3, <1>4, <1>6, <1>7, <1>8
<1>9. CASE p[i] # i
  <2>1. rewritten[p[i]].seq = p[i] - 1
    BY <1>3, <1>4, <1>7, <1>9
  <2>2. p[i] - 1 = i - 1
    BY <1>7, <2>1
  <2> QED  BY <1>6, <1>7, <1>9, <2>2
<1> QED  BY <1>8, <1>9

LEMMA RenumberedNot ==
  ASSUME LedgerTypeOK, ChainIntact, NEW i \in DOMAIN ledger, NEW row \in AuditEntry,
         row.seq = ledger[i].seq, VerifyAuditChain([ledger EXCEPT ![i] = row]).valid
  PROVE  /\ row.prevHash = ledger[i].prevHash
         /\ row.hash = ComputeAuditHash(row)
         /\ \A j \in DOMAIN ledger : ~ BadAt([ledger EXCEPT ![i] = row], j)
<1> DEFINE rewritten == [ledger EXCEPT ![i] = row]
           n         == Len(ledger)
<1>1. ledger \in Seq(AuditEntry) /\ n \in Nat /\ DOMAIN ledger = 1 .. n
  BY LenProperties DEF LedgerTypeOK
<1>2. rewritten \in Seq(AuditEntry) /\ Len(rewritten) = n /\ DOMAIN rewritten = 1 .. n
  BY <1>1, ExceptSeq
<1>3. /\ rewritten[i] = row
      /\ \A j \in 1 .. n : j # i => rewritten[j] = ledger[j]
  BY <1>1
<1>4. \A j \in 1 .. n : ledger[j].seq = j - 1
  BY <1>1, IntactRows
<1>5. \A j \in 1 .. n : rewritten[j].seq = j - 1
  BY <1>1, <1>3, <1>4
<1>6. i \in 1 .. n /\ (i # 1 => i - 1 \in 1 .. n /\ i - 1 # i)
  BY <1>1
<1> HIDE DEF rewritten
<1>7. Sorted(rewritten) = rewritten
  BY <1>2, <1>5, SortedInPlace
<1>8. \A j \in 1 .. n : ~ BadAt(rewritten, j)
  BY <1>2, <1>7, ValidScan DEF rewritten
<1> HIDE DEF n
<1>9. /\ row.hash = ComputeAuditHash(row)
      /\ row.prevHash = IF i = 1 THEN GenesisPrevHash ELSE rewritten[i - 1].hash
  BY <1>3, <1>6, <1>8 DEF BadAt
<1>10. ledger[i].prevHash = IF i = 1 THEN GenesisPrevHash ELSE ledger[i - 1].hash
  BY IntactRows
<1>11. row.prevHash = ledger[i].prevHash
  BY <1>3, <1>6, <1>9, <1>10
<1> QED  BY <1>1, <1>8, <1>9, <1>11 DEF rewritten, n

LEMMA KnownHashesAreHashes ==
  ASSUME LedgerTypeOK
  PROVE  KnownHashes \subseteq Hash
<1>1. GenesisPrevHash \in Hash
  BY DEF GenesisPrevHash, Hash
<1>2. \A i \in DOMAIN ledger : ledger[i] \in AuditEntry
  BY DEF LedgerTypeOK
<1> QED  BY <1>1, <1>2 DEF KnownHashes, AuditEntry

(***************************************************************************)
(* On an intact ledger of any length the scan reports every row rewritten  *)
(* in one column, and every resealed row that has a successor              *)
(* (chain.ts:13-15).                                                       *)
(***************************************************************************)
THEOREM ScanReportsRewrites == SpecLedger => []RewritesReported
<1>1. LedgerTypeOK => RewritesReported
  <2> SUFFICES ASSUME LedgerTypeOK, ChainIntact, NEW i \in DOMAIN ledger
               PROVE  /\ \A row \in OneColumnRewrites(ledger[i]) :
                           ~ VerifyAuditChain([ledger EXCEPT ![i] = row]).valid
                      /\ i < Len(ledger) => \A row \in ResealedRewrites(ledger[i]) :
                           ~ VerifyAuditChain([ledger EXCEPT ![i] = row]).valid
    BY DEF RewritesReported
  <2> DEFINE old == ledger[i]
  <2>1. /\ old \in AuditEntry /\ old.hash = ComputeAuditHash(old)
        /\ Len(ledger) \in Nat /\ i \in 1 .. Len(ledger)
    BY IntactRows, LenProperties DEF LedgerTypeOK
  <2>2. /\ old.seq \in Nat /\ old.prevHash \in Hash /\ old.hash \in Hash
        /\ old.decisionRef \in DecisionRef /\ old.actor \in Actor
    BY <2>1 DEF AuditEntry
  <2> HIDE DEF old
  <2>3. ASSUME NEW row \in OneColumnRewrites(old)
        PROVE  ~ VerifyAuditChain([ledger EXCEPT ![i] = row]).valid
    <3>1. CASE \E m \in (0 .. Len(ledger)) \ {old.seq} : row = [old EXCEPT !.seq = m]
      <4>1. row \in AuditEntry /\ row.seq # old.seq
        BY <2>1, <3>1 DEF AuditEntry
      <4> QED  BY <4>1, RenumberedIsReported DEF old
    <3>2. CASE \E h \in KnownHashes \ {old.prevHash} : row = [old EXCEPT !.prevHash = h]
      <4>1. row \in AuditEntry /\ row.seq = old.seq /\ row.prevHash # old.prevHash
        BY <2>1, <3>2, KnownHashesAreHashes DEF AuditEntry
      <4> QED  BY <4>1, RenumberedNot DEF old
    <3>3. CASE \E r \in DecisionRef \ {old.decisionRef} : row = [old EXCEPT !.decisionRef = r]
      <4>1. /\ row \in AuditEntry /\ row.seq = old.seq /\ row.hash = old.hash
            /\ row.decisionRef # old.decisionRef
        BY <2>1, <3>3 DEF AuditEntry
      <4>2. ComputeAuditHash(row) # ComputeAuditHash(old)
        BY <2>1, <4>1, HashInjective
      <4> QED  BY <2>1, <4>1, <4>2, RenumberedNot DEF old
    <3>4. CASE \E a \in Actor \ {old.actor} : row = [old EXCEPT !.actor = a]
      <4>1. /\ row \in AuditEntry /\ row.seq = old.seq /\ row.hash = old.hash
            /\ row.actor # old.actor
        BY <2>1, <3>4 DEF AuditEntry
      <4>2. ComputeAuditHash(row) # ComputeAuditHash(old)
        BY <2>1, <4>1, HashInjective
      <4> QED  BY <2>1, <4>1, <4>2, RenumberedNot DEF old
    <3>5. CASE \E h \in KnownHashes \ {old.hash} : row = [old EXCEPT !.hash = h]
      <4>1. /\ row \in AuditEntry /\ row.seq = old.seq /\ row.hash # old.hash
            /\ row.prevHash = old.prevHash
            /\ row.decisionRef = old.decisionRef /\ row.actor = old.actor
        BY <2>1, <3>5, KnownHashesAreHashes DEF AuditEntry
      <4>2. ComputeAuditHash(row) = ComputeAuditHash(old)
        BY <4>1 DEF ComputeAuditHash
      <4> QED  BY <2>1, <4>1, <4>2, RenumberedNot DEF old
    <3> QED  BY <3>1, <3>2, <3>3, <3>4, <3>5 DEF OneColumnRewrites
  <2>4. ASSUME i < Len(ledger), NEW row \in ResealedRewrites(old)
        PROVE  ~ VerifyAuditChain([ledger EXCEPT ![i] = row]).valid
    <3>1. PICK r \in DecisionRef, a \in Actor :
            row = SealedEntry([seq |-> old.seq, prevHash |-> old.prevHash], r, a)
      BY DEF ResealedRewrites
    <3>2. row \in AuditEntry /\ row.seq = old.seq
      BY <2>2, <3>1, SealedEntryProperties
    <3>3. row # ledger[i] /\ i \in 1 .. Len(ledger) - 1
      BY <2>1, <2>4 DEF ResealedRewrites, old
    <3>4. BadAt([ledger EXCEPT ![i] = row], i) \/ BadAt([ledger EXCEPT ![i] = row], i + 1)
      BY <3>2, <3>3, RewriteBreaksChain
    <3>5. i \in DOMAIN ledger /\ i + 1 \in DOMAIN ledger
      BY <2>1, <2>4, LenProperties DEF LedgerTypeOK
    <3> QED  BY <3>2, <3>4, <3>5, RenumberedNot DEF old
  <2> QED  BY <2>3, <2>4 DEF old
<1> QED  BY <1>1, LedgerTyped, PTL
=============================================================================
