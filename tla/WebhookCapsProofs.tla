------------------------- MODULE WebhookCapsProofs --------------------------
(***************************************************************************)
(* Why concurrent webhooks keep the networks' caps, when each failure is   *)
(* about an invoice of its own and payments outlive the processes.         *)
(*                                                                         *)
(* A request stores its payment before it reads the history, so of any     *)
(* failures that are granted a retry the one that read last saw all of     *)
(* them, its own included.  The invariant therefore counts a failure from  *)
(* the moment its request has passed the guardrail.                        *)
(***************************************************************************)
EXTENDS WebhookIngestProofs, FiniteSetTheorems

Scopes == {ScopeOf[e] : e \in Events}

(* Failures past the guardrail: to be scheduled, to be saved, or granted.  *)
ToBeGranted(h) ==
  \/ pc[h] = "score"
  \/ pc[h] = "save" /\ draft[h].action = "RETRY"

Committed == {d.event : d \in granted} \cup {job[h] : h \in {g \in Requests : ToBeGranted(g)}}

Recent(failures, scope, from) ==
  {e \in failures : ScopeOf[e] = scope /\ happened[e].ts > from}

BelowCaps(failures) ==
  \A scope \in Scopes :
    /\ NetworkOf[scope] = "visa" =>
         Cardinality(Recent(failures, scope, clock - Window30d)) < VisaMax30d
    /\ NetworkOf[scope] = "mastercard" =>
         /\ Cardinality(Recent(failures, scope, clock - Window30d)) < McMax30d
         /\ Cardinality(Recent(failures, scope, clock - Window24h)) < McMax24h

(* A payment is stored under its invoice, and before its request reads the *)
(* history.                                                                *)
StoredOK ==
  /\ \A i \in Invoices : payments[i] # NoEvent => InvoiceOf[payments[i]] = i
  /\ \A h \in Requests :
       pc[h] \in {"history", "score", "save"} /\ job[h] \in Events
         => payments[InvoiceOf[job[h]]] = job[h]
  /\ \A e \in Committed : e \in Events /\ payments[InvoiceOf[e]] = e

DatedOK == \A e \in Events : happened[e] # NoEvent => happened[e].ts <= clock

KnownOK == \A i \in Invoices : payments[i] # NoEvent => happened[payments[i]] # NoEvent

DraftsOK ==
  /\ \A h \in Requests : pc[h] = "save" /\ draft[h].action = "RETRY" => draft[h].event = job[h]
  /\ \A d \in granted : d.action = "RETRY"

CapsInv ==
  /\ IngestInv
  /\ StoredOK /\ DatedOK /\ KnownOK /\ DraftsOK
  /\ BelowCaps(Committed)

Distinct ==
  /\ Store = "postgres" /\ IsFiniteSet(Events)
  /\ \A e, f \in Events : InvoiceOf[e] = InvoiceOf[f] => e = f

-----------------------------------------------------------------------------
(***************************************************************************)
(* Fewer failures, looked at later, are below the caps as well.            *)
(***************************************************************************)
LEMMA FewerBelowCaps ==
  ASSUME IsFiniteSet(Events), NEW failures \in SUBSET Events, BelowCaps(failures),
         WorldOK, WorldOK',
         NEW fewer \in SUBSET failures, clock' >= clock,
         \A e \in fewer : happened[e] # NoEvent /\ happened'[e] = happened[e]
  PROVE  BelowCaps(fewer)'
<1>1. ASSUME NEW scope \in Scopes, NEW width \in Nat
      PROVE  Cardinality(Recent(fewer, scope, clock - width)')
               <= Cardinality(Recent(failures, scope, clock - width))
  <2>1. clock \in Nat /\ clock' \in Nat
    BY Bounds DEF WorldOK
  <2>2. Recent(fewer, scope, clock - width)' \subseteq Recent(failures, scope, clock - width)
    <3>1. ASSUME NEW e \in fewer, happened'[e].ts > clock' - width
          PROVE  happened[e].ts > clock - width
      <4>1. happened[e].ts \in Nat
        BY DEF WorldOK, Failure
      <4> QED
        BY <2>1, <3>1, <4>1
    <3> QED
      BY <3>1 DEF Recent
  <2>3. IsFiniteSet(Recent(failures, scope, clock - width))
    BY FS_Subset DEF Recent
  <2> QED
    BY <2>2, <2>3, FS_Subset
<1>2. ASSUME NEW scope \in Scopes, NEW width \in Nat
      PROVE  /\ Cardinality(Recent(fewer, scope, clock - width)') \in Nat
             /\ Cardinality(Recent(failures, scope, clock - width)) \in Nat
  <2>1. Recent(fewer, scope, clock - width)' \subseteq Events
    BY DEF Recent
  <2>2. Recent(failures, scope, clock - width) \subseteq Events
    BY DEF Recent
  <2> QED
    BY <2>1, <2>2, FS_Subset, FS_CardinalityType
<1>3. Window30d \in Nat /\ Window24h \in Nat /\ VisaMax30d \in Nat /\ McMax30d \in Nat
      /\ McMax24h \in Nat
  BY CapAssumption DEF CapAssumption
<1>4. ASSUME NEW scope \in Scopes, NEW width \in Nat, NEW cap \in Nat,
             Cardinality(Recent(failures, scope, clock - width)) < cap
      PROVE  Cardinality(Recent(fewer, scope, clock - width)') < cap
  BY <1>1, <1>2, <1>4
<1> QED
  BY <1>3, <1>4 DEF BelowCaps, Scopes

(***************************************************************************)
(* What the guardrail counts is at least what has been committed: the      *)
(* invoice of every committed failure is one attempt on record.            *)
(***************************************************************************)
Attempts(scope, from) ==
  LET history == AttemptsForScope(scope)
  IN  {k \in DOMAIN history : history[k].scopeKey = scope /\ history[k].ts > from}

LEMMA CommittedAreAttempts ==
  ASSUME Distinct, IngestInv, StoredOK, KnownOK, NEW scope \in Scopes, NEW from \in Int,
         NEW e \in Events, payments[InvoiceOf[e]] = e, happened[e] # NoEvent
  PROVE  /\ Cardinality(Recent(Committed \cup {e}, scope, from)) \in Nat
         /\ Cardinality(Attempts(scope, from)) \in Nat
         /\ Cardinality(Recent(Committed \cup {e}, scope, from))
              <= Cardinality(Attempts(scope, from))
<1> DEFINE recent   == Recent(Committed \cup {e}, scope, from)
           attempts == Attempts(scope, from)
           invoice  == [f \in recent |-> InvoiceOf[f]]
<1>1. \A f \in recent : /\ f \in Events /\ payments[InvoiceOf[f]] = f
                        /\ ScopeOf[f] = scope /\ happened[f].ts > from
  BY DEF Recent, StoredOK
<1>2. \A f \in Events : InvoiceOf[f] \in Invoices /\ f # NoEvent
  BY IngestAssumption DEF IngestAssumption, Invoices
<1>3. \A f \in recent : InvoiceOf[f] \in attempts
  BY <1>1, <1>2 DEF Attempts, AttemptsForScope
<1>4. invoice \in Injection(recent, attempts)
  BY <1>1, <1>3 DEF Distinct, Injection, IsInjective
<1>5. IsFiniteSet(attempts)
  <2>1. IsFiniteSet({InvoiceOf[f] : f \in Events})
    <3>1. InvoiceOf \in Surjection(Events, {InvoiceOf[f] : f \in Events})
      BY IngestAssumption DEF IngestAssumption, Surjection
    <3> QED
      BY <3>1, FS_Surjection DEF Distinct
  <2>2. attempts \subseteq {InvoiceOf[f] : f \in Events}
    <3>1. ASSUME NEW i \in attempts
          PROVE  i \in {InvoiceOf[f] : f \in Events}
      <4>1. i \in Invoices /\ payments[i] # NoEvent
        BY <3>1 DEF Attempts, AttemptsForScope
      <4>2. payments[i] \in Events /\ InvoiceOf[payments[i]] = i
        BY <4>1 DEF StoredOK, IngestInv, StoresOK
      <4> QED
        BY <4>2
    <3> QED
      BY <3>1
  <2> QED
    BY <2>1, <2>2, FS_Subset
<1>6. IsFiniteSet(recent) /\ Cardinality(recent) <= Cardinality(attempts)
  BY <1>4, <1>5, FS_Injection
<1> QED
  BY <1>5, <1>6, FS_CardinalityType

LEMMA AdmissionKeepsCaps ==
  ASSUME Distinct, CapsInv, NEW e \in Events, payments[InvoiceOf[e]] = e,
         happened[e] # NoEvent, NEW triaged,
         Allowed([scopeKey |-> ScopeOf[e], network |-> NetworkOf[ScopeOf[e]],
                  triageAction |-> triaged, now |-> clock], AttemptsForScope(ScopeOf[e]))
  PROVE  BelowCaps(Committed \cup {e})
<1> DEFINE mine == ScopeOf[e]
           history == AttemptsForScope(mine)
<1>0. /\ IngestInv /\ StoredOK /\ KnownOK /\ DatedOK /\ BelowCaps(Committed)
      /\ clock \in Nat
      /\ {Window30d, Window24h, VisaMax30d, McMax30d, McMax24h} \subseteq Nat
  BY Bounds, CapAssumption DEF CapsInv, IngestInv, CapAssumption
<1>1. \A width \in Nat : CountAfter(history, mine, clock - width)
                          = Cardinality(Attempts(mine, clock - width))
  BY DEF CountAfter, Attempts
<1>2. CountWithin(history, mine, clock - Window24h, clock + Window24h)
        = Cardinality(Attempts(mine, clock - Window24h))
  <2>1. \A k \in DOMAIN history : history[k].ts <= clock + Window24h
    <3>1. ASSUME NEW k \in DOMAIN history
          PROVE  history[k].ts <= clock + Window24h
      <4>1. /\ k \in Invoices /\ payments[k] # NoEvent
            /\ history[k].ts = happened[payments[k]].ts
        BY <3>1 DEF AttemptsForScope
      <4>2. payments[k] \in Events
        BY <1>0, <4>1 DEF IngestInv, StoresOK
      <4>3. happened[payments[k]] # NoEvent
        BY <1>0, <4>1, <4>2 DEF KnownOK
      <4>4. happened[payments[k]].ts <= clock /\ happened[payments[k]].ts \in Nat
        BY <1>0, <4>2, <4>3 DEF DatedOK, IngestInv, WorldOK, Failure
      <4> QED
        BY <1>0, <4>1, <4>4
    <3> QED
      BY <3>1
  <2> QED
    BY <2>1 DEF CountWithin, Attempts
<1>3. ASSUME NEW scope \in Scopes, scope # mine
      PROVE  \A from : Recent(Committed \cup {e}, scope, from) = Recent(Committed, scope, from)
  BY <1>3 DEF Recent
<1>4. ASSUME NEW width \in Nat, NEW cap \in Nat,
             ~ (Cardinality(Attempts(mine, clock - width)) >= cap)
      PROVE  Cardinality(Recent(Committed \cup {e}, mine, clock - width)) < cap
  <2>1. clock - width \in Int /\ mine \in Scopes
    BY <1>0 DEF Scopes
  <2> QED
    BY <1>0, <1>4, <2>1, CommittedAreAttempts
<1>5. /\ NetworkOf[mine] = "visa" =>
           ~ (Cardinality(Attempts(mine, clock - Window30d)) >= VisaMax30d)
      /\ NetworkOf[mine] = "mastercard" =>
           /\ ~ (Cardinality(Attempts(mine, clock - Window30d)) >= McMax30d)
           /\ ~ (Cardinality(Attempts(mine, clock - Window24h)) >= McMax24h)
  BY <1>0, <1>1, <1>2 DEF Allowed, OverVisaCap, OverMc24hCap, OverMc30dCap
<1> QED
  BY <1>0, <1>3, <1>4, <1>5 DEF BelowCaps

-----------------------------------------------------------------------------
(***************************************************************************)
(* Steps that bring no failure past the guardrail and store no payment.    *)
(***************************************************************************)
LEMMA NothingNewKeepsCaps ==
  ASSUME Distinct, CapsInv, IngestInv', UNCHANGED payments, clock' >= clock,
         \A e \in Events : \/ happened'[e] = happened[e]
                           \/ happened[e] = NoEvent /\ happened'[e].ts <= clock',
         \A d \in granted' :
           d \in granted \/ \E h \in Requests : pc[h] = "save" /\ d = draft[h]
                                              /\ d.action = "RETRY",
         \A h \in Requests :
           pc'[h] \in {"history", "score", "save"} /\ job'[h] \in Events =>
             /\ pc[h] \in {"history", "score", "save"} /\ job'[h] = job[h]
             /\ ToBeGranted(h)' => ToBeGranted(h)
             /\ pc'[h] = "save" /\ draft'[h].action = "RETRY" => draft'[h].event = job[h]
  PROVE  CapsInv'
<1>0. /\ IngestInv /\ StoredOK /\ DatedOK /\ KnownOK /\ DraftsOK /\ BelowCaps(Committed)
      /\ WorldOK /\ WorldOK' /\ RequestsOK' /\ StoresOK
      /\ clock \in Nat /\ clock' \in Nat
  <2>1. WorldOK /\ WorldOK' /\ RequestsOK' /\ StoresOK
    BY DEF CapsInv, IngestInv
  <2> QED
    BY <2>1, Bounds DEF CapsInv, WorldOK
<1>1. \A h \in Requests : ToBeGranted(h)' => job'[h] \in Events
  BY DEF IngestInv, HoldsWhatItNeeds, ToBeGranted
<1>2. \A h \in Requests : ToBeGranted(h)' => ToBeGranted(h) /\ job'[h] = job[h]
  BY <1>1 DEF ToBeGranted
<1>3. \A d \in granted' : d.event \in Committed /\ d.action = "RETRY"
  <2>1. ASSUME NEW d \in granted'
        PROVE  d.event \in Committed /\ d.action = "RETRY"
    <3>1. CASE d \in granted
      BY <1>0, <3>1 DEF Committed, DraftsOK
    <3>2. CASE d \notin granted
      <4>1. PICK h \in Requests : pc[h] = "save" /\ d = draft[h] /\ d.action = "RETRY"
        BY <2>1, <3>2
      <4>2. d.event = job[h] /\ ToBeGranted(h)
        BY <1>0, <4>1 DEF DraftsOK, ToBeGranted
      <4> QED
        BY <4>1, <4>2 DEF Committed
    <3> QED
      BY <3>1, <3>2
  <2> QED
    BY <2>1
<1>4. Committed' \subseteq Committed
  BY <1>2, <1>3 DEF Committed
<1>5. \A e \in Committed : /\ e \in Events /\ payments[InvoiceOf[e]] = e
                          /\ happened[e] # NoEvent
  <2>1. ASSUME NEW e \in Committed
        PROVE  e \in Events /\ payments[InvoiceOf[e]] = e /\ happened[e] # NoEvent
    <3>1. e \in Events /\ payments[InvoiceOf[e]] = e
      BY <1>0 DEF StoredOK
    <3>2. InvoiceOf[e] \in Invoices /\ e # NoEvent
      BY <3>1, IngestAssumption DEF IngestAssumption, Invoices
    <3> QED
      BY <1>0, <3>1, <3>2 DEF KnownOK
  <2> QED
    BY <2>1
<1>6. StoredOK'
  <2>1. \A i \in Invoices : payments'[i] # NoEvent => InvoiceOf[payments'[i]] = i
    BY <1>0 DEF StoredOK
  <2>2. \A h \in Requests :
          pc'[h] \in {"history", "score", "save"} /\ job'[h] \in Events
            => payments'[InvoiceOf[job'[h]]] = job'[h]
    BY <1>0 DEF StoredOK
  <2>3. \A e \in Committed' : e \in Events /\ payments'[InvoiceOf[e]] = e
    BY <1>4, <1>5
  <2> QED
    BY <2>1, <2>2, <2>3 DEF StoredOK, Invoices
<1>7. DatedOK'
  <2>1. ASSUME NEW e \in Events, happened'[e] # NoEvent
        PROVE  happened'[e].ts <= clock'
    <3>1. CASE happened'[e] = happened[e]
      <4>1. happened[e].ts <= clock /\ happened[e].ts \in Nat
        BY <1>0, <2>1, <3>1 DEF DatedOK, WorldOK, Failure
      <4> QED
        BY <1>0, <3>1, <4>1
    <3>2. CASE happened'[e] # happened[e]
      BY <3>2
    <3> QED
      BY <3>1, <3>2
  <2> QED
    BY <2>1 DEF DatedOK
<1>8. KnownOK'
  <2>1. \A i \in Invoices : payments[i] # NoEvent => payments[i] \in Events
    BY <1>0 DEF StoresOK
  <2> QED
    BY <1>0, <2>1 DEF KnownOK, Invoices
<1>9. DraftsOK'
  <2>1. ASSUME NEW h \in Requests, pc'[h] = "save", draft'[h].action = "RETRY"
        PROVE  draft'[h].event = job'[h]
    <3>1. job'[h] \in Events
      BY <2>1, <1>1 DEF ToBeGranted
    <3> QED
      BY <2>1, <3>1
  <2> QED
    BY <1>3, <2>1 DEF DraftsOK
<1>10. BelowCaps(Committed)' 
  <2>1. Committed \in SUBSET Events /\ Committed' \in SUBSET Committed
    BY <1>4, <1>5
  <2>2. \A e \in Committed' : happened[e] # NoEvent /\ happened'[e] = happened[e]
    BY <1>4, <1>5
  <2>3. IsFiniteSet(Events)
    BY DEF Distinct
  <2> DEFINE fewer == Committed'
  <2>4. \A e \in fewer : happened[e] # NoEvent /\ happened'[e] = happened[e]
    BY <2>2
  <2> QED
    BY <1>0, <2>1, <2>3, <2>4, FewerBelowCaps
<1> QED
  BY <1>6, <1>7, <1>8, <1>9, <1>10 DEF CapsInv

(***************************************************************************)
(* insert: the invoice is the failure's own, so Postgres has it afterwards *)
(* whether it was there before or not.                                     *)
(***************************************************************************)
LEMMA InsertKeepsCaps ==
  ASSUME Distinct, CapsInv, IngestInv', NEW h \in Requests, InsertPayment(h)
  PROVE  CapsInv'
<1> DEFINE e == job[h]
           i == InvoiceOf[e]
<1>0. /\ IngestInv /\ StoredOK /\ DatedOK /\ KnownOK /\ DraftsOK /\ BelowCaps(Committed)
      /\ WorldOK /\ WorldOK' /\ RequestsOK /\ StoresOK
      /\ clock \in Nat
      /\ UNCHANGED <<clock, happened, granted>>
  <2>1. WorldOK /\ WorldOK' /\ RequestsOK /\ StoresOK
    BY DEF CapsInv, IngestInv
  <2> QED
    BY <2>1, Bounds DEF CapsInv, InsertPayment, stripeVars
<1>1. /\ e \in Events /\ happened[e] # NoEvent /\ pc[h] = "insert"
      /\ i \in Invoices /\ e # NoEvent
  BY <1>0, IngestAssumption
     DEF InsertPayment, IngestInv, HoldsWhatItNeeds, IngestAssumption, Invoices
<1>2. /\ payments'[i] = e
      /\ \A j \in Invoices : payments'[j] = payments[j] \/ j = i
      /\ \A j \in Invoices : payments[j] # NoEvent => payments'[j] = payments[j]
  <2>1. payments[i] # NoEvent => payments[i] = e
    BY <1>0, <1>1 DEF StoredOK, StoresOK, Distinct
  <2> QED
    BY <1>0, <1>1, <2>1 DEF InsertPayment, StorePayment, StoresOK, Distinct
<1>3. \/ pc'[h] = "history" /\ job' = job /\ \A g \in Requests : g # h => pc'[g] = pc[g]
      \/ pc'[h] = "idle" /\ \A g \in Requests : g # h => pc'[g] = pc[g] /\ job'[g] = job[g]
  BY <1>0, AwaitMovesOne, AnswerLeavesPipeline DEF InsertPayment, FailsAfterEffect
<1>4. \A g \in Requests : g # h => draft'[g] = draft[g]
  BY <1>0 DEF InsertPayment, Await, FailsAfterEffect, Answer, RequestsOK
<1>5. \A g \in Requests : ToBeGranted(g)' =>
        /\ ToBeGranted(g) /\ job'[g] = job[g] /\ draft'[g] = draft[g] /\ pc'[g] = pc[g]
  BY <1>3, <1>4 DEF ToBeGranted
<1>6. Committed' \subseteq Committed
  BY <1>0, <1>5 DEF Committed
<1>7. \A f \in Events : InvoiceOf[f] \in Invoices /\ f # NoEvent
  BY IngestAssumption DEF IngestAssumption, Invoices
<1>8. \A f \in Committed : f \in Events /\ payments[InvoiceOf[f]] = f /\ happened[f] # NoEvent
  BY <1>0, <1>7 DEF StoredOK, KnownOK
<1>9. StoredOK'
  <2>1. \A j \in Invoices : payments'[j] # NoEvent => InvoiceOf[payments'[j]] = j
    BY <1>0, <1>2 DEF StoredOK
  <2>2. ASSUME NEW g \in Requests, pc'[g] \in {"history", "score", "save"}, job'[g] \in Events
        PROVE  payments'[InvoiceOf[job'[g]]] = job'[g]
    <3>1. CASE g = h
      BY <1>2, <1>3, <2>2, <3>1
    <3>2. CASE g # h
      <4>1. payments[InvoiceOf[job[g]]] = job[g] /\ job'[g] = job[g] /\ job[g] \in Events
        BY <1>0, <1>3, <2>2, <3>2 DEF StoredOK
      <4> QED
        BY <1>2, <1>7, <4>1
    <3> QED
      BY <3>1, <3>2
  <2>3. \A f \in Committed' : f \in Events /\ payments'[InvoiceOf[f]] = f
    BY <1>2, <1>6, <1>7, <1>8
  <2> QED
    BY <2>1, <2>2, <2>3 DEF StoredOK, Invoices
<1>10. DatedOK'
  BY <1>0 DEF DatedOK
<1>11. KnownOK'
  BY <1>0, <1>1, <1>2 DEF KnownOK, Invoices
<1>12. DraftsOK'
  BY <1>0, <1>3, <1>4 DEF DraftsOK
<1>13. BelowCaps(Committed)'
  <2>1. Committed \in SUBSET Events /\ Committed' \in SUBSET Committed
    BY <1>6, <1>8
  <2>2. \A f \in Committed' : happened[f] # NoEvent /\ happened'[f] = happened[f]
    BY <1>0, <1>6, <1>8
  <2>3. IsFiniteSet(Events) /\ clock' >= clock
    BY <1>0 DEF Distinct
  <2> QED
    BY <1>0, <2>1, <2>2, <2>3, FewerBelowCaps
<1> QED
  BY <1>9, <1>10, <1>11, <1>12, <1>13 DEF CapsInv

(***************************************************************************)
(* The guardrail lets a failure pass: it joins the committed ones.         *)
(***************************************************************************)
LEMMA AdmitKeepsCaps ==
  ASSUME Distinct, CapsInv, IngestInv', NEW h \in Requests, job[h] \in Events,
         ReadHistory(h), Await(h, "score", NoDecision)
  PROVE  CapsInv'
<1> DEFINE e == job[h]
           triaged == TriageAction(NetworkOf[ScopeOf[e]], happened[e].payload)
<1>0. /\ IngestInv /\ StoredOK /\ DatedOK /\ KnownOK /\ DraftsOK /\ BelowCaps(Committed)
      /\ RequestsOK /\ pc[h] = "history" /\ e \in Events /\ e # Probe
      /\ UNCHANGED <<clock, happened, granted, payments>>
  BY IngestAssumption
     DEF CapsInv, IngestInv, ReadHistory, stripeVars, storeVars, IngestAssumption
<1>1. payments[InvoiceOf[e]] = e /\ happened[e] # NoEvent
  BY <1>0 DEF StoredOK, IngestInv, HoldsWhatItNeeds
<1>2. /\ pc' = [pc EXCEPT ![h] = "score"] /\ job' = job
      /\ draft' = [draft EXCEPT ![h] = NoDecision]
  BY DEF Await
<1>3. Allowed([scopeKey |-> ScopeOf[e], network |-> NetworkOf[ScopeOf[e]],
               triageAction |-> triaged, now |-> clock], AttemptsForScope(ScopeOf[e]))
  <2>1. DecideNow(h, e)
    BY <1>0 DEF ReadHistory
  <2>2. ~ \E d : Await(h, "save", d)
    BY <1>0, <1>2 DEF Await, RequestsOK
  <2> QED
    BY <2>1, <2>2 DEF DecideNow
<1>4. BelowCaps(Committed \cup {e})
  BY <1>0, <1>1, <1>3, AdmissionKeepsCaps
<1>5. \A g \in Requests : g # h => pc'[g] = pc[g] /\ draft'[g] = draft[g]
  BY <1>0, <1>2 DEF RequestsOK
<1>6. Committed' = Committed \cup {e}
  <2>1. pc'[h] = "score" /\ ~ ToBeGranted(h)
    BY <1>0, <1>2 DEF RequestsOK, ToBeGranted
  <2>2. \A g \in Requests : ToBeGranted(g)' <=> ToBeGranted(g) \/ g = h
    BY <1>5, <2>1 DEF ToBeGranted
  <2> QED
    BY <1>0, <1>2, <2>2 DEF Committed
<1>7. BelowCaps(Committed)'
  BY <1>0, <1>4, <1>6 DEF BelowCaps, Recent, Scopes
<1>8. StoredOK'
  BY <1>0, <1>1, <1>2, <1>5, <1>6 DEF StoredOK, Invoices
<1>9. DatedOK' /\ KnownOK'
  BY <1>0 DEF DatedOK, KnownOK, Invoices
<1>10. DraftsOK'
  <2>1. pc'[h] = "score"
    BY <1>0, <1>2 DEF RequestsOK
  <2> QED
    BY <1>0, <1>2, <1>5, <2>1 DEF DraftsOK
<1> QED
  BY <1>7, <1>8, <1>9, <1>10 DEF CapsInv

LEMMA HandlerKeepsCaps ==
  ASSUME Distinct, CapsInv, IngestInv', NEW h \in Requests, HandlerStep(h)
  PROVE  CapsInv'
<1>0. /\ IngestInv /\ RequestsOK /\ WorldOK /\ DraftsOK /\ clock \in Nat
      /\ HoldsWhatItNeeds(h)
  BY Bounds DEF CapsInv, IngestInv
<1>1. CASE InsertPayment(h)
  BY <1>1, InsertKeepsCaps
<1>2. CASE ~ InsertPayment(h)
  <2>1. UNCHANGED <<clock, happened, payments>>
    BY <1>2 DEF HandlerStep, Duplicate, Reserve, ReadHistory, Schedule, SaveDecision,
                ReadHead, AppendAudit, AppendRejected, stripeVars, storeVars
  <2>2. CASE job[h] \in Events /\ ReadHistory(h) /\ Await(h, "score", NoDecision)
    BY <2>2, AdmitKeepsCaps
  <2>3. CASE Schedule(h)
    <3>1. PICK d \in [action : {"RETRY"}, actor : {"MODEL", "RULE"}, event : {job[h]},
                      scheduledFor : Int] : Await(h, "save", d)
      <4>1. PICK actor \in {"MODEL", "RULE"}, offset \in Offsets :
              Await(h, "save", [action |-> "RETRY", actor |-> actor, event |-> job[h],
                                scheduledFor |-> happened[job[h]].ts + offset])
        BY <2>3 DEF Schedule
      <4>2. happened[job[h]].ts + offset \in Int
        BY <1>0, <2>3, IngestAssumption
           DEF Schedule, HoldsWhatItNeeds, WorldOK, Failure, IngestAssumption
      <4> QED
        BY <4>1, <4>2
    <3>2. /\ pc[h] = "score" /\ pc'[h] = "save" /\ job' = job /\ draft'[h].event = job[h]
          /\ \A g \in Requests : g # h => pc'[g] = pc[g] /\ draft'[g] = draft[g]
          /\ UNCHANGED granted
      BY <1>0, <2>3, <3>1 DEF Schedule, Await, RequestsOK, storeVars
    <3>3. \A g \in Requests :
            pc'[g] \in {"history", "score", "save"} /\ job'[g] \in Events =>
              /\ pc[g] \in {"history", "score", "save"} /\ job'[g] = job[g]
              /\ ToBeGranted(g)' => ToBeGranted(g)
              /\ pc'[g] = "save" /\ draft'[g].action = "RETRY" => draft'[g].event = job[g]
      BY <1>0, <3>2 DEF ToBeGranted, DraftsOK
    <3> QED
      BY <1>0, <2>1, <3>2, <3>3, NothingNewKeepsCaps
  <2>4. CASE SaveDecision(h)
    <3>1. \A d \in granted' : d \in granted \/ (d = draft[h] /\ d.action = "RETRY")
      BY <2>4 DEF SaveDecision
    <3>2. pc[h] = "save" /\ pc'[h] \in {"latest", "idle"}
      BY <1>0, <2>4, AwaitMovesOne, AnswerLeavesPipeline DEF SaveDecision, FailsAfterEffect
    <3>3. \A g \in Requests : g # h => /\ pc'[g] = pc[g] /\ job'[g] = job[g]
                                      /\ draft'[g] = draft[g]
      BY <1>0, <2>4 DEF SaveDecision, FailsAfterEffect, Await, Answer, RequestsOK
    <3>4. \A g \in Requests :
            pc'[g] \in {"history", "score", "save"} /\ job'[g] \in Events =>
              /\ pc[g] \in {"history", "score", "save"} /\ job'[g] = job[g]
              /\ ToBeGranted(g)' => ToBeGranted(g)
              /\ pc'[g] = "save" /\ draft'[g].action = "RETRY" => draft'[g].event = job[g]
      BY <1>0, <3>2, <3>3 DEF ToBeGranted, DraftsOK
    <3> QED
      BY <1>0, <2>1, <3>1, <3>2, <3>4, NothingNewKeepsCaps
  <2>5. CASE /\ ~ Schedule(h) /\ ~ SaveDecision(h)
             /\ ~ (job[h] \in Events /\ ReadHistory(h) /\ Await(h, "score", NoDecision))
    <3>1. UNCHANGED granted
      BY <1>2, <2>5 DEF HandlerStep, Duplicate, Reserve, ReadHistory, ReadHead, AppendAudit,
                        AppendRejected, storeVars
    <3>2. \/ \E ok \in BOOLEAN : Answer(h, ok)
          \/ \E next \in {"insert", "latest", "append"} : \E d : Await(h, next, d)
          \/ pc[h] = "history" /\ \E action \in {"SUPPRESS", "ASK_CUSTOMER"} :
               Await(h, "save", Settled(action, job[h]))
      <4>1. CASE ReadHistory(h)
        <5>1. job[h] \in Events \/ job[h] = Probe
          BY <1>0, <4>1 DEF ReadHistory, HoldsWhatItNeeds
        <5>2. CASE job[h] = Probe
          BY <4>1, <5>2 DEF ReadHistory
        <5>3. CASE job[h] # Probe
          <6>1. DecideNow(h, job[h]) /\ pc[h] = "history"
            BY <4>1, <5>3 DEF ReadHistory
          <6>2. ~ Await(h, "score", NoDecision)
            BY <2>5, <4>1, <5>1, <5>3
          <6> QED
            BY <6>1, <6>2 DEF DecideNow
        <5> QED
          BY <5>2, <5>3
      <4>2. CASE ~ ReadHistory(h)
        BY <1>2, <2>5, <4>2 DEF HandlerStep, Duplicate, Reserve, ReadHead, AppendAudit,
                                AppendRejected, FailsAfterEffect
      <4> QED
        BY <4>1, <4>2
    <3>3. \A g \in Requests : g # h => /\ pc'[g] = pc[g] /\ job'[g] = job[g]
                                      /\ draft'[g] = draft[g]
      BY <1>0, <3>2 DEF Await, Answer, RequestsOK
    <3>4. \/ pc'[h] \in {"idle", "insert", "latest", "append"}
          \/ /\ pc[h] = "history" /\ pc'[h] = "save" /\ job'[h] = job[h]
             /\ draft'[h].action # "RETRY"
      BY <1>0, <3>2 DEF Await, Answer, RequestsOK, Settled
    <3>5. \A g \in Requests :
            pc'[g] \in {"history", "score", "save"} /\ job'[g] \in Events =>
              /\ pc[g] \in {"history", "score", "save"} /\ job'[g] = job[g]
              /\ ToBeGranted(g)' => ToBeGranted(g)
              /\ pc'[g] = "save" /\ draft'[g].action = "RETRY" => draft'[g].event = job[g]
      BY <1>0, <3>3, <3>4 DEF ToBeGranted, DraftsOK
    <3> QED
      BY <1>0, <2>1, <3>1, <3>5, NothingNewKeepsCaps
  <2> QED
    BY <2>2, <2>3, <2>4, <2>5
<1> QED
  BY <1>1, <1>2

(***************************************************************************)
(* The other steps move no request towards a grant.                        *)
(***************************************************************************)
LEMMA OthersKeepCaps ==
  ASSUME Distinct, CapsInv, IngestInv', UNCHANGED <<payments, granted>>, clock' >= clock,
         \A e \in Events : \/ happened'[e] = happened[e]
                           \/ happened[e] = NoEvent /\ happened'[e].ts <= clock',
         \A g \in Requests : pc'[g] \in {"history", "score", "save"} /\ job'[g] \in Events =>
           pc'[g] = pc[g] /\ job'[g] = job[g] /\ draft'[g] = draft[g]
  PROVE  CapsInv'
  BY NothingNewKeepsCaps DEF ToBeGranted, CapsInv, DraftsOK

LEMMA CapsInvInductive ==
  ASSUME Distinct
  PROVE  CapsInv /\ [Next]_vars => CapsInv'
<1> SUFFICES ASSUME CapsInv, [Next]_vars
             PROVE  CapsInv'
  OBVIOUS
<1>0. /\ IngestInv /\ IngestInv' /\ RequestsOK /\ WorldOK /\ clock \in Nat
  BY IngestInvInductive, Bounds DEF CapsInv, IngestInv
<1>1. CASE Tick \/ UNCHANGED vars
  <2>1. /\ UNCHANGED <<payments, granted, happened, pc, job, draft>>
        /\ clock' = clock \/ clock' = clock + 1
    BY <1>1 DEF Tick, vars, stripeVars, storeVars, requestVars
  <2>2. clock' >= clock
    BY <1>0, <2>1
  <2> QED
    BY <1>0, <2>1, <2>2, OthersKeepCaps
<1>2. ASSUME NEW e \in Events, PaymentFails(e)
      PROVE  CapsInv'
  <2>1. UNCHANGED <<payments, granted, clock, pc, job, draft>>
    BY <1>2 DEF PaymentFails, storeVars, requestVars
  <2>2. \A f \in Events : \/ happened'[f] = happened[f]
                          \/ happened[f] = NoEvent /\ happened'[f].ts <= clock'
    BY <1>0, <1>2 DEF PaymentFails, WorldOK
  <2> QED
    BY <1>0, <2>1, <2>2, OthersKeepCaps
<1>3. ASSUME NEW h \in Requests, StartProbe(h) \/ \E e \in Events : Deliver(h, e)
      PROVE  CapsInv'
  <2>1. UNCHANGED <<payments, granted, clock, happened, draft>>
    BY <1>3 DEF Deliver, StartProbe, storeVars, stripeVars
  <2>2. \A g \in Requests : pc'[g] \in {"history", "score", "save"} /\ job'[g] \in Events =>
          pc'[g] = pc[g] /\ job'[g] = job[g]
    BY <1>0, <1>3, IngestAssumption
       DEF Deliver, StartProbe, RequestsOK, IngestAssumption
  <2> QED
    BY <1>0, <2>1, <2>2, OthersKeepCaps
<1>4. ASSUME NEW e \in Events, RefuseDelivery(e)
      PROVE  CapsInv'
  <2>1. UNCHANGED <<payments, granted, clock, happened, pc, job, draft>>
    BY <1>4 DEF RefuseDelivery, storeVars, requestVars
  <2> QED
    BY <1>0, <2>1, OthersKeepCaps
<1>5. ASSUME NEW h \in Requests, HandlerStep(h)
      PROVE  CapsInv'
  BY <1>0, <1>5, HandlerKeepsCaps
<1>6. ASSUME NEW h \in Requests, FailsBeforeEffect(h)
      PROVE  CapsInv'
  <2>1. UNCHANGED <<payments, granted, clock, happened>> /\ Answer(h, FALSE)
    BY <1>6 DEF FailsBeforeEffect, storeVars, stripeVars
  <2>2. \A g \in Requests : pc'[g] \in {"history", "score", "save"} =>
          pc'[g] = pc[g] /\ job'[g] = job[g] /\ draft'[g] = draft[g]
    BY <1>0, <2>1 DEF Answer, RequestsOK
  <2> QED
    BY <1>0, <2>1, <2>2, OthersKeepCaps
<1>7. ASSUME NEW p \in Processes, Crash(p)
      PROVE  CapsInv'
  <2>1. UNCHANGED <<payments, granted, clock, happened>>
    BY <1>7, StoreAssumption DEF Crash, Distinct, stripeVars
  <2>2. \A g \in Requests : pc'[g] \in {"history", "score", "save"} =>
          pc'[g] = pc[g] /\ job'[g] = job[g] /\ draft'[g] = draft[g]
    BY <1>7 DEF Crash
  <2> QED
    BY <1>0, <2>1, <2>2, OthersKeepCaps
<1> QED
  BY <1>1, <1>2, <1>3, <1>4, <1>5, <1>6, <1>7 DEF Next

LEMMA CapsInvariant ==
  ASSUME Distinct
  PROVE  Spec => []CapsInv
<1>1. Init => CapsInv
  <2> SUFFICES ASSUME Init PROVE CapsInv
    OBVIOUS
  <2>1. Committed = {}
    BY DEF Init, Committed, ToBeGranted
  <2>2. \A scope, from : Recent(Committed, scope, from) = {}
    BY <2>1 DEF Recent
  <2>3. BelowCaps(Committed)
    BY <2>2, FS_EmptySet, CapAssumption DEF BelowCaps, CapAssumption
  <2>4. StoredOK /\ DatedOK /\ KnownOK /\ DraftsOK
    BY <2>1 DEF Init, StoredOK, DatedOK, KnownOK, DraftsOK
  <2> QED
    BY <2>3, <2>4, IngestInvInit DEF CapsInv
<1> QED
  BY <1>1, CapsInvInductive, PTL DEF Spec

(* What is granted is committed, and so below the caps.                    *)
LEMMA GrantedBelowCaps ==
  ASSUME IsFiniteSet(Events), CapsInv, NEW scope \in Scopes, NEW width \in Nat, NEW cap \in Nat,
         Cardinality(Recent(Committed, scope, clock - width)) < cap
  PROVE  /\ Cardinality(RetriedSince(scope, clock - width)) \in Nat
         /\ Cardinality(RetriedSince(scope, clock - width)) < cap
<1> DEFINE committed == Recent(Committed, scope, clock - width)
           retried == RetriedSince(scope, clock - width)
<1>1. Committed \subseteq Events
  BY DEF CapsInv, StoredOK
<1>2. retried \subseteq committed /\ committed \subseteq Events
  BY <1>1 DEF RetriedSince, Recent, Committed
<1>3. /\ IsFiniteSet(committed) /\ IsFiniteSet(retried)
      /\ Cardinality(retried) <= Cardinality(committed)
  BY <1>2, FS_Subset
<1>4. Cardinality(retried) \in Nat /\ Cardinality(committed) \in Nat
  BY <1>3, FS_CardinalityType
<1> QED
  BY <1>3, <1>4

(***************************************************************************)
(* Over Postgres, and with an invoice of its own for each failure, no      *)
(* number of concurrent webhooks, redeliveries and crashes lets the        *)
(* attempts of a window, the retry just granted included, exceed its cap   *)
(* (guardrail.ts:72-73); the retries alone are one fewer still.            *)
(***************************************************************************)
THEOREM ConcurrentAttemptsWithinCaps ==
  ASSUME Store = "postgres", IsFiniteSet(Events),
         \A e, f \in Events : InvoiceOf[e] = InvoiceOf[f] => e = f
  PROVE  Spec => []AttemptsWithinCaps
<1>1. CapsInv => AttemptsWithinCaps
  <2> SUFFICES ASSUME CapsInv, NEW scope \in Scopes
               PROVE  LET last30d == Cardinality(RetriedSince(scope, clock - Window30d))
                          last24h == Cardinality(RetriedSince(scope, clock - Window24h))
                      IN  /\ NetworkOf[scope] = "visa" => last30d + 1 <= VisaMax30d
                          /\ NetworkOf[scope] = "mastercard" =>
                               last30d + 1 <= McMax30d /\ last24h + 1 <= McMax24h
    BY DEF AttemptsWithinCaps, CapsLeave, Scopes
  <2>1. {Window30d, Window24h, VisaMax30d, McMax30d, McMax24h} \subseteq Nat
    BY CapAssumption DEF CapAssumption
  <2>2. ASSUME NEW width \in Nat, NEW cap \in Nat,
               Cardinality(Recent(Committed, scope, clock - width)) < cap
        PROVE  Cardinality(RetriedSince(scope, clock - width)) + 1 <= cap
    BY <2>2, GrantedBelowCaps
  <2> QED
    BY <2>1, <2>2 DEF CapsInv, BelowCaps
<1> QED
  BY <1>1, CapsInvariant, PTL DEF Distinct
=============================================================================
