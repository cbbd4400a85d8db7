------------------------ MODULE WebhookIngestProofs -------------------------
(***************************************************************************)
(* Theorems about WebhookIngest, for any number of requests, processes,    *)
(* events and invoices, any windows, caps and bounds:                      *)
(*   - the type invariant;                                                 *)
(*   - the route's audit steps are steps of AuditLedger, so the theorems   *)
(*     about the ledger hold of the whole ingest;                          *)
(*   - with the shared idempotency store no event is processed twice at    *)
(*     once.                                                               *)
(***************************************************************************)
EXTENDS WebhookIngest, AuditLedgerProofs

(***************************************************************************)
(* What a request knows at each await: whose failure it works on, and what *)
(* it is about to save or attest.  TypeOK alone is not inductive: it does  *)
(* not say that a request about to save holds a decision.                  *)
(***************************************************************************)
WorldOK ==
  /\ clock \in 0 .. MaxClock /\ faults \in 0 .. MaxFaults
  /\ happened \in [Events -> Failure \cup {NoEvent}]
  /\ deliveries \in [Events -> 0 .. MaxDeliveries]

StoresOK ==
  /\ reserved \in [ReservationMaps -> [Events -> Nat]]
  /\ payments \in [Invoices -> Events \cup {NoEvent}]
  /\ decisions \in [Invoices -> Decision \cup {NoDecision}]
  /\ granted \subseteq Decision

RequestsOK ==
  /\ acked \subseteq Events
  /\ pc \in [Requests -> {"idle", "reserve", "insert", "history", "score", "save",
                          "latest", "append"}]
  /\ job \in [Requests -> Events \cup {Probe, NoEvent}]
  /\ draft \in [Requests -> Decision \cup {NoDecision}]

HoldsWhatItNeeds(h) ==
  /\ pc[h] \in {"reserve", "insert", "score", "save"} => job[h] \in Events
  /\ pc[h] \in {"history", "latest", "append"} => job[h] \in Events \cup {Probe}
  /\ pc[h] \in {"save", "latest", "append"} => draft[h] \in Decision
  /\ job[h] \in Events => happened[job[h]] # NoEvent

IngestInv ==
  /\ LedgerTypeOK /\ WorldOK /\ StoresOK /\ RequestsOK
  /\ \A h \in Requests : HoldsWhatItNeeds(h)

LEMMA IngestInvImpliesTypeOK == IngestInv => TypeOK
  BY DEF IngestInv, TypeOK, WorldOK, StoresOK, RequestsOK

-----------------------------------------------------------------------------
(***************************************************************************)
(* How a step ends.                                                        *)
(***************************************************************************)
LEMMA SettledIsDecision ==
  ASSUME NEW action \in {"SUPPRESS", "ASK_CUSTOMER"}, NEW e \in Events \cup {Probe}
  PROVE  Settled(action, e) \in Decision
  BY DEF Settled, Decision

LEMMA AwaitKeepsRequests ==
  ASSUME RequestsOK, \A g \in Requests : HoldsWhatItNeeds(g),
         NEW h \in Requests,
         NEW next \in {"insert", "history", "score", "save", "latest", "append"},
         NEW decision \in Decision \cup {NoDecision},
         next \in {"insert", "score", "save"} => job[h] \in Events,
         next \in {"history", "latest", "append"} => job[h] \in Events \cup {Probe},
         next \in {"save", "latest", "append"} => decision \in Decision,
         Await(h, next, decision), UNCHANGED happened
  PROVE  /\ RequestsOK'
         /\ \A g \in Requests : HoldsWhatItNeeds(g)'
<1>1. RequestsOK'
  BY DEF RequestsOK, Await
<1>2. ASSUME NEW g \in Requests
      PROVE  HoldsWhatItNeeds(g)'
  <2>1. HoldsWhatItNeeds(g)
    OBVIOUS
  <2>2. CASE g = h
    BY <2>1, <2>2 DEF HoldsWhatItNeeds, RequestsOK, Await
  <2>3. CASE g # h
    BY <2>1, <2>3 DEF HoldsWhatItNeeds, RequestsOK, Await
  <2> QED
    BY <2>2, <2>3
<1> QED
  BY <1>1, <1>2

LEMMA AnswerKeepsRequests ==
  ASSUME IngestAssumption,
         RequestsOK, \A g \in Requests : HoldsWhatItNeeds(g),
         NEW h \in Requests, NEW ok \in BOOLEAN, Answer(h, ok), UNCHANGED happened
  PROVE  /\ RequestsOK'
         /\ \A g \in Requests : HoldsWhatItNeeds(g)'
<1>1. RequestsOK'
  BY DEF RequestsOK, Answer
<1>2. ASSUME NEW g \in Requests
      PROVE  HoldsWhatItNeeds(g)'
  <2>1. HoldsWhatItNeeds(g)
    OBVIOUS
  <2>2. CASE g = h
    BY <2>1, <2>2 DEF HoldsWhatItNeeds, RequestsOK, Answer, IngestAssumption
  <2>3. CASE g # h
    BY <2>1, <2>3 DEF HoldsWhatItNeeds, RequestsOK, Answer
  <2> QED
    BY <2>2, <2>3
<1> QED
  BY <1>1, <1>2

LEMMA Bounds ==
  /\ MaxClock \in Nat /\ MaxFaults \in Nat /\ Ttl \in Nat /\ Ttl > 0
  /\ WorldOK => clock \in Nat /\ faults \in Nat
<1>1. /\ MaxClock \in Nat /\ MaxFaults \in Nat /\ Ttl \in Nat /\ Ttl > 0
  BY IngestAssumption DEF IngestAssumption
<1> QED
  BY <1>1 DEF WorldOK

LEMMA FailureKeepsWorld ==
  ASSUME WorldOK, NEW h \in Requests, FailsAfterEffect(h),
         UNCHANGED <<clock, happened, deliveries>>
  PROVE  WorldOK' /\ Answer(h, FALSE)
<1>1. faults' \in 0 .. MaxFaults
  BY Bounds DEF FailsAfterEffect, WorldOK
<1> QED
  BY <1>1 DEF WorldOK, FailsAfterEffect

(* Each request's reservations live in one of the maps.                    *)
LEMMA MapOfIsMap ==
  ASSUME NEW h \in Requests
  PROVE  MapOf(h) \in ReservationMaps
  BY IngestAssumption DEF MapOf, ReservationMaps, IngestAssumption

LEMMA RefIsDecisionRef ==
  ASSUME IngestAssumption, NEW e \in Events \cup {Probe}
  PROVE  RefOf(e) \in DecisionRef
  BY DEF RefOf, IngestAssumption

LEMMA ActorIsActor ==
  ASSUME IngestAssumption, NEW d \in Decision
  PROVE  d.actor \in Actor
  BY DEF Decision, IngestAssumption

-----------------------------------------------------------------------------
(***************************************************************************)
(* Every step of the ingest is a step or a stutter of the audit ledger.    *)
(***************************************************************************)
LEMMA IngestStepIsLedgerStep ==
  IngestInv /\ [Next]_vars => [NextLedger]_ledgerVars
<1> SUFFICES ASSUME IngestInv, [Next]_vars
             PROVE  [NextLedger]_ledgerVars
  OBVIOUS
<1>1. CASE Tick \/ \E e \in Events : PaymentFails(e) \/ RefuseDelivery(e)
  BY <1>1 DEF Tick, PaymentFails, RefuseDelivery
<1>2. ASSUME NEW h \in Requests, NEW e \in Events, Deliver(h, e)
      PROVE  [NextLedger]_ledgerVars
  BY <1>2 DEF Deliver
<1>3. ASSUME NEW h \in Requests, StartProbe(h)
      PROVE  [NextLedger]_ledgerVars
  BY <1>3 DEF StartProbe
<1>4. ASSUME NEW h \in Requests, HandlerStep(h)
      PROVE  [NextLedger]_ledgerVars
  <2>1. CASE Duplicate(h) \/ Reserve(h) \/ InsertPayment(h) \/ ReadHistory(h)
               \/ Schedule(h) \/ SaveDecision(h)
    BY <2>1 DEF Duplicate, Reserve, InsertPayment, ReadHistory, Schedule, SaveDecision
  <2>2. CASE ReadHead(h)
    <3>1. job[h] \in Events \cup {Probe} /\ draft[h] \in Decision
      BY <2>2 DEF IngestInv, HoldsWhatItNeeds, ReadHead
    <3>2. RefOf(job[h]) \in DecisionRef /\ draft[h].actor \in Actor
      BY <3>1, RefIsDecisionRef, ActorIsActor, IngestAssumption
    <3>3. ReadLatest(h, RefOf(job[h]), draft[h].actor)
      BY <2>2 DEF ReadHead
    <3> QED
      BY <3>2, <3>3 DEF NextLedger
  <2>3. CASE AppendAudit(h)
    BY <2>3 DEF AppendAudit, NextLedger
  <2>4. CASE AppendRejected(h)
    BY <2>4 DEF AppendRejected, NextLedger
  <2> QED
    BY <1>4, <2>1, <2>2, <2>3, <2>4 DEF HandlerStep
<1>5. ASSUME NEW h \in Requests, FailsBeforeEffect(h)
      PROVE  [NextLedger]_ledgerVars
  <2>1. AbandonAppends({h})
    BY <1>5 DEF FailsBeforeEffect
  <2> QED
    BY <2>1 DEF NextLedger
<1>6. ASSUME NEW p \in Processes, Crash(p)
      PROVE  [NextLedger]_ledgerVars
  <2> DEFINE gone == {h \in Requests : ProcessOf[h] = p}
  <2>1. Restart \/ AbandonAppends(gone)
    BY <1>6 DEF Crash
  <2> QED
    BY <2>1 DEF NextLedger
<1>7. CASE UNCHANGED vars
  BY <1>7 DEF vars
<1> QED
  BY <1>1, <1>2, <1>3, <1>4, <1>5, <1>6, <1>7 DEF Next

-----------------------------------------------------------------------------
(***************************************************************************)
(* The type invariant.                                                     *)
(***************************************************************************)
LEMMA IngestInvInit == Init => IngestInv
<1> SUFFICES ASSUME Init PROVE IngestInv
  OBVIOUS
<1>1. LedgerTypeOK
  BY DEF Init, InitLedger, LedgerTypeOK
<1>2. WorldOK /\ StoresOK
  BY IngestAssumption DEF Init, WorldOK, StoresOK, IngestAssumption
<1>3. RequestsOK /\ \A h \in Requests : HoldsWhatItNeeds(h)
  BY IngestAssumption DEF Init, RequestsOK, HoldsWhatItNeeds, IngestAssumption
<1> QED
  BY <1>1, <1>2, <1>3 DEF IngestInv

LEMMA HandlerKeepsInv ==
  ASSUME IngestInv, NEW h \in Requests, HandlerStep(h)
  PROVE  /\ WorldOK' /\ StoresOK' /\ RequestsOK'
         /\ \A g \in Requests : HoldsWhatItNeeds(g)'
<1>0. /\ RequestsOK /\ WorldOK /\ StoresOK
      /\ \A g \in Requests : HoldsWhatItNeeds(g)
      /\ HoldsWhatItNeeds(h)
      /\ NoDecision \in Decision \cup {NoDecision}
  BY DEF IngestInv
<1>1. CASE Duplicate(h)
  <2>1. Answer(h, TRUE) /\ UNCHANGED <<clock, faults, happened, deliveries, reserved,
                                       payments, decisions, granted>>
    BY <1>1 DEF Duplicate, stripeVars, storeVars
  <2>2. WorldOK' /\ StoresOK'
    BY <1>0, <2>1 DEF WorldOK, StoresOK
  <2> QED
    BY <1>0, <2>1, <2>2, AnswerKeepsRequests, IngestAssumption
<1>2. CASE Reserve(h)
  <2>1. job[h] \in Events /\ UNCHANGED <<clock, happened, deliveries, payments,
                                         decisions, granted>>
    BY <1>0, <1>2 DEF Reserve, HoldsWhatItNeeds, stripeVars
  <2>2. StoresOK'
    <3>1. clock + Ttl \in Nat
      BY <1>0, Bounds
    <3>2. reserved' = [reserved EXCEPT ![MapOf(h)][job[h]] = clock + Ttl]
      BY <1>2 DEF Reserve, Claim
    <3>3. reserved' \in [ReservationMaps -> [Events -> Nat]]
      BY <1>0, <2>1, <3>1, <3>2, MapOfIsMap DEF StoresOK
    <3> QED
      BY <1>0, <2>1, <3>3 DEF StoresOK
  <2>3. \/ UNCHANGED faults /\ \E ok \in BOOLEAN : Answer(h, ok)
        \/ UNCHANGED faults /\ Await(h, "insert", NoDecision)
        \/ FailsAfterEffect(h)
    BY <1>2 DEF Reserve
  <2>4. CASE UNCHANGED faults /\ \E ok \in BOOLEAN : Answer(h, ok)
    <3>1. WorldOK'
      BY <1>0, <2>1, <2>4 DEF WorldOK
    <3> QED
      BY <1>0, <2>1, <2>2, <2>4, <3>1, AnswerKeepsRequests, IngestAssumption
  <2>5. CASE UNCHANGED faults /\ Await(h, "insert", NoDecision)
    <3>1. WorldOK'
      BY <1>0, <2>1, <2>5 DEF WorldOK
    <3> QED
      BY <1>0, <2>1, <2>2, <2>5, <3>1, AwaitKeepsRequests
  <2>6. CASE FailsAfterEffect(h)
    <3>1. WorldOK' /\ Answer(h, FALSE)
      BY <1>0, <2>1, <2>6, FailureKeepsWorld
    <3> QED
      BY <1>0, <2>1, <2>2, <3>1, AnswerKeepsRequests, IngestAssumption
  <2> QED
    BY <2>3, <2>4, <2>5, <2>6
<1>3. CASE InsertPayment(h)
  <2>1. job[h] \in Events /\ UNCHANGED <<clock, happened, deliveries, reserved,
                                         decisions, granted>>
    BY <1>0, <1>3 DEF InsertPayment, HoldsWhatItNeeds, stripeVars
  <2>2. StoresOK'
    BY <1>0, <1>3, <2>1 DEF InsertPayment, StorePayment, StoresOK
  <2>3. CASE UNCHANGED faults /\ Await(h, "history", NoDecision)
    <3>1. WorldOK'
      BY <1>0, <2>1, <2>3 DEF WorldOK
    <3> QED
      BY <1>0, <2>1, <2>2, <2>3, <3>1, AwaitKeepsRequests
  <2>4. CASE FailsAfterEffect(h)
    <3>1. WorldOK' /\ Answer(h, FALSE)
      BY <1>0, <2>1, <2>4, FailureKeepsWorld
    <3> QED
      BY <1>0, <2>1, <2>2, <3>1, AnswerKeepsRequests, IngestAssumption
  <2> QED
    BY <1>3, <2>3, <2>4 DEF InsertPayment
<1>4. CASE ReadHistory(h)
  <2>1. UNCHANGED <<clock, faults, happened, deliveries, reserved, payments,
                    decisions, granted>>
    BY <1>4 DEF ReadHistory, stripeVars, storeVars
  <2>2. WorldOK' /\ StoresOK'
    BY <1>0, <2>1 DEF WorldOK, StoresOK
  <2>3. job[h] \in Events \cup {Probe}
    BY <1>0, <1>4 DEF ReadHistory, HoldsWhatItNeeds
  <2>4. CASE job[h] = Probe
    <3>1. Await(h, "latest", Settled("SUPPRESS", Probe))
      BY <1>4, <2>4 DEF ReadHistory
    <3>2. Settled("SUPPRESS", Probe) \in Decision
      BY SettledIsDecision
    <3> QED
      BY <1>0, <2>1, <2>2, <2>3, <3>1, <3>2, AwaitKeepsRequests
  <2>5. CASE job[h] # Probe
    <3>1. DecideNow(h, job[h]) /\ job[h] \in Events
      BY <1>4, <2>3, <2>5 DEF ReadHistory
    <3>2. \/ Await(h, "score", NoDecision)
          \/ \E refusal \in {"SUPPRESS", "ASK_CUSTOMER"} :
               Await(h, "save", Settled(refusal, job[h]))
      BY <3>1 DEF DecideNow
    <3>3. CASE Await(h, "score", NoDecision)
      BY <1>0, <2>1, <2>2, <3>1, <3>3, AwaitKeepsRequests
    <3>4. ASSUME NEW refusal \in {"SUPPRESS", "ASK_CUSTOMER"},
                 Await(h, "save", Settled(refusal, job[h]))
          PROVE  RequestsOK' /\ \A g \in Requests : HoldsWhatItNeeds(g)'
      <4>1. Settled(refusal, job[h]) \in Decision
        BY <3>1, SettledIsDecision
      <4> QED
        BY <1>0, <2>1, <3>1, <3>4, <4>1, AwaitKeepsRequests
    <3> QED
      BY <2>2, <3>2, <3>3, <3>4
  <2> QED
    BY <2>4, <2>5
<1>5. CASE Schedule(h)
  <2>1. job[h] \in Events /\ UNCHANGED <<clock, faults, happened, deliveries, reserved,
                                         payments, decisions, granted>>
    BY <1>0, <1>5 DEF Schedule, HoldsWhatItNeeds, stripeVars, storeVars
  <2>2. WorldOK' /\ StoresOK'
    BY <1>0, <2>1 DEF WorldOK, StoresOK
  <2>3. PICK actor \in {"MODEL", "RULE"}, offset \in Offsets :
          Await(h, "save", [action |-> "RETRY", actor |-> actor, event |-> job[h],
                            scheduledFor |-> happened[job[h]].ts + offset])
    BY <1>5 DEF Schedule
  <2> DEFINE retry == [action |-> "RETRY", actor |-> actor, event |-> job[h],
                       scheduledFor |-> happened[job[h]].ts + offset]
  <2>4. happened[job[h]].ts \in Nat /\ offset \in Nat
    <3>1. happened[job[h]] \in Failure
      BY <1>0, <2>1 DEF WorldOK, HoldsWhatItNeeds
    <3> QED
      BY <3>1, IngestAssumption DEF Failure, IngestAssumption
  <2>5. happened[job[h]].ts + offset \in Nat
    BY <2>4
  <2>6. retry \in Decision
    BY <2>1, <2>5 DEF Decision
  <2> QED
    BY <1>0, <2>1, <2>2, <2>3, <2>6, AwaitKeepsRequests
<1>6. CASE SaveDecision(h)
  <2>1. /\ job[h] \in Events /\ draft[h] \in Decision
        /\ UNCHANGED <<clock, happened, deliveries, reserved, payments>>
    BY <1>0, <1>6 DEF SaveDecision, HoldsWhatItNeeds, stripeVars
  <2>2. StoresOK'
    BY <1>0, <1>6, <2>1 DEF SaveDecision, StoresOK
  <2>3. CASE UNCHANGED faults /\ Await(h, "latest", draft[h])
    <3>1. WorldOK'
      BY <1>0, <2>1, <2>3 DEF WorldOK
    <3> QED
      BY <1>0, <2>1, <2>2, <2>3, <3>1, AwaitKeepsRequests
  <2>4. CASE FailsAfterEffect(h)
    <3>1. WorldOK' /\ Answer(h, FALSE)
      BY <1>0, <2>1, <2>4, FailureKeepsWorld
    <3> QED
      BY <1>0, <2>1, <2>2, <3>1, AnswerKeepsRequests, IngestAssumption
  <2> QED
    BY <1>6, <2>3, <2>4 DEF SaveDecision
<1>7. CASE ReadHead(h)
  <2>1. /\ job[h] \in Events \cup {Probe} /\ draft[h] \in Decision
        /\ UNCHANGED <<clock, faults, happened, deliveries, reserved, payments,
                       decisions, granted>>
        /\ Await(h, "append", draft[h])
    BY <1>0, <1>7 DEF ReadHead, HoldsWhatItNeeds, stripeVars, storeVars
  <2>2. WorldOK' /\ StoresOK'
    BY <1>0, <2>1 DEF WorldOK, StoresOK
  <2> QED
    BY <1>0, <2>1, <2>2, AwaitKeepsRequests
<1>8. CASE AppendAudit(h)
  <2>1. UNCHANGED <<clock, happened, deliveries, reserved, payments, decisions, granted>>
    BY <1>8 DEF AppendAudit, stripeVars, storeVars
  <2>2. StoresOK'
    BY <1>0, <2>1 DEF StoresOK
  <2>3. CASE UNCHANGED faults /\ Answer(h, TRUE)
    <3>1. WorldOK'
      BY <1>0, <2>1, <2>3 DEF WorldOK
    <3> QED
      BY <1>0, <2>1, <2>2, <2>3, <3>1, AnswerKeepsRequests, IngestAssumption
  <2>4. CASE FailsAfterEffect(h)
    <3>1. WorldOK' /\ Answer(h, FALSE)
      BY <1>0, <2>1, <2>4, FailureKeepsWorld
    <3> QED
      BY <1>0, <2>1, <2>2, <3>1, AnswerKeepsRequests, IngestAssumption
  <2> QED
    BY <1>8, <2>3, <2>4 DEF AppendAudit
<1>9. CASE AppendRejected(h)
  <2>1. Answer(h, FALSE) /\ UNCHANGED <<clock, faults, happened, deliveries, reserved,
                                        payments, decisions, granted>>
    BY <1>9 DEF AppendRejected, stripeVars, storeVars
  <2>2. WorldOK' /\ StoresOK'
    BY <1>0, <2>1 DEF WorldOK, StoresOK
  <2> QED
    BY <1>0, <2>1, <2>2, AnswerKeepsRequests, IngestAssumption
<1> QED
  BY <1>1, <1>2, <1>3, <1>4, <1>5, <1>6, <1>7, <1>8, <1>9 DEF HandlerStep

LEMMA IngestInvInductive == IngestInv /\ [Next]_vars => IngestInv'
<1> SUFFICES ASSUME IngestInv, [Next]_vars
             PROVE  IngestInv'
  OBVIOUS
<1>0. /\ RequestsOK /\ WorldOK /\ StoresOK
      /\ \A g \in Requests : HoldsWhatItNeeds(g)
  BY DEF IngestInv
<1>1. LedgerTypeOK'
  BY IngestStepIsLedgerStep, LedgerTypeInductive DEF IngestInv
<1> DEFINE Rest == /\ WorldOK /\ StoresOK /\ RequestsOK
                   /\ \A g \in Requests : HoldsWhatItNeeds(g)
<1>2. CASE Tick
  <2>1. WorldOK'
    BY <1>0, <1>2, Bounds DEF Tick, WorldOK, stripeVars
  <2>2. StoresOK' /\ RequestsOK'
    BY <1>0, <1>2 DEF Tick, StoresOK, RequestsOK, storeVars, requestVars
  <2>3. \A g \in Requests : HoldsWhatItNeeds(g)'
    BY <1>0, <1>2 DEF Tick, HoldsWhatItNeeds, stripeVars, requestVars
  <2> QED
    BY <1>1, <2>1, <2>2, <2>3 DEF IngestInv
<1>3. ASSUME NEW e \in Events, PaymentFails(e)
      PROVE  IngestInv'
  <2>1. PICK p \in Payloads : happened' = [happened EXCEPT ![e] = [payload |-> p, ts |-> clock]]
    BY <1>3 DEF PaymentFails
  <2>2. [payload |-> p, ts |-> clock] \in Failure
    BY <1>0, Bounds DEF Failure
  <2>3. WorldOK'
    BY <1>0, <1>3, <2>1, <2>2 DEF PaymentFails, WorldOK
  <2>4. StoresOK' /\ RequestsOK'
    BY <1>0, <1>3 DEF PaymentFails, StoresOK, RequestsOK, storeVars, requestVars
  <2>5. ASSUME NEW g \in Requests
        PROVE  HoldsWhatItNeeds(g)'
    <3>1. HoldsWhatItNeeds(g) /\ job[g] # e
      BY <1>0, <1>3 DEF PaymentFails, HoldsWhatItNeeds
    <3>2. job[g] \in Events => happened'[job[g]] = happened[job[g]]
      BY <1>0, <2>1, <3>1 DEF WorldOK
    <3> QED
      BY <1>3, <3>1, <3>2 DEF PaymentFails, HoldsWhatItNeeds, requestVars
  <2> QED
    BY <1>1, <2>3, <2>4, <2>5 DEF IngestInv
<1>4. ASSUME NEW e \in Events, RefuseDelivery(e)
      PROVE  IngestInv'
  <2>1. deliveries' \in [Events -> 0 .. MaxDeliveries]
    BY <1>0, <1>4, IngestAssumption DEF RefuseDelivery, WorldOK, IngestAssumption
  <2>2. WorldOK'
    BY <1>0, <1>4, <2>1 DEF RefuseDelivery, WorldOK
  <2>3. StoresOK' /\ RequestsOK'
    BY <1>0, <1>4 DEF RefuseDelivery, StoresOK, RequestsOK, storeVars, requestVars
  <2>4. \A g \in Requests : HoldsWhatItNeeds(g)'
    BY <1>0, <1>4 DEF RefuseDelivery, HoldsWhatItNeeds, requestVars
  <2> QED
    BY <1>1, <2>2, <2>3, <2>4 DEF IngestInv
<1>5. ASSUME NEW h \in Requests, NEW e \in Events, Deliver(h, e)
      PROVE  IngestInv'
  <2>1. deliveries' \in [Events -> 0 .. MaxDeliveries]
    BY <1>0, <1>5, IngestAssumption DEF Deliver, WorldOK, IngestAssumption
  <2>2. WorldOK'
    BY <1>0, <1>5, <2>1 DEF Deliver, WorldOK
  <2>3. StoresOK' /\ RequestsOK'
    BY <1>0, <1>5 DEF Deliver, StoresOK, RequestsOK, storeVars
  <2>4. \A g \in Requests : HoldsWhatItNeeds(g)'
    BY <1>0, <1>5 DEF Deliver, HoldsWhatItNeeds, RequestsOK
  <2> QED
    BY <1>1, <2>2, <2>3, <2>4 DEF IngestInv
<1>6. ASSUME NEW h \in Requests, StartProbe(h)
      PROVE  IngestInv'
  <2>1. WorldOK' /\ StoresOK'
    BY <1>0, <1>6 DEF StartProbe, WorldOK, StoresOK, stripeVars, storeVars
  <2>2. RequestsOK'
    BY <1>0, <1>6 DEF StartProbe, RequestsOK
  <2>3. \A g \in Requests : HoldsWhatItNeeds(g)'
    BY <1>0, <1>6, IngestAssumption
       DEF StartProbe, HoldsWhatItNeeds, RequestsOK, stripeVars, IngestAssumption
  <2> QED
    BY <1>1, <2>1, <2>2, <2>3 DEF IngestInv
<1>7. ASSUME NEW h \in Requests, HandlerStep(h)
      PROVE  IngestInv'
  BY <1>1, <1>7, HandlerKeepsInv DEF IngestInv
<1>8. ASSUME NEW h \in Requests, FailsBeforeEffect(h)
      PROVE  IngestInv'
  <2>1. Answer(h, FALSE) /\ UNCHANGED <<clock, happened, deliveries, reserved, payments,
                                        decisions, granted>>
    BY <1>8 DEF FailsBeforeEffect, stripeVars, storeVars
  <2>2. FailsAfterEffect(h)
    BY <1>8 DEF FailsBeforeEffect, FailsAfterEffect
  <2>3. WorldOK' /\ StoresOK'
    BY <1>0, <2>1, <2>2, FailureKeepsWorld DEF StoresOK
  <2>4. RequestsOK' /\ \A g \in Requests : HoldsWhatItNeeds(g)'
    BY <1>0, <2>1, AnswerKeepsRequests, IngestAssumption
  <2> QED
    BY <1>1, <2>3, <2>4 DEF IngestInv
<1>9. ASSUME NEW p \in Processes, Crash(p)
      PROVE  IngestInv'
  <2>1. faults' \in 0 .. MaxFaults
    BY <1>0, <1>9, Bounds DEF Crash, WorldOK
  <2>2. WorldOK'
    BY <1>0, <1>9, <2>1 DEF Crash, WorldOK, stripeVars
  <2>3. StoresOK'
    BY <1>0, <1>9 DEF Crash, StoresOK
  <2>4. RequestsOK'
    BY <1>0, <1>9 DEF Crash, RequestsOK
  <2>5. ASSUME NEW g \in Requests
        PROVE  HoldsWhatItNeeds(g)'
    <3>1. CASE ProcessOf[g] = p
      <4>1. pc'[g] = "idle" /\ job'[g] = NoEvent
        BY <1>9, <3>1 DEF Crash
      <4> QED
        BY <4>1, IngestAssumption DEF HoldsWhatItNeeds, IngestAssumption
    <3>2. CASE ProcessOf[g] # p
      <4>1. pc'[g] = pc[g] /\ job'[g] = job[g] /\ draft'[g] = draft[g] /\ happened' = happened
        BY <1>9, <3>2 DEF Crash, stripeVars
      <4> QED
        BY <1>0, <4>1 DEF HoldsWhatItNeeds
    <3> QED
      BY <3>1, <3>2
  <2> QED
    BY <1>1, <2>2, <2>3, <2>4, <2>5 DEF IngestInv
<1>10. CASE UNCHANGED vars
  <2>1. WorldOK' /\ StoresOK' /\ RequestsOK'
    BY <1>0, <1>10 DEF WorldOK, StoresOK, RequestsOK, vars, stripeVars, storeVars, requestVars
  <2>2. \A g \in Requests : HoldsWhatItNeeds(g)'
    BY <1>0, <1>10 DEF HoldsWhatItNeeds, vars, stripeVars, requestVars
  <2> QED
    BY <1>1, <2>1, <2>2 DEF IngestInv
<1> QED
  BY <1>2, <1>3, <1>4, <1>5, <1>6, <1>7, <1>8, <1>9, <1>10 DEF Next

LEMMA IngestInvariant == Spec => []IngestInv
  BY IngestInvInit, IngestInvInductive, PTL DEF Spec

(***************************************************************************)
(* TypeOK holds in every reachable state, whatever is delivered, fails or  *)
(* crashes: no request saves or attests a decision it does not hold        *)
(* (route.ts:18-83).                                                       *)
(***************************************************************************)
THEOREM IngestTyped == Spec => []TypeOK
  BY IngestInvariant, IngestInvImpliesTypeOK, PTL

-----------------------------------------------------------------------------
(***************************************************************************)
(* The route and the drill touch the audit ledger only by its own steps:   *)
(* every behaviour of the ingest is one of AuditLedger (route.ts:64-68,    *)
(* simulate-violation/route.ts:45-49).                                     *)
(***************************************************************************)
THEOREM IngestUsesLedger == Spec => UsesLedger
<1>1. Init => InitLedger
  BY DEF Init
<1> QED
  BY <1>1, IngestInvariant, IngestStepIsLedgerStep, PTL DEF Spec, UsesLedger, SpecLedger

(***************************************************************************)
(* Hence, over Postgres, no interleaving of webhooks and drills, no crash  *)
(* and no failed call bends the chain.                                     *)
(***************************************************************************)
THEOREM IngestChainIntact ==
  ASSUME Store = "postgres"
  PROVE  Spec => []ChainIntact
  BY IngestUsesLedger, PostgresChainIntact, PTL DEF UsesLedger

-----------------------------------------------------------------------------
(***************************************************************************)
(* Why no event is processed twice at once: a request past the reservation *)
(* works under a claim that has not lapsed.  Time passes only between      *)
(* requests, and a claim in the shared store survives every crash.         *)
(***************************************************************************)
ClaimLive ==
  \A h \in Requests : Processing(h) => reserved["upstash"][job[h]] > clock

ClaimInv == IngestInv /\ ClaimLive /\ OneRequestPerEvent

(* A step after which exactly the requests that were processing still are. *)
LEMMA SameProcessing ==
  ASSUME ClaimInv, UNCHANGED <<clock, reserved>>,
         \A h \in Requests :
           Processing(h)' => Processing(h) /\ job'[h] = job[h]
  PROVE  ClaimLive' /\ OneRequestPerEvent'
  BY DEF ClaimInv, ClaimLive, OneRequestPerEvent

(* Answering ends a request's processing, and touches no other's.          *)
LEMMA AnswerEndsProcessing ==
  ASSUME IngestInv, NEW h \in Requests, NEW ok \in BOOLEAN, Answer(h, ok)
  PROVE  \A g \in Requests : Processing(g)' => g # h /\ Processing(g) /\ job'[g] = job[g]
  BY DEF IngestInv, RequestsOK, Answer, Processing

LEMMA AwaitKeepsJob ==
  ASSUME IngestInv, NEW h \in Requests, NEW next, NEW decision, Await(h, next, decision)
  PROVE  /\ job' = job
         /\ \A g \in Requests : g # h => (Processing(g)' <=> Processing(g))
  BY DEF IngestInv, RequestsOK, Await, Processing

LEMMA HandlerKeepsClaims ==
  ASSUME Idempotency = "upstash", ClaimInv, NEW h \in Requests, HandlerStep(h)
  PROVE  ClaimLive' /\ OneRequestPerEvent'
<1>0. IngestInv /\ RequestsOK /\ StoresOK /\ WorldOK /\ HoldsWhatItNeeds(h)
  BY DEF ClaimInv, IngestInv
<1>1. CASE Reserve(h)
  <2> DEFINE e == job[h]
  <2>1. e \in Events /\ ~ Processing(h)
    BY <1>0, <1>1 DEF Reserve, HoldsWhatItNeeds, Processing
  <2>2. /\ reserved["upstash"][e] \in Nat /\ clock \in Nat /\ Ttl \in Nat /\ Ttl > 0
        /\ ~ (reserved["upstash"][e] > clock)
        /\ reserved' = [reserved EXCEPT !["upstash"][e] = clock + Ttl]
        /\ UNCHANGED clock
    BY <1>0, <1>1, <2>1, Bounds
       DEF Reserve, Claimed, Claim, MapOf, StoresOK, ReservationMaps
  <2>3. /\ reserved'["upstash"][e] > clock'
        /\ \A f \in Events : f # e => reserved'["upstash"][f] = reserved["upstash"][f]
    BY <1>0, <2>1, <2>2 DEF StoresOK, ReservationMaps
  <2>4. \A g \in Requests : Processing(g) => job[g] # e /\ g # h
    BY <2>1, <2>2 DEF ClaimInv, ClaimLive
  <2>5. \A g \in Requests : g # h /\ Processing(g)' => Processing(g) /\ job'[g] = job[g]
    <3>1. (\E ok \in BOOLEAN : Answer(h, ok)) \/ Await(h, "insert", NoDecision)
      BY <1>1 DEF Reserve, FailsAfterEffect
    <3> QED
      BY <1>0, <3>1, AnswerEndsProcessing, AwaitKeepsJob
  <2>6. Processing(h)' => job'[h] = e
    <3>1. (\E ok \in BOOLEAN : Answer(h, ok)) \/ Await(h, "insert", NoDecision)
      BY <1>1 DEF Reserve, FailsAfterEffect
    <3> QED
      BY <1>0, <3>1, AnswerEndsProcessing, AwaitKeepsJob
  <2>7. ClaimLive'
    <3>1. ASSUME NEW g \in Requests, Processing(g)'
          PROVE  reserved'["upstash"][job'[g]] > clock'
      <4>1. CASE g = h
        BY <2>3, <2>6, <3>1, <4>1
      <4>2. CASE g # h
        <5>1. Processing(g) /\ job'[g] = job[g] /\ job[g] # e /\ job[g] \in Events
          BY <2>4, <2>5, <3>1, <4>2 DEF Processing
        <5> QED
          BY <2>2, <2>3, <5>1 DEF ClaimInv, ClaimLive
      <4> QED
        BY <4>1, <4>2
    <3> QED
      BY <3>1 DEF ClaimLive
  <2>8. OneRequestPerEvent'
    BY <2>4, <2>5, <2>6 DEF ClaimInv, OneRequestPerEvent
  <2> QED
    BY <2>7, <2>8
<1>2. CASE ~ Reserve(h)
  <2>1. UNCHANGED <<clock, reserved>>
    BY <1>2 DEF HandlerStep, Duplicate, InsertPayment, ReadHistory, Schedule, SaveDecision,
                ReadHead, AppendAudit, AppendRejected, storeVars
  <2>2. \/ \E ok \in BOOLEAN : Answer(h, ok)
        \/ /\ pc[h] \notin {"idle", "reserve"}
           /\ \E next, decision : Await(h, next, decision)
    BY <1>2 DEF HandlerStep, Duplicate, InsertPayment, ReadHistory, DecideNow, Schedule,
                SaveDecision, ReadHead, AppendAudit, AppendRejected, FailsAfterEffect
  <2>3. \A g \in Requests : Processing(g)' => Processing(g) /\ job'[g] = job[g]
    <3>1. CASE \E ok \in BOOLEAN : Answer(h, ok)
      BY <1>0, <3>1, AnswerEndsProcessing
    <3>2. CASE /\ pc[h] \notin {"idle", "reserve"}
               /\ \E next, decision : Await(h, next, decision)
      BY <1>0, <3>2, AwaitKeepsJob DEF Processing
    <3> QED
      BY <2>2, <3>1, <3>2
  <2> QED
    BY <2>1, <2>3, SameProcessing
<1> QED
  BY <1>1, <1>2

LEMMA ClaimInvInductive ==
  ASSUME Idempotency = "upstash"
  PROVE  ClaimInv /\ [Next]_vars => ClaimInv'
<1> SUFFICES ASSUME ClaimInv, [Next]_vars
             PROVE  ClaimInv'
  OBVIOUS
<1>0. IngestInv /\ RequestsOK /\ IngestInv'
  BY IngestInvInductive DEF ClaimInv, IngestInv
<1>1. CASE Tick
  <2>1. \A h \in Requests : ~ Processing(h)'
    BY <1>1 DEF Tick, Processing, requestVars
  <2> QED
    BY <1>0, <2>1 DEF ClaimInv, ClaimLive, OneRequestPerEvent
<1>2. ASSUME NEW e \in Events, PaymentFails(e) \/ RefuseDelivery(e)
      PROVE  ClaimInv'
  <2>1. /\ UNCHANGED <<clock, reserved>>
        /\ \A h \in Requests : Processing(h)' => Processing(h) /\ job'[h] = job[h]
    BY <1>2 DEF PaymentFails, RefuseDelivery, Processing, storeVars, requestVars
  <2> QED
    BY <1>0, <2>1, SameProcessing DEF ClaimInv
<1>3. ASSUME NEW h \in Requests, NEW e \in Events, Deliver(h, e)
      PROVE  ClaimInv'
  <2>1. /\ UNCHANGED <<clock, reserved>>
        /\ \A g \in Requests : Processing(g)' => Processing(g) /\ job'[g] = job[g]
    BY <1>0, <1>3 DEF Deliver, Processing, RequestsOK, storeVars
  <2> QED
    BY <1>0, <2>1, SameProcessing DEF ClaimInv
<1>4. ASSUME NEW h \in Requests, StartProbe(h)
      PROVE  ClaimInv'
  <2>1. /\ UNCHANGED <<clock, reserved>>
        /\ \A g \in Requests : Processing(g)' => Processing(g) /\ job'[g] = job[g]
    BY <1>0, <1>4, IngestAssumption
       DEF StartProbe, Processing, RequestsOK, storeVars, IngestAssumption
  <2> QED
    BY <1>0, <2>1, SameProcessing DEF ClaimInv
<1>5. ASSUME NEW h \in Requests, HandlerStep(h)
      PROVE  ClaimInv'
  BY <1>0, <1>5, HandlerKeepsClaims DEF ClaimInv
<1>6. ASSUME NEW h \in Requests, FailsBeforeEffect(h)
      PROVE  ClaimInv'
  <2>1. UNCHANGED <<clock, reserved>> /\ Answer(h, FALSE)
    BY <1>6 DEF FailsBeforeEffect, storeVars
  <2> QED
    BY <1>0, <2>1, AnswerEndsProcessing, SameProcessing DEF ClaimInv
<1>7. ASSUME NEW p \in Processes, Crash(p)
      PROVE  ClaimInv'
  <2>1. reserved' = reserved /\ UNCHANGED clock
    <3>1. "upstash" # p /\ ReservationMaps = {"upstash"}
      BY IngestAssumption DEF IngestAssumption, ReservationMaps
    <3> QED
      BY <1>0, <1>7, <3>1 DEF Crash, IngestInv, StoresOK
  <2>2. \A g \in Requests : Processing(g)' => Processing(g) /\ job'[g] = job[g]
    BY <1>0, <1>7 DEF Crash, Processing, RequestsOK
  <2> QED
    BY <1>0, <2>1, <2>2, SameProcessing DEF ClaimInv
<1>8. CASE UNCHANGED vars
  BY <1>0, <1>8 DEF ClaimInv, ClaimLive, OneRequestPerEvent, Processing, vars, storeVars,
                    requestVars
<1> QED
  BY <1>1, <1>2, <1>3, <1>4, <1>5, <1>6, <1>7, <1>8 DEF Next

(***************************************************************************)
(* With the shared idempotency store two requests never process one event  *)
(* together, however many deliveries arrive at however many processes      *)
(* (idempotency.ts:1-6).                                                   *)
(***************************************************************************)
THEOREM SharedStoreOneRequestPerEvent ==
  ASSUME Idempotency = "upstash"
  PROVE  Spec => []OneRequestPerEvent
<1>1. Init => ClaimInv
  <2> SUFFICES ASSUME Init PROVE ClaimInv
    OBVIOUS
  <2>1. \A h \in Requests : ~ Processing(h)
    BY DEF Init, Processing
  <2> QED
    BY <2>1, IngestInvInit DEF ClaimInv, ClaimLive, OneRequestPerEvent
<1>2. ClaimInv => OneRequestPerEvent
  BY DEF ClaimInv
<1> QED
  BY <1>1, <1>2, ClaimInvInductive, PTL DEF Spec

-----------------------------------------------------------------------------
(***************************************************************************)
(* Why the ledger attests only stored decisions: between save and append a *)
(* request's decision is in the store, and what it has sealed names that   *)
(* very decision.  A store forgets decisions only together with the ledger *)
(* and with every request.                                                 *)
(***************************************************************************)
SavedBeforeAppend(h) ==
  pc[h] \in {"latest", "append"} /\ job[h] \in Events
    => decisions[InvoiceOf[job[h]]] # NoDecision

SealsItsOwn(h) ==
  pc[h] = "append" => pending[h] # NoEntry /\ pending[h].decisionRef = RefOf(job[h])

AttestInv ==
  /\ IngestInv
  /\ AttestedIsStored
  /\ \A h \in Requests : SavedBeforeAppend(h) /\ SealsItsOwn(h)

(* Steps that leave ledger, sealed entries and decisions alone, and bring  *)
(* no request to the append.                                               *)
LEMMA SameAttestations ==
  ASSUME AttestInv, UNCHANGED <<ledger, pending, decisions>>,
         \A g \in Requests : pc'[g] \in {"latest", "append"} =>
           \/ pc'[g] = pc[g] /\ job'[g] = job[g]
           \/ pc'[g] = "latest" /\ job'[g] \notin Events
  PROVE  /\ AttestedIsStored'
         /\ \A g \in Requests : SavedBeforeAppend(g)' /\ SealsItsOwn(g)'
  BY DEF AttestInv, AttestedIsStored, SavedBeforeAppend, SealsItsOwn

LEMMA AnswerLeavesPipeline ==
  ASSUME IngestInv, NEW h \in Requests, NEW ok \in BOOLEAN, Answer(h, ok)
  PROVE  /\ pc'[h] = "idle"
         /\ \A g \in Requests : g # h => pc'[g] = pc[g] /\ job'[g] = job[g]
  BY DEF IngestInv, RequestsOK, Answer

LEMMA AwaitMovesOne ==
  ASSUME IngestInv, NEW h \in Requests, NEW next, NEW decision, Await(h, next, decision)
  PROVE  /\ pc'[h] = next /\ job' = job
         /\ \A g \in Requests : g # h => pc'[g] = pc[g]
  BY DEF IngestInv, RequestsOK, Await

LEMMA HandlerKeepsAttested ==
  ASSUME AttestInv, NEW h \in Requests, HandlerStep(h)
  PROVE  /\ AttestedIsStored'
         /\ \A g \in Requests : SavedBeforeAppend(g)' /\ SealsItsOwn(g)'
<1>0. /\ IngestInv /\ RequestsOK /\ StoresOK /\ HoldsWhatItNeeds(h)
      /\ ledger \in Seq(AuditEntry)
      /\ \A g \in Requests : SavedBeforeAppend(g) /\ SealsItsOwn(g)
      /\ AttestedIsStored
  BY DEF AttestInv, IngestInv, LedgerTypeOK
<1>1. CASE Duplicate(h) \/ Reserve(h) \/ InsertPayment(h) \/ ReadHistory(h) \/ Schedule(h)
  <2>1. UNCHANGED <<ledger, pending, decisions>>
    BY <1>1 DEF Duplicate, Reserve, InsertPayment, ReadHistory, Schedule, storeVars, ledgerVars
  <2>2. \/ \E ok \in BOOLEAN : Answer(h, ok)
        \/ \E next \in {"insert", "history", "score", "save"} : \E decision :
             Await(h, next, decision)
        \/ job[h] = Probe /\ \E decision : Await(h, "latest", decision)
    BY <1>1 DEF Duplicate, Reserve, InsertPayment, ReadHistory, DecideNow, Schedule,
                FailsAfterEffect
  <2>3. CASE \E ok \in BOOLEAN : Answer(h, ok)
    BY <1>0, <2>1, <2>3, AnswerLeavesPipeline, SameAttestations
  <2>4. CASE \E next \in {"insert", "history", "score", "save"} : \E decision :
               Await(h, next, decision)
    BY <1>0, <2>1, <2>4, AwaitMovesOne, SameAttestations
  <2>5. CASE job[h] = Probe /\ \E decision : Await(h, "latest", decision)
    BY <1>0, <2>1, <2>5, AwaitMovesOne, SameAttestations, IngestAssumption
       DEF IngestAssumption
  <2> QED
    BY <2>2, <2>3, <2>4, <2>5
<1>2. CASE SaveDecision(h)
  <2>1. /\ UNCHANGED <<ledger, pending>> /\ pc[h] = "save"
        /\ decisions' = [decisions EXCEPT ![InvoiceOf[job[h]]] = draft[h]]
        /\ draft[h] # NoDecision /\ InvoiceOf[job[h]] \in Invoices
    BY <1>0, <1>2, IngestAssumption, NoDecisionAssumption
       DEF SaveDecision, HoldsWhatItNeeds, ledgerVars, IngestAssumption, Invoices
  <2>2. \A i \in Invoices : decisions[i] # NoDecision => decisions'[i] # NoDecision
    BY <1>0, <2>1 DEF StoresOK
  <2>3. decisions'[InvoiceOf[job[h]]] # NoDecision
    BY <1>0, <2>1 DEF StoresOK
  <2>4. AttestedIsStored'
    BY <1>0, <2>1, <2>2 DEF AttestedIsStored
  <2>5. ASSUME NEW g \in Requests
        PROVE  SavedBeforeAppend(g)' /\ SealsItsOwn(g)'
    <3>1. \/ pc'[h] = "idle" /\ (g # h => pc'[g] = pc[g] /\ job'[g] = job[g])
          \/ pc'[h] = "latest" /\ job' = job /\ (g # h => pc'[g] = pc[g])
      BY <1>0, <1>2, AnswerLeavesPipeline, AwaitMovesOne DEF SaveDecision, FailsAfterEffect
    <3>2. job[g] \in Events => InvoiceOf[job[g]] \in Invoices
      BY IngestAssumption DEF IngestAssumption, Invoices
    <3>3. SavedBeforeAppend(g) /\ SealsItsOwn(g)
      BY <1>0
    <3>4. CASE g = h
      BY <2>3, <3>1, <3>4 DEF SavedBeforeAppend, SealsItsOwn
    <3>5. CASE g # h
      BY <2>1, <2>2, <3>1, <3>2, <3>3, <3>5 DEF SavedBeforeAppend, SealsItsOwn
    <3> QED
      BY <3>4, <3>5
  <2> QED
    BY <2>4, <2>5
<1>3. CASE ReadHead(h)
  <2>1. /\ UNCHANGED <<ledger, decisions>> /\ pc[h] = "latest"
        /\ pending' = [pending EXCEPT ![h] =
                         SealedEntry(LinkAfter(Latest), RefOf(job[h]), draft[h].actor)]
        /\ pc'[h] = "append" /\ job' = job
        /\ \A g \in Requests : g # h => pc'[g] = pc[g]
    BY <1>0, <1>3, AwaitMovesOne DEF ReadHead, ReadLatest, storeVars
  <2>2. /\ pending'[h] \in AuditEntry /\ pending'[h].decisionRef = RefOf(job[h])
    <3>1. RefOf(job[h]) \in DecisionRef /\ draft[h].actor \in Actor
      BY <1>0, <2>1, RefIsDecisionRef, ActorIsActor, IngestAssumption DEF HoldsWhatItNeeds
    <3>2. SealedEntry(LinkAfter(Latest), RefOf(job[h]), draft[h].actor) \in AuditEntry
      BY <1>0, <3>1, LinkAfterLatest, SealedEntryProperties DEF IngestInv
    <3>3. SealedEntry(LinkAfter(Latest), RefOf(job[h]), draft[h].actor).decisionRef
            = RefOf(job[h])
      BY DEF SealedEntry
    <3> QED
      BY <1>0, <2>1, <3>2, <3>3 DEF IngestInv, LedgerTypeOK
  <2>3. \A g \in Requests : g # h => pending'[g] = pending[g]
    BY <1>0, <2>1 DEF IngestInv, LedgerTypeOK
  <2> QED
    BY <1>0, <2>1, <2>2, <2>3, NoEntryAssumption
       DEF AttestedIsStored, SavedBeforeAppend, SealsItsOwn, RefOf
<1>4. CASE AppendAudit(h)
  <2>1. /\ UNCHANGED decisions /\ pc[h] = "append"
        /\ ledger' = Append(ledger, pending[h])
        /\ pending' = [pending EXCEPT ![h] = NoEntry]
        /\ pc'[h] = "idle"
        /\ \A g \in Requests : g # h => pc'[g] = pc[g] /\ job'[g] = job[g]
    BY <1>0, <1>4, AnswerLeavesPipeline
       DEF AppendAudit, Insert, FailsAfterEffect, storeVars
  <2>2. pending[h].decisionRef \in Invoices => decisions[pending[h].decisionRef] # NoDecision
    BY <1>0, <2>1, IngestAssumption
       DEF HoldsWhatItNeeds, SavedBeforeAppend, SealsItsOwn, RefOf, Invoices, IngestAssumption
  <2>3. AttestedIsStored'
    <3>1. pending[h] \in AuditEntry
      BY <1>0, <2>1 DEF IngestInv, LedgerTypeOK, SealsItsOwn
    <3>2. \A k \in DOMAIN ledger' : \/ k \in DOMAIN ledger /\ ledger'[k] = ledger[k]
                                    \/ ledger'[k] = pending[h]
      BY <1>0, <2>1, <3>1, AppendProperties
    <3> QED
      BY <1>0, <2>1, <2>2, <3>2 DEF AttestedIsStored
  <2>4. \A g \in Requests : g # h => pending'[g] = pending[g]
    BY <1>0, <2>1 DEF IngestInv, LedgerTypeOK
  <2> QED
    BY <1>0, <2>1, <2>3, <2>4 DEF SavedBeforeAppend, SealsItsOwn, RefOf
<1>5. CASE AppendRejected(h)
  <2>1. /\ UNCHANGED <<ledger, decisions>>
        /\ pending' = [pending EXCEPT ![h] = NoEntry]
        /\ pc'[h] = "idle"
        /\ \A g \in Requests : g # h => pc'[g] = pc[g] /\ job'[g] = job[g]
    BY <1>0, <1>5, AnswerLeavesPipeline DEF AppendRejected, InsertRejected, storeVars
  <2>2. \A g \in Requests : g # h => pending'[g] = pending[g]
    BY <1>0, <2>1 DEF IngestInv, LedgerTypeOK
  <2> QED
    BY <1>0, <2>1, <2>2 DEF AttestedIsStored, SavedBeforeAppend, SealsItsOwn, RefOf
<1> QED
  BY <1>1, <1>2, <1>3, <1>4, <1>5 DEF HandlerStep

LEMMA AttestInvInductive == AttestInv /\ [Next]_vars => AttestInv'
<1> SUFFICES ASSUME AttestInv, [Next]_vars
             PROVE  AttestInv'
  OBVIOUS
<1>0. /\ IngestInv /\ RequestsOK /\ StoresOK /\ IngestInv'
      /\ pending \in [Requests -> AuditEntry \cup {NoEntry}]
      /\ \A g \in Requests : SavedBeforeAppend(g) /\ SealsItsOwn(g)
      /\ AttestedIsStored
  BY IngestInvInductive DEF AttestInv, IngestInv, LedgerTypeOK
<1>1. CASE \/ Tick \/ (\E e \in Events : PaymentFails(e) \/ RefuseDelivery(e))
           \/ UNCHANGED vars
  <2>1. UNCHANGED <<ledger, pending, decisions, pc, job>>
    BY <1>1 DEF Tick, PaymentFails, RefuseDelivery, vars, storeVars, requestVars, ledgerVars
  <2> QED
    BY <1>0, <2>1, SameAttestations DEF AttestInv
<1>2. ASSUME NEW h \in Requests, NEW e \in Events, Deliver(h, e)
      PROVE  AttestInv'
  <2>1. /\ UNCHANGED <<ledger, pending, decisions>>
        /\ pc'[h] = "reserve"
        /\ \A g \in Requests : g # h => pc'[g] = pc[g] /\ job'[g] = job[g]
    BY <1>0, <1>2 DEF Deliver, RequestsOK, storeVars, ledgerVars
  <2> QED
    BY <1>0, <2>1, SameAttestations DEF AttestInv
<1>3. ASSUME NEW h \in Requests, StartProbe(h)
      PROVE  AttestInv'
  <2>1. /\ UNCHANGED <<ledger, pending, decisions>>
        /\ pc'[h] = "history"
        /\ \A g \in Requests : g # h => pc'[g] = pc[g] /\ job'[g] = job[g]
    BY <1>0, <1>3 DEF StartProbe, RequestsOK, storeVars, ledgerVars
  <2> QED
    BY <1>0, <2>1, SameAttestations DEF AttestInv
<1>4. ASSUME NEW h \in Requests, HandlerStep(h)
      PROVE  AttestInv'
  BY <1>0, <1>4, HandlerKeepsAttested DEF AttestInv
<1>5. ASSUME NEW h \in Requests, FailsBeforeEffect(h)
      PROVE  AttestInv'
  <2>1. /\ UNCHANGED <<ledger, decisions>>
        /\ pc'[h] = "idle"
        /\ \A g \in Requests :
             g # h => pc'[g] = pc[g] /\ job'[g] = job[g] /\ pending'[g] = pending[g]
    BY <1>0, <1>5, AnswerLeavesPipeline DEF FailsBeforeEffect, AbandonAppends, storeVars
  <2> QED
    BY <1>0, <2>1 DEF AttestInv, AttestedIsStored, SavedBeforeAppend, SealsItsOwn, RefOf
<1>6. ASSUME NEW p \in Processes, Crash(p)
      PROVE  AttestInv'
  <2>1. CASE Store = "memory"
    <3>1. \A g \in Requests : ProcessOf[g] = p
      BY <2>1, IngestAssumption DEF IngestAssumption
    <3>2. ledger' = << >> /\ \A g \in Requests : pc'[g] = "idle"
      BY <1>6, <2>1, <3>1 DEF Crash, Restart
    <3> QED
      BY <1>0, <3>2 DEF AttestInv, AttestedIsStored, SavedBeforeAppend, SealsItsOwn
  <2>2. CASE Store # "memory"
    <3>1. UNCHANGED <<ledger, decisions>>
      BY <1>6, <2>2 DEF Crash, AbandonAppends
    <3>2. \A g \in Requests :
            \/ pc'[g] = "idle"
            \/ pc'[g] = pc[g] /\ job'[g] = job[g] /\ pending'[g] = pending[g]
      BY <1>0, <1>6, <2>2 DEF Crash, AbandonAppends
    <3> QED
      BY <1>0, <3>1, <3>2 DEF AttestInv, AttestedIsStored, SavedBeforeAppend, SealsItsOwn, RefOf
  <2> QED
    BY <2>1, <2>2
<1> QED
  BY <1>1, <1>2, <1>3, <1>4, <1>5, <1>6 DEF Next

(***************************************************************************)
(* Over either store, whatever crashes between two steps, an invoice with  *)
(* an entry in the ledger has a stored decision (route.ts:62-68).          *)
(***************************************************************************)
THEOREM IngestAttestedIsStored == Spec => []AttestedIsStored
<1>1. Init => AttestInv
  <2> SUFFICES ASSUME Init PROVE AttestInv
    OBVIOUS
  <2>1. ledger = << >> /\ \A h \in Requests : pc[h] = "idle"
    BY DEF Init, InitLedger
  <2> QED
    BY <2>1, IngestInvInit DEF AttestInv, AttestedIsStored, SavedBeforeAppend, SealsItsOwn
<1>2. AttestInv => AttestedIsStored
  BY DEF AttestInv
<1> QED
  BY <1>1, <1>2, AttestInvInductive, PTL DEF Spec
=============================================================================
