--------------------------- MODULE WebhookIngest ----------------------------
(***************************************************************************)
(* POST /api/webhooks/stripe, from Stripe's delivery to the audit append,  *)
(* and POST /api/compliance/simulate-violation, which shares its pipeline. *)
(*                                                                         *)
(* Several requests run at once, in one process or in several.  Every      *)
(* await of the route ends a step; what runs between two awaits is one     *)
(* step.  Stripe delivers each event at least once and again until it sees *)
(* a 2xx answer; a store call may fail before or after it took effect; a   *)
(* process may die at any await.                                           *)
(***************************************************************************)
EXTENDS AuditLedger, Triage, Guardrail

CONSTANTS
  Events,       (* Stripe event ids.                                       *)
  InvoiceOf,    (* Event to the invoice it is about, the stripeId key.     *)
  ScopeOf,      (* Event to its scopeKey, customerId:cardBrand.            *)
  NetworkOf,    (* Scope to card network.                                  *)
  Payloads,     (* What a delivery may carry: decline classes, "ignored"   *)
                (* (another event type), "invalid" (contract violation).   *)
  Probe,        (* in_violation_probe, the violation drill's paymentId.    *)
  Processes,    (* BFF processes, and the process each request runs in.    *)
  ProcessOf,
  Idempotency,  (* "upstash" or "memory".                                  *)
  Ttl,          (* IDEMPOTENCY_TTL_SECONDS, in ticks.                      *)
  Offsets,      (* Retry moments offered after the failure, in ticks.      *)
  MaxClock, MaxDeliveries, MaxProbes, MaxFaults,  (* Bounds of the model.  *)
  NoEvent, NoDecision

ASSUME IngestAssumption ==
  /\ Probe \in DecisionRef /\ Probe \notin Events
  /\ InvoiceOf \in [Events -> DecisionRef \ {Probe}]
  /\ \A e \in Events : NetworkOf[ScopeOf[e]] \in Network
  /\ Payloads \subseteq DeclineClass \cup {"ignored", "invalid"}
  /\ ProcessOf \in [Requests -> Processes]
  /\ {"MODEL", "RULE"} \subseteq Actor
  /\ Idempotency \in {"memory", "upstash"} /\ "upstash" \notin Processes
  /\ Store = "memory" => Idempotency = "memory" /\ \E p \in Processes : Processes = {p}
  /\ Ttl \in Nat \ {0} /\ Offsets \subseteq Nat
  /\ {MaxClock, MaxDeliveries, MaxProbes, MaxFaults} \subseteq Nat
  /\ {NoEvent, Probe} \cap Events = {} /\ NoEvent # Probe

VARIABLES
  clock,      (* The time now() and Stripe read, in ticks.                 *)
  happened,   (* Event to the failure it reports, once it happened.        *)
  deliveries, (* How often Stripe has sent each event.                     *)
  acked,      (* Events for which Stripe has seen a 2xx.                   *)
  reserved,   (* Idempotency map: event to the expiry of its key, 0 none.  *)
  payments,   (* Invoice to the event stored as its failed payment.        *)
  decisions,  (* Invoice to its stored decision.                           *)
  pc, job,    (* Per request: the await it stands at and what it handles.  *)
  draft,      (* Per request: the decision it is about to save.            *)
  granted,    (* History: every retry committed by a saved decision.       *)
  faults      (* Faults injected so far.                                   *)

stripeVars  == <<happened, deliveries>>
storeVars   == <<reserved, payments, decisions, granted>>
requestVars == <<pc, job, draft, acked>>
vars == <<clock, faults, stripeVars, storeVars, requestVars, ledgerVars>>

Invoices == DecisionRef \ {Probe}

Failure == [payload : Payloads, ts : Nat]

Decision ==
  [action : {"SUPPRESS", "ASK_CUSTOMER"}, actor : {"RULE"}, event : Events \cup {Probe}]
    \cup [action : {"RETRY"}, actor : {"MODEL", "RULE"}, event : Events,
          scheduledFor : Nat]

ASSUME NoDecisionAssumption == NoDecision \notin Decision

ReservationMaps == IF Idempotency = "upstash" THEN {"upstash"} ELSE Processes

MapOf(h) == IF Idempotency = "upstash" THEN "upstash" ELSE ProcessOf[h]

Init ==
  /\ clock = 0
  /\ faults = 0
  /\ happened = [e \in Events |-> NoEvent]
  /\ deliveries = [e \in Events |-> 0]
  /\ acked = {}
  /\ reserved = [m \in ReservationMaps |-> [e \in Events |-> 0]]
  /\ payments = [i \in Invoices |-> NoEvent]
  /\ decisions = [i \in Invoices |-> NoDecision]
  /\ pc = [h \in Requests |-> "idle"]
  /\ job = [h \in Requests |-> NoEvent]
  /\ draft = [h \in Requests |-> NoDecision]
  /\ granted = {}
  /\ InitLedger

-----------------------------------------------------------------------------
(***************************************************************************)
(* The outside world.                                                      *)
(***************************************************************************)
PaymentFails(e) ==
  /\ happened[e] = NoEvent
  /\ \E p \in Payloads : happened' = [happened EXCEPT ![e] = [payload |-> p, ts |-> clock]]
  /\ UNCHANGED <<clock, faults, deliveries, storeVars, requestVars, ledgerVars>>

(* Time passes between requests: a tick is a day, a request takes seconds. *)
Tick ==
  /\ clock < MaxClock
  /\ \A h \in Requests : pc[h] = "idle"
  /\ clock' = clock + 1
  /\ UNCHANGED <<faults, stripeVars, storeVars, requestVars, ledgerVars>>

(* A delivery that passes the signature and envelope checks.               *)
Deliver(h, e) ==
  /\ pc[h] = "idle"
  /\ happened[e] # NoEvent
  /\ deliveries[e] < MaxDeliveries
  /\ deliveries' = [deliveries EXCEPT ![e] = @ + 1]
  /\ pc' = [pc EXCEPT ![h] = "reserve"]
  /\ job' = [job EXCEPT ![h] = e]
  /\ UNCHANGED <<clock, faults, happened, draft, acked, storeVars, ledgerVars>>

(* Mutant of RefuseDelivery: the event id is claimed before the checks.    *)
RefuseAfterClaim(e) ==
  /\ happened[e] # NoEvent
  /\ deliveries[e] + 1 < MaxDeliveries
  /\ deliveries' = [deliveries EXCEPT ![e] = @ + 1]
  /\ reserved' = [m \in ReservationMaps |-> [reserved[m] EXCEPT ![e] = clock + Ttl]]
  /\ UNCHANGED <<clock, faults, happened, payments, decisions, granted, requestVars,
                 ledgerVars>>

(***************************************************************************)
(* One that does not (no secret, stale, forged, malformed) is answered     *)
(* with an error and touches nothing.  Stripe's last try is not refused.   *)
(***************************************************************************)
RefuseDelivery(e) ==
  /\ happened[e] # NoEvent
  /\ deliveries[e] + 1 < MaxDeliveries
  /\ deliveries' = [deliveries EXCEPT ![e] = @ + 1]
  /\ UNCHANGED <<clock, faults, happened, storeVars, requestVars, ledgerVars>>

(* A compliance drill; MaxProbes bounds the attested and the running ones. *)
EntriesFor(i) == {k \in DOMAIN ledger : ledger[k].decisionRef = i}

StartProbe(h) ==
  /\ pc[h] = "idle"
  /\ Cardinality(EntriesFor(Probe)) + Cardinality({g \in Requests : job[g] = Probe})
       < MaxProbes
  /\ pc' = [pc EXCEPT ![h] = "history"]
  /\ job' = [job EXCEPT ![h] = Probe]
  /\ UNCHANGED <<clock, faults, draft, acked, stripeVars, storeVars, ledgerVars>>

-----------------------------------------------------------------------------
(***************************************************************************)
(* How a step of a request ends: at the next await, or with an answer.  A  *)
(* 2xx counts as an acknowledgement once Stripe receives it, and it may    *)
(* not.                                                                    *)
(***************************************************************************)
Await(h, next, decision) ==
  /\ pc' = [pc EXCEPT ![h] = next]
  /\ draft' = [draft EXCEPT ![h] = decision]
  /\ UNCHANGED <<job, acked>>

Answer(h, ok) ==
  /\ pc' = [pc EXCEPT ![h] = "idle"]
  /\ job' = [job EXCEPT ![h] = NoEvent]
  /\ draft' = [draft EXCEPT ![h] = NoDecision]
  /\ \/ UNCHANGED acked
     \/ ok /\ job[h] \in Events /\ acked' = acked \cup {job[h]}

(* The store took the write, but the call reports an error: HTTP 500.      *)
FailsAfterEffect(h) ==
  /\ faults < MaxFaults
  /\ faults' = faults + 1
  /\ Answer(h, FALSE)

(* The store call fails without effect: HTTP 500.                          *)
RemoteSteps ==
  (IF Idempotency = "upstash" THEN {"reserve"} ELSE {})
    \cup (IF Store = "postgres" THEN {"insert", "history", "save", "latest", "append"}
          ELSE {})

FailsBeforeEffect(h) ==
  /\ pc[h] \in RemoteSteps
  /\ faults < MaxFaults
  /\ faults' = faults + 1
  /\ Answer(h, FALSE)
  /\ AbandonAppends({h})
  /\ UNCHANGED <<clock, stripeVars, storeVars>>

(* A process dies: its requests vanish unanswered, and what it kept in     *)
(* memory with them.                                                       *)
Crash(p) ==
  LET gone == {h \in Requests : ProcessOf[h] = p}
  IN  /\ faults < MaxFaults
      /\ faults' = faults + 1
      /\ pc' = [h \in Requests |-> IF h \in gone THEN "idle" ELSE pc[h]]
      /\ job' = [h \in Requests |-> IF h \in gone THEN NoEvent ELSE job[h]]
      /\ draft' = [h \in Requests |-> IF h \in gone THEN NoDecision ELSE draft[h]]
      /\ reserved' = [m \in ReservationMaps |->
                        IF m = p THEN [e \in Events |-> 0] ELSE reserved[m]]
      /\ IF Store = "memory"
         THEN /\ Restart
              /\ payments' = [i \in Invoices |-> NoEvent]
              /\ decisions' = [i \in Invoices |-> NoDecision]
         ELSE /\ AbandonAppends(gone)
              /\ UNCHANGED <<payments, decisions>>
      /\ UNCHANGED <<clock, stripeVars, acked, granted>>

-----------------------------------------------------------------------------
(***************************************************************************)
(* The handler.  reserve() claims the event id for Ttl; a live claim means *)
(* a duplicate.  What the envelope holds is looked at only afterwards.     *)
(***************************************************************************)
(* Mutants: only answered events count as duplicates; a claim without TTL. *)
ClaimedIfAcked(h) == job[h] \in acked

ClaimForNoTime(h) ==
  reserved' = [reserved EXCEPT ![MapOf(h)][job[h]] = clock]

Claimed(h) == reserved[MapOf(h)][job[h]] > clock

Claim(h) ==
  reserved' = [reserved EXCEPT ![MapOf(h)][job[h]] = clock + Ttl]

Duplicate(h) ==
  /\ pc[h] = "reserve"
  /\ Claimed(h)
  /\ Answer(h, TRUE)
  /\ UNCHANGED <<clock, faults, stripeVars, storeVars, ledgerVars>>

Reserve(h) ==
  /\ pc[h] = "reserve"
  /\ ~ Claimed(h)
  /\ Claim(h)
  /\ LET payload == happened[job[h]].payload
     IN  \/ /\ UNCHANGED faults
            /\ \/ payload = "ignored" /\ Answer(h, TRUE)
               \/ payload = "invalid" /\ Answer(h, FALSE)
               \/ payload \in DeclineClass /\ Await(h, "insert", NoDecision)
         \/ Idempotency = "upstash" /\ FailsAfterEffect(h)
  /\ UNCHANGED <<clock, stripeVars, payments, decisions, granted, ledgerVars>>

(***************************************************************************)
(* payments.insert: the key is the invoice.  Memory overwrites what it had *)
(* under the key, Postgres keeps it (ON CONFLICT DO NOTHING).              *)
(***************************************************************************)
StorePayment(e) ==
  payments' = IF Store = "postgres" /\ payments[InvoiceOf[e]] # NoEvent THEN payments
              ELSE [payments EXCEPT ![InvoiceOf[e]] = e]

InsertPayment(h) ==
  /\ pc[h] = "insert"
  /\ StorePayment(job[h])
  /\ \/ UNCHANGED faults /\ Await(h, "history", NoDecision)
     \/ Store = "postgres" /\ FailsAfterEffect(h)
  /\ UNCHANGED <<clock, stripeVars, reserved, decisions, granted, ledgerVars>>

(* Mutant of AttemptsForScope: only what failed before this moment.        *)
AttemptsBeforeNow(scope) ==
  [i \in {j \in Invoices : /\ payments[j] # NoEvent
                           /\ ScopeOf[payments[j]] = scope
                           /\ happened[payments[j]].ts < clock} |->
     [scopeKey |-> scope, ts |-> happened[payments[i]].ts]]

(***************************************************************************)
(* attemptsForScope returns every stored failed payment of the scope, the  *)
(* one just inserted included; triage and the guardrail run on it at once. *)
(***************************************************************************)
AttemptsForScope(scope) ==
  [i \in {j \in Invoices : payments[j] # NoEvent /\ ScopeOf[payments[j]] = scope} |->
     [scopeKey |-> scope, ts |-> happened[payments[i]].ts]]

Settled(action, e) == [action |-> action, actor |-> "RULE", event |-> e]

(* Mutant of DecideNow: what cannot be retried is answered at once.        *)
DecideRetryableOnly(h, e) ==
  IF TriageAction(NetworkOf[ScopeOf[e]], happened[e].payload) = "RETRY_SOFT"
  THEN Await(h, "score", NoDecision)
  ELSE Answer(h, TRUE)

DecideNow(h, e) ==
  LET scope   == ScopeOf[e]
      triaged == TriageAction(NetworkOf[scope], happened[e].payload)
      p       == [scopeKey |-> scope, network |-> NetworkOf[scope],
                  triageAction |-> triaged, now |-> clock]
      refusal == IF triaged = "ASK_CUSTOMER" THEN "ASK_CUSTOMER" ELSE "SUPPRESS"
  IN  IF Allowed(p, AttemptsForScope(scope)) THEN Await(h, "score", NoDecision)
      ELSE Await(h, "save", Settled(refusal, e))

(* The drill's own decline, lost_card on Visa, is hard whatever the        *)
(* history; its decision is attested without being saved.                  *)
ReadHistory(h) ==
  /\ pc[h] = "history"
  /\ IF job[h] = Probe
     THEN /\ TriageAction("visa", "cat1") = "NEVER_RETRY_HARD"
          /\ Await(h, "latest", Settled("SUPPRESS", Probe))
     ELSE DecideNow(h, job[h])
  /\ UNCHANGED <<clock, faults, stripeVars, storeVars, ledgerVars>>

(* Mutant of Schedule: the moment lies before the failure.                 *)
ScheduleBackwards(h) ==
  /\ pc[h] = "score"
  /\ \E actor \in {"MODEL", "RULE"}, offset \in Offsets :
       Await(h, "save", [action |-> "RETRY", actor |-> actor, event |-> job[h],
                         scheduledFor |-> happened[job[h]].ts - offset])
  /\ UNCHANGED <<clock, faults, stripeVars, storeVars, ledgerVars>>

(***************************************************************************)
(* scheduleRetry: the best of the offered moments after the failure, by    *)
(* the model, or the published curve's when scoring is down or times out.  *)
(***************************************************************************)
Schedule(h) ==
  /\ pc[h] = "score"
  /\ \E actor \in {"MODEL", "RULE"}, offset \in Offsets :
       Await(h, "save", [action |-> "RETRY", actor |-> actor, event |-> job[h],
                         scheduledFor |-> happened[job[h]].ts + offset])
  /\ UNCHANGED <<clock, faults, stripeVars, storeVars, ledgerVars>>

(* Mutants of SaveDecision: suppressions not stored; not attested.         *)
SaveRetriesOnly(h) ==
  /\ pc[h] = "save"
  /\ decisions' = [decisions EXCEPT ![InvoiceOf[job[h]]] =
                     IF draft[h].action = "RETRY" THEN draft[h] ELSE @]
  /\ Await(h, "latest", draft[h])
  /\ UNCHANGED <<clock, faults, stripeVars, reserved, payments, granted, ledgerVars>>

SaveAttestRetriesOnly(h) ==
  /\ pc[h] = "save"
  /\ decisions' = [decisions EXCEPT ![InvoiceOf[job[h]]] = draft[h]]
  /\ IF draft[h].action = "RETRY" THEN Await(h, "latest", draft[h]) ELSE Answer(h, TRUE)
  /\ UNCHANGED <<clock, faults, stripeVars, reserved, payments, granted, ledgerVars>>

SaveDecision(h) ==
  /\ pc[h] = "save"
  /\ decisions' = [decisions EXCEPT ![InvoiceOf[job[h]]] = draft[h]]
  /\ granted' = granted \cup (IF draft[h].action = "RETRY" THEN {draft[h]} ELSE {})
  /\ \/ UNCHANGED faults /\ Await(h, "latest", draft[h])
     \/ Store = "postgres" /\ FailsAfterEffect(h)
  /\ UNCHANGED <<clock, stripeVars, reserved, payments, ledgerVars>>

(***************************************************************************)
(* appendAuditEntry, through the steps of AuditLedger.                     *)
(***************************************************************************)
RefOf(e) == IF e = Probe THEN Probe ELSE InvoiceOf[e]

ReadHead(h) ==
  /\ pc[h] = "latest"
  /\ ReadLatest(h, RefOf(job[h]), draft[h].actor)
  /\ Await(h, "append", draft[h])
  /\ UNCHANGED <<clock, faults, stripeVars, storeVars>>

(* Mutant of AppendAudit: a row is appended whatever it conflicts with.    *)
AppendUnchecked(h) ==
  /\ pc[h] = "append"
  /\ ledger' = Append(ledger, pending[h])
  /\ pending' = [pending EXCEPT ![h] = NoEntry]
  /\ Answer(h, TRUE)
  /\ UNCHANGED <<clock, faults, stripeVars, storeVars>>

AppendAudit(h) ==
  /\ pc[h] = "append"
  /\ Insert(h)
  /\ \/ UNCHANGED faults /\ Answer(h, TRUE)
     \/ Store = "postgres" /\ FailsAfterEffect(h)
  /\ UNCHANGED <<clock, stripeVars, storeVars>>

AppendRejected(h) ==
  /\ pc[h] = "append"
  /\ InsertRejected(h)
  /\ Answer(h, FALSE)
  /\ UNCHANGED <<clock, faults, stripeVars, storeVars>>

HandlerStep(h) ==
  \/ Duplicate(h) \/ Reserve(h)
  \/ InsertPayment(h) \/ ReadHistory(h) \/ Schedule(h) \/ SaveDecision(h)
  \/ ReadHead(h) \/ AppendAudit(h) \/ AppendRejected(h)

Next ==
  \/ Tick
  \/ \E e \in Events : PaymentFails(e) \/ RefuseDelivery(e)
  \/ \E h \in Requests, e \in Events : Deliver(h, e)
  \/ \E h \in Requests : StartProbe(h) \/ HandlerStep(h) \/ FailsBeforeEffect(h)
  \/ \E p \in Processes : Crash(p)

Spec == Init /\ [][Next]_vars

(***************************************************************************)
(* Fairness.  The event loop resumes a request whose awaited call has      *)
(* answered, and every call answers (scoring within its abort timeout).    *)
(* Stripe redelivers what it has not seen acknowledged.  Nothing is        *)
(* assumed of payments, probes, time or faults.                            *)
(***************************************************************************)
DeliverUnacked(e) == e \notin acked /\ \E h \in Requests : Deliver(h, e)

FairSpec ==
  /\ Spec
  /\ \A h \in Requests : WF_vars(HandlerStep(h))
  /\ \A e \in Events : WF_vars(DeliverUnacked(e))

-----------------------------------------------------------------------------
(***************************************************************************)
(* The state the route's stores, Stripe and the requests can hold; a       *)
(* saved decision never schedules a retry before time began.               *)
(***************************************************************************)
TypeOK ==
  /\ LedgerTypeOK
  /\ clock \in 0 .. MaxClock /\ faults \in 0 .. MaxFaults
  /\ happened \in [Events -> Failure \cup {NoEvent}]
  /\ deliveries \in [Events -> 0 .. MaxDeliveries]
  /\ acked \subseteq Events
  /\ reserved \in [ReservationMaps -> [Events -> Nat]]
  /\ payments \in [Invoices -> Events \cup {NoEvent}]
  /\ decisions \in [Invoices -> Decision \cup {NoDecision}]
  /\ pc \in [Requests -> {"idle", "reserve", "insert", "history", "score", "save",
                          "latest", "append"}]
  /\ job \in [Requests -> Events \cup {Probe, NoEvent}]
  /\ draft \in [Requests -> Decision \cup {NoDecision}]
  /\ granted \subseteq Decision

(***************************************************************************)
(* Two deliveries of one event are never in the pipeline together: once    *)
(* past the reservation a request is alone with its event (idempotency.ts: *)
(* "exactly one caller out of N concurrent duplicates wins").              *)
(***************************************************************************)
Processing(h) == pc[h] \notin {"idle", "reserve"} /\ job[h] \in Events

OneRequestPerEvent ==
  \A h, g \in Requests :
    Processing(h) /\ Processing(g) /\ job[h] = job[g] => h = g

(***************************************************************************)
(* No event is attested more often than its reservation can have lapsed:   *)
(* once per Ttl since it happened, whatever Stripe repeats and whatever    *)
(* fails (webhook.test.ts:111, "no second decision/audit entry").          *)
(***************************************************************************)
EventsOf(i) == {e \in Events : InvoiceOf[e] = i /\ happened[e] # NoEvent}

Windows(e) == 1 .. 1 + (clock - happened[e].ts) \div Ttl

AttestedOncePerWindow ==
  \A i \in Invoices :
    Cardinality(EntriesFor(i)) <= Cardinality(UNION {{e} \X Windows(e) : e \in EventsOf(i)})

(***************************************************************************)
(* The ledger attests only what the feed can show: when an invoice has an  *)
(* entry, a decision for it was stored before and still is                 *)
(* (0001_audit_log.sql:12, "Decision id this entry attests").              *)
(***************************************************************************)
AttestedIsStored ==
  \A k \in DOMAIN ledger :
    ledger[k].decisionRef \in Invoices => decisions[ledger[k].decisionRef] # NoDecision

(***************************************************************************)
(* Of the failures of one scope that lie in a network's window, the ones   *)
(* granted a retry number at most so many that extra more would still be   *)
(* within the cap, however the requests that decided them interleaved.     *)
(***************************************************************************)
RetriedSince(scope, from) ==
  {e \in {d.event : d \in granted} : ScopeOf[e] = scope /\ happened[e].ts > from}

CapsLeave(extra) ==
  \A scope \in {ScopeOf[e] : e \in Events} :
    LET last30d == Cardinality(RetriedSince(scope, clock - Window30d))
        last24h == Cardinality(RetriedSince(scope, clock - Window24h))
    IN  /\ NetworkOf[scope] = "visa" => last30d + extra <= VisaMax30d
        /\ NetworkOf[scope] = "mastercard" =>
             last30d + extra <= McMax30d /\ last24h + extra <= McMax24h

(***************************************************************************)
(* The caps of the networks, by what was granted (guardrail.ts:4-9).       *)
(***************************************************************************)
RetriesWithinCaps == CapsLeave(0)

(***************************************************************************)
(* What is on record and the retry granted on it share the cap             *)
(* ("committed to N retries must treat them as spent cap budget",          *)
(* guardrail.ts:72-73): with n failures of a window retried, the last of   *)
(* them was decided on n attempts or more, and its retry is one further.   *)
(***************************************************************************)
AttemptsWithinCaps == CapsLeave(1)

(***************************************************************************)
(* No 24 h window holds more scheduled retries of a Mastercard scope than  *)
(* its cap: "no accepted schedule can cluster past it" (guardrail.ts:76).  *)
(***************************************************************************)
ScheduledIn(scope, from, to) ==
  {d \in granted : ScopeOf[d.event] = scope /\ d.scheduledFor \in from + 1 .. to}

ScheduledWithinCaps ==
  \A d \in granted :
    LET scope == ScopeOf[d.event]
    IN  NetworkOf[scope] = "mastercard"
          => Cardinality(ScheduledIn(scope, d.scheduledFor - Window24h, d.scheduledFor))
               <= McMax24h

(***************************************************************************)
(* An acknowledged failure that no request is working on any more has been *)
(* decided, and its decision is in the ledger: Stripe will not send it     *)
(* again (route.ts:37-38).                                                 *)
(***************************************************************************)
Closed(e) ==
  /\ e \in acked
  /\ happened[e].payload \in DeclineClass
  /\ \A h \in Requests : job[h] # e

AckedIsDecided ==
  \A e \in Events : Closed(e) => decisions[InvoiceOf[e]] # NoDecision

AckedIsAttested ==
  \A e \in Events : Closed(e) => EntriesFor(InvoiceOf[e]) # {}

(***************************************************************************)
(* The audit steps of the route are steps of the audit ledger: nothing but *)
(* appendAuditEntry touches the chain.                                     *)
(***************************************************************************)
UsesLedger == SpecLedger

(***************************************************************************)
(* Every failed payment Stripe reports is attested in the end.             *)
(***************************************************************************)
FailuresAttested ==
  \A e \in Events :
    (happened[e] # NoEvent /\ happened[e].payload \in DeclineClass)
      ~> (EntriesFor(InvoiceOf[e]) # {})
=============================================================================
