# HackGuard in TLA+

HackGuard sits above Stripe's retries. It receives failed payments by webhook, decides for
each whether to retry, to suppress or to ask the customer, and attests every decision in a
hash-chained audit ledger. This directory holds TLA+ modules of the parts in which order,
failure and repetition matter, TLC configurations that check them on small instances, and
proofs TLAPS checks. Paths below are relative to `src/`; `W` is `apps/web/src`.

## 1. The system

### Components, state and operations

| Component | Code | State | Operations |
|---|---|---|---|
| Webhook route | `W/app/api/webhooks/stripe/route.ts` | none of its own, one control flow per request | verify, parse, reserve, insert, read history, decide, save, append |
| Compliance drill | `W/app/api/compliance/simulate-violation/route.ts` | none | read history, decide, append |
| Idempotency store | `W/lib/idempotency.ts` | event id to expiry, in Upstash or per process | `reserve` |
| Payment store | `W/lib/stores/{memory,postgres}.ts` | invoice id to failure | `insert`, `attemptsForScope`, `get` |
| Decision store | same | invoice id to decision | `save`, `list` |
| Audit store and chain | `W/lib/audit/chain.ts`, same stores, `db/migrations/0001` | rows seq, prevHash, hash, decisionRef, actor | `latest`, `insert`, `all`; `appendAuditEntry`, `verifyAuditChain` |
| Triage, guardrail, pipeline | `W/lib/triage`, `W/lib/compliance`, `W/lib/pipeline.ts` | pure | `triage`, `evaluateScheduleProposal`, `decidePaymentOutcome` |
| Scheduler, scoring client | `W/lib/scheduler`, `W/lib/scoring` | per decision: five scores awaited in parallel, each with a 2.5 s timeout | `scheduleRetry`, `score`; the published curve as fallback |
| Runtime | `W/lib/runtime.ts` | the composed stores on `globalThis` | `getRuntime`, `buildRuntime` |
| Replay engine, series | `W/lib/replay` | per run: both arms' points, committed retries, the shared draws | `runReplay`, hourly series, totals |
| Replay store and routes | `W/app/api/replay`, `W/app/api/demo/bootstrap`, replay stores | streams, runs | seed, run, bootstrap, latest run |
| Eval loop | `W/lib/eval` | policy parameters, the grade under way, rounds | generate the corpus, grade an arm, tune |
| Dashboard | `W/hooks`, `W/lib/api`, `W/app/page.tsx` | per resource: data, error, in-flight request | poll, refetch, abort |
| Scoring sidecar | `services/scoring` | the model loaded by the process, the registry directory | load, score, timing policy |

A request of the route is one control flow that gives way at every `await`. Requests interact
only through the stores. Stripe delivers at least once and redelivers until it sees a 2xx; the
stores are remote (Postgres, Upstash) or objects of one process. A replay runs the same triage,
guardrail and scheduler as the webhook, over a history of its own; the eval loop runs the same
guardrail over synthetic failures, with the timing policy it tunes in the scheduler's place. The
dashboard reads the decision feed, the ledger and the latest run by polling, and writes through
the bootstrap and the drill.

### What is hard here

- `appendAuditEntry` reads the head in one call and inserts in another, with no lock.
- The event id is reserved before anything else is done, and never released.
- A redelivery may arrive while the first delivery is still running, or after the claim lapsed.
- A call may take effect and still report an error; a process may die between any two calls.
- Decisions about one customer's card are taken at once from a shared history.
- Payments and decisions are keyed by invoice while deliveries are keyed by event, and events of
  one invoice need not arrive in order.
- The caps are counted around the moment of the decision, and the retry runs later.
- Five scores are awaited at once: one may fail after others answered, the sidecar may restart or
  have its model replaced between two of them.
- A replay pushes to the history it judges on, and its two arms reach the same attempt in
  different order; ties between candidates would bend the tuner's search.
- Each poll aborts the one before; an aborted answer may still arrive, a button may refresh in
  between, and the server may not have the write a panel is waiting for.
- A run id depends on the failures replayed only, so saving a run may meet an earlier record.

### What makes each part correct

- Ledger: one linear chain in every interleaving; rows never change; the verifier is exact.
- Ingest: an event is processed by one request at a time, attested once per claim; what is
  acknowledged has been decided and attested; attested decisions are stored.
- Guardrail: the attempts in a network's window, the retry granted on them included, stay within
  its cap.
- Scheduling: a decision is wholly the model's, the first of the best of all its candidates under
  the pinned version, or wholly the published curve's; a replay that fell back says so.
- Replay: nothing is retried after a recovery, both arms have the same luck, a run's retries keep
  the caps, every failure is shown, the series ends at the totals.
- Stores and routes: the id of an answered run is stored; a saved decision shows at once in the feed,
  and the feed is newest first (which it is not, see section 3).
- Eval loop: a grade depends on its policy only, the policy arm pays no fee, a round takes the best
  neighbour or stays.
- Dashboard: a panel never goes back to an older answer, shows what its own page wrote, and catches
  up with the store.

## 2. The modules

| Module | Models | Code |
|---|---|---|
| `AuditChain` | the entry, its hash, `verifyAuditChain` | `W/lib/audit/chain.ts` |
| `AuditLedger` | requests appending to the Postgres or the in-memory ledger | `chain.ts:70-88`, both audit stores |
| `AuditLog` | abstract: an append-only list of attestations | what the ledger promises |
| `Triage` | decline class and network to action | `W/lib/triage/rules.ts` |
| `Guardrail` | caps and windows over a history | `W/lib/compliance/guardrail.ts` |
| `WebhookIngest` | the route and the drill, stores, Stripe, faults; composes the four above | `route.ts`, `pipeline.ts`, `idempotency.ts`, stores |
| `Calendar` | hours and paydays of a calendar with 30-day months | what the two policies read off a date |
| `TimingPolicy` | P(recover) of a moment | `services/scoring/src/scoring/policy.py` |
| `ScoringSidecar` | registry directory, load, cached bundle, score | `model_registry.py`, `main.py` |
| `ScheduleContract` | abstract: one question, one whole decision | what `scheduleRetry` promises |
| `RetryScheduler` | parallel scores, choice, timeout, fallback; over `ScoringSidecar` | `W/lib/scheduler`, `W/lib/scoring` |
| `ReplaySeries` | totals and cumulated hourly series | `W/lib/replay/series.ts` |
| `ReplayEngine` | both arms of a run; over `RetryScheduler`, `Triage`, `Guardrail`, `ReplaySeries` | `W/lib/replay/engine.ts` |
| `EvalPolicy` | the grid and the candidate moments | `W/lib/eval/policy.ts` |
| `EvalSimulator` | five streams, outcome of a retry | `W/lib/eval/simulator.ts` |
| `EvalGrader` | one arm over the corpus, attempt by attempt; over the two above and `Guardrail` | `W/lib/eval/grader.ts` |
| `EvalTuner` | the hill climb; over `EvalGrader` | `W/lib/eval/tuner.ts` |
| `ReplayStore` | both replay stores | `W/lib/stores/{memory,postgres}.ts` |
| `ReplayRoutes` | seed, run and bootstrap, await by await; over `ReplayStore` | `W/app/api/replay`, `W/app/api/demo/bootstrap` |
| `DecisionFeed` | abstract: every decision saved shows at once, payments in the order of their first decision | what the page can count on of `DecisionStore` |
| `DecisionStores` | both decision stores | `W/lib/stores/{memory,postgres}.ts` |
| `ApiResource` | the polling hook | `W/hooks/useApiResource.ts`, `W/lib/api/client.ts` |
| `Dashboard` | the page over `ReplayRoutes`, `DecisionStores` and `ApiResource` | `W/app/page.tsx`, `W/components/ComplianceLedger.tsx` |
| `Ordering` | sorting a finite set by a relation | `Array.prototype.sort`, `ORDER BY` |
| `*Proofs`, `Minima` | theorems, and the lemmas on least elements and on sorting they share | |
| `MC*` | instances for TLC | |

**Hashes.** A digest is modelled by what it commits to. The digest of an entry covers its
prevHash, which is the digest of the entry before; a collision-free digest is therefore the
list of all content up to the entry, and `ComputeAuditHash` appends to that list. Two entries
have the same hash only if the whole chains before them agree (lemma `HashInjective`).
The entry's `ts` is left out: it is covered by the digest as `decisionRef` is. Leaving it out
makes `UNIQUE(hash)` stronger in the model than in the database (two racing appends of the same
attestation differ in `ts` only), which changes nothing because the primary key on `seq`
rejects the second row in either case.

**Time.** A tick is a day. Ticks happen only while no request runs: a request lasts seconds, the
windows and the 24 h claim are days. `ts` of a failure is the tick at which it happened, `now()`
the current one.

**Steps.** `pc[h]` names the await request `h` stands at. A step runs from there to the next
await, and ends with `Await` or with `Answer`. `Answer(h, TRUE)` is a 2xx, which Stripe may or may
not receive. Remote calls can fail without effect (`FailsBeforeEffect`), fail after taking
effect (`FailsAfterEffect` inside the action), and a process can die (`Crash`), which also empties
what it kept in memory.

| `pc` | action | code |
|---|---|---|
| `reserve` | `Duplicate`, `Reserve` | `route.ts:36-51` |
| `insert` | `InsertPayment` | `route.ts:53` |
| `history` | `ReadHistory` (triage and guardrail run in the same step) | `route.ts:54-61`, `pipeline.ts:35-89` |
| `score` | `Schedule` | `scheduler.ts:74-100` |
| `save` | `SaveDecision` | `route.ts:62` |
| `latest`, `append` | `ReadHead`, `AppendAudit`, `AppendRejected` | `route.ts:64-68`, `chain.ts:70-88` |

**History.** Some variables have no counterpart in the code and only remember what it did: `granted`
every retry a saved decision committed to, `decided` every decision saved, `answered` every run
answered with 200, `demoLoaded` that a bootstrap was, `writes` how often the watched store changed,
`grades` every grade the tuner made. The properties need them because the
stores overwrite.

**The scheduler and the sidecar.** Time is in hours, probabilities in permille. A payment's candidates
are the offsets' indices; `ScoreArrives(i)` is the answer of one call, `ScoreRefused(i)` a refusal by
the sidecar, `CallFails(i)` the abort timer, a dropped connection or an answer that fails its
contract. The last score decides (`BestOf`), the first failure decides for the published curve
(`Degrade`), and what arrives after that is ignored, as with `Promise.all`. `ReplaceArtifact` is a
training run, `RestartSidecar` loses the loaded bundle, and the outage bound limits the two.

| Variable | Code |
|---|---|
| `artifact`, `cached` | `models/registry/<version>`, what `_cached_load` of `model_registry.py` holds |
| `asked`, `waiting`, `scores` | the payment of `scheduleRetry`, the pending and the fulfilled promises of its `Promise.all` |
| `schedule` | what `scheduleRetry` returned |
| `baseline`, `policy`, `history` | the points of the two arms, `attemptHistory` of `engine.ts` |

**The replay.** `ReplayBaseline` is the whole inner loop of the baseline arm, which awaits nothing.
The policy arm awaits the scheduler: `AskScheduler` runs triage and guardrail and asks,
`RecordRetry` draws the outcome and commits the retry to the history, `Settle` records what
the guardrail refused. The draw of an attempt is a table looked up by event and attempt, the same
for both arms, any table of the instance.

**The eval loop.** What the generator rolls for one failure is a member of `Rolls`; everything derived
from it (truth, moments, outcome, violations, fees) is computed as in the code. One attempt of one
arm is one step. Candidates are graded in the code's order of moves, which is not the string order
that breaks ties. Months have 30 days, so the paydays of a month are always the 1st and the 15th.

**The dashboard.** The panels share no state and neither do the stores behind them, so `panel` picks
one of them for the whole behaviour and only its store changes. `Poll` is the interval timer (or
a refresh), `EffectRuns` the effect that aborts the request under way and sends the next one,
`PanelRead` the server's read, `PanelAnswered` and `PanelFails` the settling of the request,
`PanelDrops` that of an aborted one. `RunDemo` and `Simulate` are the two buttons that write; an
other client seeds, runs and bootstraps at the same time through the same routes.

## 3. The runs

| Run | Instance | Shows |
|---|---|---|
| `ledger_postgres` | 3 requests, 2 payments, 2 actors, up to 4 rows | the chain stays linear, sealed entries extend a prefix, the ledger implements `AuditLog` |
| `audit_verifier` | memory store, 2 requests | on every ledger racing writers can leave, forked ones included, the scan's verdict is exact; every one-column rewrite of an intact chain, and every resealed row with a successor, is reported |
| `webhook_concurrent` | 2 processes with a request each, Postgres and Upstash, 2 failures of one Mastercard scope with a 24 h cap of 2, a drill, 2 deliveries each, 1 fault, 2 days, claims lapse after one | one request per event, no more attestations than claims, attested implies stored; attempts and the retry granted on them within the cap; every audit step is a ledger step |
| `webhook_serial` | 1 request, all kinds of payload, refusals and redeliveries, no store failure, 2 days | acknowledged implies decided and attested; every failure is attested in the end |
| `webhook_append_race` | 2 requests, no fault | **violated**: an acknowledged failure without attestation |
| `webhook_lost_claim` | 1 request, 1 fault | **violated**: an acknowledged failure without decision |
| `webhook_same_invoice` | 3 failures of one invoice, cap 2 | **violated**: more retries than the cap |
| `webhook_clustered` | 1 request, 3 Mastercard failures on 3 days, retried 1 to 3 days later, 24 h cap 2, no fault | **violated**: three retries scheduled into one 24 h window |
| `replay_scoring` | 4 streams of 2 failures (a Visa card twice; a Mastercard twice within hours; a hard decline, then a failure whose follow-up exceeds the attempt limit; a customer to ask, then a soft refusal on another network), 3 candidates, 2 trainings in 4 artifacts, 1 outage, 9 draw tables, caps 2, 1 and 2 | a decision is whole and by the first of the best scores of the pinned version, the scheduler implements `ScheduleContract`, fallbacks are disclosed, caps bind, luck is shared, nothing follows a recovery, every failure is shown, the series ends at the totals, the run ends |
| `eval_loop` | corpora of 7 failures, one or two per stream, 4 rolls, caps 3, 2 and 3, 4 rounds | types, no fee for the policy arm, recovered within retryable, a round improves or stays and takes the best neighbour, equal policies get equal grades, nothing changes after a round that changed nothing |
| `dashboard` | the page and one other client, 2 streams, 2 failure lists with one run id, 2 calls, 1 fault, 3 payments with a feed of 2, 2 ledger entries, either backend, any panel | panels never go back, show the page's own writes and catch up; answered runs are stored; both stores implement `DecisionFeed` |
| `feed_newest_first` | 3 payments, 3 saves, a feed of 2 | **violated**: the decision saved last is not at the head |

**Bounds.** Webhook and ledger: `MaxEntries` (ledger length), `MaxClock`,
`MaxDeliveries`, `MaxProbes` and `MaxFaults` are the only ones. Two requests and two deliveries give
every overlap of a redelivery with the first run; three concurrent appends let one request hold a
head that two others have passed. One fault at every possible call gives every
half-finished pipeline; `MaxClock` past `Ttl` makes a claim lapse. The caps are scaled down so that
both an allowed and a refused retry occur; that the 30 day and the Visa caps bind is checked in
`replay_scoring` and `eval_loop`, and proved of the ingest. `webhook_concurrent` uses the symmetry of
the two processes, each with its request; its properties are safety properties.

Replay: `MaxOutages` bounds refusals, restarts and replaced models, `MaxAttempt` the attempts the
booster's table knows. Three parallel scores are enough for one to fail before, between and after
the others; two failures of one scope let the follow-up of the first fill the cap of the second;
`Nows` puts the run inside the window of its stream and past it. Eval loop: the corpus has the
traps the code generates (payday, hard decline behind a soft code, a card at its cap, network
order, tenure), each once but the two whose second failure is judged on the first; four rounds
reach a stall. Dashboard: `MaxCalls`, `MaxFaults`, `MaxSaves` and `MaxEntries`; two overlapping calls
of one run id and a feed shorter than the payments are the cases in which the stores differ. The
polling itself is not bounded.

`CHECK_DEADLOCK` is off where everything bounded may have happened: Stripe may have nothing left to
send, a replay and a tuning run end.

**Fairness.** `webhook_serial`: `WF(HandlerStep(h))`, as the event loop resumes a request whose awaited
call has answered, and every call answers, scoring because of its abort timeout.
`WF(DeliverUnacked(e))`: Stripe redelivers what it has not seen acknowledged, and the last of
its tries is not refused for a configuration or clock reason. Nothing is assumed of payments,
drills, time or faults.

`replay_scoring`: `WF(EngineStep)` is the event loop, `WF(CallFails(i))` the abort timer of each call.
The sidecar owes no answer: a run ends though it never gives one.

`dashboard`: `WF(Poll)` is the interval timer, `WF(EffectRuns)` React running an effect it has
scheduled. The two strong fairness conditions are an assumption on the server, not on the code: now
and then it reads and answers before the next tick is due. Each tick aborts the request under
way, so a server always slower than the interval is never heard.

### What the violated runs say

1. `webhook_append_race`. Two webhooks that overlap seal the same `seq`. The primary key rejects
   the second row, the route answers 500 although the decision is already saved, and the
   redelivery is acknowledged as a duplicate. That decision never reaches the ledger that, by
   `README.md:5-6`, proves every decision. `chain.ts:67-68` asks callers for a lock; none takes
   one. A single instance is enough for the race, since it gives way at every await.
2. `webhook_lost_claim`. The claim of `route.ts:39` precedes the work and outlives its failure. The
   redelivery that `route.ts:37-38` relies on is answered `deduped`, and the payment is never
   decided.
3. `webhook_same_invoice`. Failures are keyed by invoice (`parse.ts:64`), so an invoice that fails
   repeatedly is one attempt in the history, and the guardrail grants a retry each time.
4. `webhook_clustered`. The guardrail looks at the window around now (`guardrail.ts:85`), and the
   webhook's history holds failures, while a granted retry runs up to 120 hours after its failure.
   Retries granted on different days are scheduled into one 24 h window beyond the Mastercard cap,
   which `guardrail.ts:75-76` says cannot happen.
5. `feed_newest_first`. A payment decided again keeps its place in both stores, though `memory.ts:57` and
   `0003_decisions.sql:3` say newest first. `DecisionFeed` is the promise that remains, and
   `ImplementsFeed` that both stores keep it.

`AckedIsDecided`, `AckedIsAttested` and `RetriesWithinCaps` therefore hold under the stated conditions
only: no failure; no failure and no rejected append; one failure per invoice. Section 4 proves
them under these, the last in the sharper form `AttemptsWithinCaps`, which counts the failure being
decided as the first of the attempts its retry adds to. It is what `>=` in `guardrail.ts` gives;
with `>` the retries alone would still be within the caps, and the attempts would not. What the
code does guarantee regardless is `OneRequestPerEvent`, `AttestedOncePerWindow`, `AttestedIsStored`,
`UsesLedger` and `ChainIntact`.

## 4. The proofs

Assumptions are the named `ASSUME`s of the modules; TLC evaluates them in every run. They fix the
types of the parameters and little else: that the drill's id is no invoice, that the in-memory
stores live in one process, that the fallback's version is not the pinned one, that the page is a
caller, that a cap and a window are positive. What a theorem needs beyond them is in its own
`ASSUME`, and named below.

`AuditLedgerProofs`
- `LedgerTyped`: the type invariant, over either store.
- `PostgresChainIntact`. `ChainIntact` alone is not inductive: an insert keeps it only if the sealed
  entry attaches to the current end. The strengthening `LedgerInv` adds `PendingExtendsPrefix`: a
  sealed entry, however stale, has a seq of at most the ledger's length and attaches to the row
  before that seq. If its seq is smaller than the length, a row with that seq exists and the
  primary key rejects it; otherwise it attaches to the end. `LedgerInvariant` and
  `PostgresPendingLinked` state the strengthening itself.
- `LedgerImplementsLog`: refinement of `AuditLog`, under the mapping that drops seq and hashes.
- `RewriteBreaksChain`: on an intact chain of any length, replacing a row that is not the last by
  any other row, resealed or not, leaves that row or its successor bad.
- `ScanIsExact` and `ScanReportsRewrites`, over either store. A sorted ledger has no bad row only if
  the row ranked k has seq k, so no seq is repeated; that the rows stand in that order as written
  needs `SeqsDescend`: before every row, forked or not, stands one with the number before.
  `Minima` says what sorting returns (`InOrderSorts`, `InOrderOnly`, `RisingStaysInPlace`).
- `SoleWriterIsNeverRejected`: over Postgres a sealed entry of the only writer has the ledger's
  length as its seq (`FreshPending`), which no row has; an equal hash would mean an equal seq, so
  neither key conflicts. `webhook_append_race` shows that two writers are enough for one to.

`WebhookIngestProofs`
- `IngestTyped`. The strengthening `IngestInv` adds what a request holds at each await.
- `IngestUsesLedger` and `IngestChainIntact`: each action of the ingest is a step or a stutter of
  `AuditLedger`, so the ledger's theorem carries over to the composed system.
- `SharedStoreOneRequestPerEvent`: a request past the reservation works under a claim that has not
  lapsed (`ClaimLive`), so a second reservation of the event fails. Needs the shared store, whose
  claims survive crashes, and that time does not pass within a request.
- `IngestAttestedIsStored`: between save and append the decision is stored, and the sealed entry
  names it (`AttestInv`).

`WebhookCapsProofs`
- `ConcurrentAttemptsWithinCaps`, over Postgres, for finitely many events each about an invoice of its
  own. The property counts granted retries, but between the guardrail and the save a request
  holds a grant nobody can see; `CapsInv` counts a failure from the moment its request passed the
  guardrail, and says that those of a window are fewer than the cap (`BelowCaps`). A request stores
  its payment before it reads the history, so of any failures that passed, the one that read last
  saw all the others and itself, and it passed, with fewer than the cap. `RetriesWithinCaps`
  follows. Invoices in common (`webhook_same_invoice`) or payments lost in a crash are what the
  hypotheses exclude.

`WebhookClaimsProofs`
- `SharedStoreAttestedOncePerWindow`, with the shared idempotency store. An entry names an invoice, not
  an event, so `OnceInv` says that entries can be attributed: each to an event of its invoice and
  to the moment of a claim, two of one event at least `Ttl` apart, none to the claim a request is
  still working under. An append uses up the claim of its request, which `OneRequestPerEvent`
  says no other shares, and the next claim waits for it to lapse. An attribution maps entries
  one to one into pairs of an event and a window.
- `FaultlessAckedIsDecided` (no call fails, no process dies; any stores, any concurrency) and
  `FaultlessAckedIsAttested` (the same, in memory or with one request at a time, where no append is
  rejected: `IngestNeverRejects`). A 2xx is given only under a claim, and `HandledInv` says of every
  claimed event that a request is deciding it or its decision is stored. `webhook_lost_claim` and
  `webhook_append_race` show that neither hypothesis can be dropped.

`ReplayProofs`, for any streams, candidates, artifacts, draws, caps and outages
- `PinnedModelScores` and `ModelPicksFirstOfTheBest`. `RunInv` says of every score on hand that it came
  from a bundle recording the pinned version, and that a stored schedule is the fallback or the
  first of the best of all candidates.
- `SchedulerKeepsContract`: the safety half of the refinement of `ScheduleContract`; that every
  question is answered is liveness and stays with TLC.
- `RunsDiscloseFallback` (`DisclosureInv`) and `CapsBind`: the retries the run shows are no more than
  the attempts the guardrail counts in its history (`CountedIn`), window by window.
- `ArmsShareLuck`: a point recovered if and only if the draw of its event and attempt is below its P
  (`ShownInv`), and both arms look up one table of draws, which a run never changes.
- `RecoveryEndsDunning` and `FailuresAreShown`, for streams in which every failure has an event id of
  its own (`DistinctEvents`). `CourseInv` says which events each arm has points of, how many, and
  that a follow-up is only open for an event with one point that did not recover. The code does
  not enforce the hypothesis: `replay-event.ts:17` calls the id "Dedupable", and nothing dedupes.
  With an id twice in a stream the second failure would follow the recovery of the first.
- `ReplayTyped`, and `SeriesIsCumulative`: the sums in the hourly series are sums over the points
  up to an hour, which only grow and end with all points.

`EvalLoopProofs`, for any corpus the simulator can roll, any caps, fees and number of rounds
- `TypeCorrect`, `ThePolicyPaysNoFee`, `RecoveredWereRetryable`. The guardrail looks around the failure
  and the fee around the execution; a candidate moment never lies before its failure (lemmas on
  `snapToPayday`), so no more attempts lie in the network's window than in the guardrail's.
  Between two retries of a failure one recovery is to spare (`PolicyGrade`).
- `GradesAreReproducible`. A grade is a course of states, each the `StepOf` the one before and of the
  corpus alone. Two courses of one policy agree everywhere, since there is no least step at which
  they differ, and end together (`CoursesEndAlike`); `ReproInv` keeps the course of every grade.
- `EveryRoundImprovesOrStays`: the best so far is the start of the round or strictly better
  (`RoundOK`). `RoundsTakeTheBestNeighbour`: every neighbour graded so far is beaten (`SearchInv`);
  the string order is total and transitive, so displacing the best loses nothing. `AStallIsFinal`:
  what a later round would adopt is a neighbour it graded (`MoveInv`); the round before started
  from the same parameters, graded it too, with the same metrics, and kept what it had.

`DashboardProofs`, for any number of clients, streams, payments, calls and faults, either store
- `AnsweredRunsAreStored`: `RoutesInv` says what a call holds when it is about to save or answer, and
  that no stored id is ever lost.
- `PanelsNeverShowOlder`: `PanelInv` orders what is shown, what the request under way has read, and
  the store; an aborted request may no longer show its data.
- `PanelsShowOwnWrites`: the refresh a button asks for is sent after its write was answered.
- `StoresImplementFeed`: the refinement of `DecisionFeed`. `FeedInv` says that no two rows have one
  `created_at` and that the next save is later than all of them, so both lists are the newest of
  one sequence, which grows at its new end or changes in place; `DecidedInv`, that the store holds
  exactly the payments that were ever decided.
- `DashboardTyped`: a loading panel waits for something, and a request under way shows as loading.

Only model-checked:
- liveness, which the prover does not reach: `FailuresAttested`, `ReplayFinishes`, `CatchesUp` and
  the fairness half of `KeepsContract`;
- the properties the code violates (section 3), outside the conditions under which three of them
  are proved. The others (`ScheduledWithinCaps`, `NewestFirst`) have no such condition that the code
  would justify.

## 5. Not modelled, and what the code says of itself

### Left out

- Rendering and copy, the schemas' text, the parsing of the signature header, the training script's
  numbers, SHAP drivers, `/v1/score/moments` and `/healthz`.
- The offline `PublishedCurveScorer`, which no route uses.
- The arithmetic of the seeded generators: a roll or a draw is any of a set, the same whenever
  its key is.
- In the dashboard: the Verify button, unmounting, the static eval-loop panel.
- A training that writes between the two reads of one load (`model.json`, then `meta.json`): a load
  is one step.
- The clock of Postgres. `created_at` of decisions and runs is `now()`, the start of a statement; the
  model stamps rows in the order of their commits and never twice alike. Two pooled connections
  (`postgres.ts:189-191` allows five) may commit in the other order, within microseconds.
- The guarantee of `appendAuditEntry` over the memory store depends on whether two handlers'
  microtasks interleave. `AuditLedger` lets them; in a server each request is resumed by its own
  I/O callback and an append then runs to its end. `audit_verifier` therefore only claims what the
  scan says of such ledgers.

### Where the code and its comments differ

None of these breaks a property of section 3; a reader of the code should know them.

Scheduling and scoring
- `scheduler.ts:7-8` says the scheduler scores P at each candidate moment. It sends the candidate as
  the failure's time, and the service scores 1, 3 and 7 days past it at the next attempt
  (`main.py:117-125`). An attempt of 50 passes the request's contract and fails that of the moments,
  a 500 and so the fallback.
- Five scores of one decision may come from two trainings of the pinned version when the sidecar
  restarts between them; a cached bundle is served after its artifact was replaced.
- Moments are relative to the failure: a redelivery days later schedules a retry in the past.

Replay
- A run id is a digest of the stream's id and the failures' event ids. Replaying them again is the
  same run: memory overwrites it, Postgres keeps the first (`ON CONFLICT DO NOTHING`), also when the
  stream was seeded anew with other amounts, while `POST /api/replay/run` answers with the run it
  did not store. `bootstrap/route.ts:9-10` says that each call appends a fresh run, and in the same
  sentence that the route is idempotent. `AnsweredRunsStored` therefore speaks of ids alone.
- `memory.ts:50` calls the latest run the most recent by creation. Of overlapping runs with one id the
  one saved last stays in memory and the one saved first in Postgres, whichever started first.
- Caps bind around `now` (`engine.ts:88-89`): for a stream older than the window the history counts
  nothing. Two events of one invoice may both count its amount as recovered.

Decisions
- The decision saved last stands, whichever failure was later. Delivered out of order, the RETRY on an
  older soft decline replaces the SUPPRESS on the hard decline that followed it.

Eval loop
- `grader.ts:89-90` says the policy arm cannot record a cap violation. A payday snap can put attempts
  on one moment, beyond the Mastercard 24 h rule, which costs no fee.
- `policy.ts:63-65` describes the snap per retry; all three may snap to one payday.
- P is clamped to 0.001 (`simulator.ts:75`) where `grader.ts:98-99` and `simulator.ts:144-146` say 0. A
  baseline that recovers more failures than are retryable would fail `ArmMetricsSchema`.
- The counter of `simulator.ts:109-117` survives a call, so a second corpus of one seed has other soft
  codes; no grade depends on which.

Dashboard
- Each poll sets `loading`, so the ledger's table gives way to a skeleton during every poll
  (`ComplianceLedger.tsx:115`), and a server slower than the interval is never heard.
- A verdict of Verify chain stays on show while the polled ledger below it grows.
