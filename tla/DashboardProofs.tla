-------------------------- MODULE DashboardProofs ---------------------------
(***************************************************************************)
(* Theorems about Dashboard, for any number of clients, streams, payments, *)
(* calls and faults, and for either store:                                 *)
(*   - a run answered with status 200 is stored under its id;              *)
(*   - what a panel shows never goes back;                                 *)
(*   - a settled panel shows what the user caused;                         *)
(*   - both stores are the feed that DecisionFeed describes;               *)
(*   - page and routes hold what their types say.                          *)
(***************************************************************************)
EXTENDS Dashboard, SequenceTheorems, Minima

-----------------------------------------------------------------------------
(***************************************************************************)
(* What the routes hold.  The page makes no other call than a bootstrap,   *)
(* and a call that is about to save a run has one, replayed no later than  *)
(* now.                                                                    *)
(***************************************************************************)
StoredEvents == EventLists \cup {NoStream}

RunRecord ==
  [runId : StreamIds \X {e.ids : e \in StoredEvents}, createdAt : Nat \ {0},
   of : StoredEvents]

CallRecord ==
  [op : {"none", "seed", "run", "bootstrap"},
   pc : {"idle", "saveStream", "getStream", "replay", "saveRun", "ok", "refused"},
   stream : StreamIds, events : StoredEvents, run : RunRecord \cup {NoRun}]

StoreOK ==
  /\ backend \in {"memory", "postgres"}
  /\ streams \in [StreamIds -> StoredEvents]
  /\ runs \in Seq(RunRecord)

CallsOK ==
  /\ calls \in [Callers -> CallRecord]
  /\ clock \in Nat \ {0}
  /\ \A c \in Callers : calls[c].pc = "saveRun" =>
       calls[c].run \in RunRecord /\ calls[c].run.createdAt <= clock
  /\ \A i \in DOMAIN runs : runs[i].createdAt <= clock

PageCallsOK ==
  /\ calls["page"].op \in {"none", "bootstrap"}
  /\ calls["page"].op = "none" => calls["page"].pc = "idle"
  /\ calls["page"].pc = "ok" => runs # <<>>

RoutesInv ==
  /\ StoreOK /\ CallsOK /\ PageCallsOK
  /\ answered \in Seq(RunRecord)
  /\ \A k \in DOMAIN answered : Known(answered[k].runId)

-----------------------------------------------------------------------------
(* What a stored run is.                                                   *)
LEMMA StoredRuns ==
  ASSUME StoreOK, NEW i \in DOMAIN runs
  PROVE  runs[i] \in RunRecord /\ runs[i].createdAt \in Nat \ {0}
<1>1. DOMAIN runs = 1 .. Len(runs)
  BY DEF StoreOK
<1>2. runs[i] \in RunRecord
  BY <1>1 DEF StoreOK
<1> QED  BY <1>2 DEF RunRecord

(* Saving a run keeps the ids that are known and makes its own known.      *)
LEMMA SaveRunStores ==
  ASSUME StoreOK, NEW run \in RunRecord, SaveRun(run)
  PROVE  /\ runs' \in Seq(RunRecord)
         /\ runs' # <<>>
         /\ \E i \in DOMAIN runs' : runs'[i].runId = run.runId
         /\ \A id : Known(id) => \E i \in DOMAIN runs' : runs'[i].runId = id
         /\ \A i \in DOMAIN runs' : runs'[i] = run \/ \E j \in DOMAIN runs : runs'[i] = runs[j]
<1>1. CASE ~ Known(run.runId) /\ runs' = Append(runs, run)
  BY <1>1 DEF StoreOK, Known
<1>2. CASE Known(run.runId) /\ backend = "postgres" /\ UNCHANGED runs
  BY <1>2 DEF StoreOK, Known
<1>3. CASE /\ Known(run.runId) /\ backend = "memory"
           /\ runs' = [i \in DOMAIN runs |->
                         IF runs[i].runId = run.runId THEN run ELSE runs[i]]
  <2>1. DOMAIN runs = 1 .. Len(runs) /\ Len(runs) \in Nat
    BY DEF StoreOK
  <2>2. DOMAIN runs' = DOMAIN runs /\ runs' \in [1 .. Len(runs) -> RunRecord]
    BY <1>3, <2>1 DEF StoreOK
  <2>3. runs' \in Seq(RunRecord)
    BY <2>1, <2>2
  <2>4. \A i \in DOMAIN runs : runs'[i].runId = runs[i].runId
    BY <1>3
  <2> QED  BY <1>3, <2>1, <2>2, <2>3, <2>4 DEF Known
<1> QED  BY <1>1, <1>2, <1>3 DEF SaveRun

(***************************************************************************)
(* Where a run is stored there is a latest one, in either store: of the    *)
(* runs created last, one was saved first.                                 *)
(***************************************************************************)
LEMMA LatestRunExists ==
  ASSUME StoreOK, clock \in Nat, \A i \in DOMAIN runs : runs[i].createdAt <= clock,
         runs # <<>>
  PROVE  LatestRun \in RunRecord
<1>1. DOMAIN runs = 1 .. Len(runs) /\ Len(runs) \in Nat \ {0}
  BY DEF StoreOK
<1>2. CASE backend = "postgres"
  BY <1>1, <1>2 DEF LatestRun, Last, StoreOK
<1>3. CASE backend = "memory"
  <2> DEFINE Ages == {clock - runs[i].createdAt : i \in DOMAIN runs}
  <2>1. \A j \in DOMAIN runs : runs[j].createdAt \in Nat
    BY StoredRuns
  <2>2. Ages \subseteq Nat /\ Ages # {}
    BY <1>1, <2>1
  <2>3. PICK age \in Ages : \A a \in Ages : age <= a
    BY <2>2, LeastNatural
  <2> DEFINE Newest0 == {i \in DOMAIN runs : clock - runs[i].createdAt = age}
  <2>4. Newest0 \subseteq Nat /\ Newest0 # {}
    BY <1>1, <2>3
  <2>5. PICK i \in Newest0 : \A j \in Newest0 : i <= j
    BY <2>4, LeastNatural
  <2>6. \A j \in DOMAIN runs :
          \/ runs[j].createdAt < runs[i].createdAt
          \/ runs[j].createdAt = runs[i].createdAt /\ i <= j
    <3> SUFFICES ASSUME NEW j \in DOMAIN runs
                 PROVE  \/ runs[j].createdAt < runs[i].createdAt
                        \/ runs[j].createdAt = runs[i].createdAt /\ i <= j
      OBVIOUS
    <3>1. clock - runs[j].createdAt >= age /\ clock - runs[i].createdAt = age
      BY <2>3, <2>5
    <3>2. j \in Newest0 => i <= j
      BY <2>5
    <3>3. runs[j].createdAt \in Nat /\ runs[i].createdAt \in Nat /\ age \in Nat
      BY <2>1, <2>2, <2>3, <2>5
    <3>4. CASE clock - runs[j].createdAt = age
      BY <3>1, <3>2, <3>3, <3>4
    <3>5. CASE clock - runs[j].createdAt > age
      BY <3>1, <3>3, <3>5
    <3> QED  BY <3>1, <3>3, <3>4, <3>5
  <2> DEFINE LastOf(k) == \A j \in DOMAIN runs :
                            \/ runs[j].createdAt < runs[k].createdAt
                            \/ runs[j].createdAt = runs[k].createdAt /\ k <= j
             k0 == CHOOSE k \in DOMAIN runs : LastOf(k)
  <2>7. k0 \in DOMAIN runs
    <3> HIDE DEF LastOf
    <3>1. i \in DOMAIN runs /\ LastOf(i)
      BY <2>5, <2>6 DEF LastOf
    <3> QED  BY <3>1
  <2>8. LatestRun = runs[k0]
    BY <1>3 DEF LatestRun
  <2> QED  BY <1>1, <2>7, <2>8 DEF StoreOK
<1> QED  BY <1>2, <1>3 DEF StoreOK

LEMMA LatestRunIsARun ==
  ASSUME RoutesInv, runs # <<>>
  PROVE  LatestRun # NoRun
<1>1. LatestRun \in RunRecord
  BY LatestRunExists DEF RoutesInv, CallsOK
<1> QED  BY <1>1 DEF RunRecord, NoRun

-----------------------------------------------------------------------------
(***************************************************************************)
(* The routes keep RoutesInv, step by step.                                *)
(***************************************************************************)
LEMMA RoutesInvInit == Init => RoutesInv
<1> SUFFICES ASSUME Init PROVE RoutesInv
  OBVIOUS
<1>1. NoCall \in CallRecord
  BY RouteAssumption DEF NoCall, CallRecord, StoredEvents
<1>2. CallsOK /\ PageCallsOK
  BY <1>1, PageAssumption DEF Init, InitRoutes, InitStore, NoCall, CallsOK, PageCallsOK
<1> QED  BY <1>2 DEF Init, InitRoutes, InitStore, RoutesInv, StoreOK, StoredEvents

LEMMA CallKeepsRoutes ==
  ASSUME RoutesInv, NEW c \in Callers, NEW op \in {"seed", "run", "bootstrap"},
         NEW pc \in {"saveStream", "getStream"}, NEW id \in StreamIds,
         NEW events \in StoredEvents, c = "page" => op = "bootstrap",
         Call(c, op, pc, id, events)
  PROVE  RoutesInv'
<1> DEFINE new == [NoCall EXCEPT !.op = op, !.pc = pc, !.stream = id, !.events = events]
<1>1. new \in CallRecord /\ new.op = op /\ new.pc = pc
  BY RouteAssumption DEF NoCall, CallRecord, StoredEvents
<1>2. calls' = [calls EXCEPT ![c] = new]
  BY DEF Call
<1> HIDE DEF new
<1>3. UNCHANGED <<backend, streams, runs, clock, answered>>
  BY DEF Call, storeVars
<1>4. StoreOK'
  BY <1>3 DEF RoutesInv, StoreOK
<1>5. CallsOK' /\ PageCallsOK'
  BY <1>1, <1>2, <1>3, PageAssumption DEF RoutesInv, CallsOK, PageCallsOK
<1> QED  BY <1>3, <1>4, <1>5 DEF RoutesInv, Known

(* The field pc of a call moves on, its events or its run with it.         *)
LEMMA CallStepKeepsRoutes ==
  ASSUME RoutesInv, NEW c \in Callers,
         StreamSaved(c) \/ StreamRead(c) \/ Replay(c) \/ StoreFails(c)
  PROVE  RoutesInv' /\ UNCHANGED <<backend, runs>>
<1>0. calls[c] \in CallRecord
  BY DEF RoutesInv, CallsOK
<1>1. CASE StreamSaved(c)
  <2>1. calls'[c] \in CallRecord /\ calls'[c].pc \in {"ok", "replay"}
        /\ calls'[c].op = calls[c].op /\ (calls'[c].pc = "ok" => calls[c].op = "seed")
    BY <1>0, <1>1 DEF StreamSaved, CallRecord, RoutesInv, CallsOK
  <2>2. /\ calls' = [calls EXCEPT ![c] = calls'[c]]
        /\ UNCHANGED <<backend, runs, clock, answered>>
        /\ streams' \in [StreamIds -> StoredEvents]
    BY <1>0, <1>1 DEF StreamSaved, SaveStream, CallRecord, RoutesInv, CallsOK, StoreOK
  <2>3. c = "page" => calls'[c].pc # "ok"
    BY <2>1 DEF RoutesInv, PageCallsOK
  <2>4. CallsOK' /\ PageCallsOK'
    BY <2>1, <2>2, <2>3, <1>1, PageAssumption
       DEF RoutesInv, CallsOK, PageCallsOK, StreamSaved
  <2> QED  BY <2>2, <2>4 DEF RoutesInv, StoreOK, Known
<1>2. CASE StreamRead(c)
  <2>1. streams[calls[c].stream] \in StoredEvents
    BY <1>0 DEF CallRecord, RoutesInv, StoreOK
  <2>2. calls'[c] \in CallRecord /\ calls'[c].pc \in {"refused", "replay"}
        /\ calls'[c].op = calls[c].op
    BY <1>0, <1>2, <2>1 DEF StreamRead, CallRecord, RoutesInv, CallsOK
  <2>3. /\ calls' = [calls EXCEPT ![c] = calls'[c]]
        /\ UNCHANGED <<backend, streams, runs, clock, answered>>
    BY <1>0, <1>2 DEF StreamRead, storeVars, CallRecord, RoutesInv, CallsOK
  <2>4. CallsOK' /\ PageCallsOK'
    BY <2>2, <2>3, <1>2, PageAssumption
       DEF RoutesInv, CallsOK, PageCallsOK, StreamRead
  <2> QED  BY <2>3, <2>4 DEF RoutesInv, StoreOK, Known
<1>3. CASE Replay(c)
  <2> DEFINE run == RunOf(calls[c].stream, calls[c].events, clock')
  <2>1. clock' \in Nat \ {0} /\ clock <= clock'
    BY <1>3 DEF Replay, RoutesInv, CallsOK
  <2>2. run \in RunRecord /\ run.createdAt = clock'
    BY <1>0, <2>1 DEF RunOf, RunRecord, CallRecord
  <2> HIDE DEF run
  <2>3. calls'[c] \in CallRecord /\ calls'[c].pc = "saveRun" /\ calls'[c].run = run
        /\ calls'[c].op = calls[c].op
    BY <1>0, <1>3, <2>2 DEF Replay, CallRecord, RoutesInv, CallsOK, run
  <2>4. /\ calls' = [calls EXCEPT ![c] = calls'[c]]
        /\ UNCHANGED <<backend, streams, runs, answered>>
    BY <1>0, <1>3 DEF Replay, storeVars, CallRecord, RoutesInv, CallsOK
  <2>5. \A i \in DOMAIN runs : runs[i].createdAt <= clock'
    <3>1. ASSUME NEW i \in DOMAIN runs PROVE runs[i].createdAt <= clock'
      <4>1. runs[i].createdAt \in Nat /\ runs[i].createdAt <= clock /\ clock \in Nat
        BY StoredRuns DEF RoutesInv, CallsOK
      <4> QED  BY <2>1, <4>1
    <3> QED  BY <3>1
  <2>6. ASSUME NEW d \in Callers, calls'[d].pc = "saveRun"
        PROVE  calls'[d].run \in RunRecord /\ calls'[d].run.createdAt <= clock'
    <3>1. CASE d = c
      BY <2>1, <2>2, <2>3, <3>1
    <3>2. CASE d # c
      <4>1. calls'[d] = calls[d]
        BY <2>4, <3>2 DEF RoutesInv, CallsOK
      <4> QED  BY <2>1, <2>6, <4>1 DEF RoutesInv, CallsOK, RunRecord
    <3> QED  BY <3>1, <3>2
  <2>7. CallsOK'
    BY <2>1, <2>3, <2>4, <2>5, <2>6 DEF RoutesInv, CallsOK
  <2>8. PageCallsOK'
    BY <1>3, <2>3, <2>4, PageAssumption DEF RoutesInv, CallsOK, PageCallsOK, Replay
  <2> QED  BY <2>4, <2>7, <2>8 DEF RoutesInv, StoreOK, Known
<1>4. CASE StoreFails(c)
  <2>1. calls'[c] \in CallRecord /\ calls'[c].pc = "refused" /\ calls'[c].op = calls[c].op
    BY <1>0, <1>4 DEF StoreFails, CallRecord, RoutesInv, CallsOK
  <2>2. /\ calls' = [calls EXCEPT ![c] = calls'[c]]
        /\ UNCHANGED <<backend, streams, runs, clock, answered>>
    BY <1>0, <1>4 DEF StoreFails, storeVars, CallRecord, RoutesInv, CallsOK
  <2>3. CallsOK' /\ PageCallsOK'
    BY <2>1, <2>2, <1>4, PageAssumption
       DEF RoutesInv, CallsOK, PageCallsOK, StoreFails
  <2> QED  BY <2>2, <2>3 DEF RoutesInv, StoreOK, Known
<1>5. UNCHANGED <<backend, runs>>
  BY DEF StreamSaved, StreamRead, Replay, StoreFails, storeVars
<1> QED  BY <1>1, <1>2, <1>3, <1>4, <1>5

LEMMA RunSavedKeepsRoutes ==
  ASSUME RoutesInv, NEW c \in Callers, RunSaved(c)
  PROVE  RoutesInv' /\ runs' # <<>>
<1> DEFINE run == calls[c].run
<1>1. calls[c] \in CallRecord /\ run \in RunRecord /\ run.createdAt <= clock
  BY DEF RoutesInv, CallsOK, RunSaved
<1>2. StoreOK /\ SaveRun(run)
  BY DEF RoutesInv, RunSaved
<1> HIDE DEF run
<1>3. /\ runs' \in Seq(RunRecord) /\ runs' # <<>>
      /\ \E i \in DOMAIN runs' : runs'[i].runId = run.runId
      /\ \A id : Known(id) => \E i \in DOMAIN runs' : runs'[i].runId = id
      /\ \A i \in DOMAIN runs' : runs'[i] = run \/ \E j \in DOMAIN runs : runs'[i] = runs[j]
  BY <1>1, <1>2, SaveRunStores
<1>4. /\ calls'[c] \in CallRecord /\ calls'[c].pc = "ok" /\ calls'[c].op = calls[c].op
      /\ calls' = [calls EXCEPT ![c] = calls'[c]]
  BY <1>1 DEF RunSaved, CallRecord, RoutesInv, CallsOK
<1>5. UNCHANGED <<backend, streams, clock>> /\ answered' = Append(answered, run)
  BY DEF RunSaved, run
<1>6. \A i \in DOMAIN runs' : runs'[i].createdAt <= clock
  BY <1>1, <1>3 DEF RoutesInv, CallsOK
<1>7. CallsOK' /\ PageCallsOK'
  BY <1>3, <1>4, <1>5, <1>6, PageAssumption DEF RoutesInv, CallsOK, PageCallsOK, RunSaved
<1>8. /\ answered' \in Seq(RunRecord)
      /\ \A k \in DOMAIN answered' :
           \E i \in DOMAIN runs' : runs'[i].runId = answered'[k].runId
  <2>1. answered \in Seq(RunRecord) /\ \A k \in DOMAIN answered : Known(answered[k].runId)
    BY DEF RoutesInv
  <2>2. answered' \in Seq(RunRecord)
    BY <1>1, <1>5, <2>1
  <2>3. ASSUME NEW k \in DOMAIN answered'
        PROVE  \E i \in DOMAIN runs' : runs'[i].runId = answered'[k].runId
    <3>1. Len(answered) \in Nat /\ DOMAIN answered = 1 .. Len(answered)
      BY <2>1
    <3>2. k \in 1 .. Len(answered) + 1
      BY <1>1, <1>5, <2>1
    <3>3. CASE k = Len(answered) + 1
      <4>1. answered'[k] = run
        BY <1>1, <1>5, <2>1, <3>3
      <4> QED  BY <1>3, <4>1
    <3>4. CASE k \in DOMAIN answered
      <4>1. answered'[k] = answered[k]
        BY <1>1, <1>5, <2>1, <3>1, <3>4
      <4> QED  BY <1>3, <2>1, <3>4, <4>1
    <3> QED  BY <3>1, <3>2, <3>3, <3>4
  <2> QED  BY <2>2, <2>3
<1> QED  BY <1>2, <1>3, <1>5, <1>7, <1>8 DEF RoutesInv, StoreOK, Known

LEMMA AnsweredKeepsRoutes ==
  ASSUME RoutesInv, NEW c \in Callers, Answered(c)
  PROVE  RoutesInv' /\ UNCHANGED <<backend, runs>>
<1>1. NoCall \in CallRecord /\ NoCall.pc = "idle" /\ NoCall.op = "none"
  BY RouteAssumption DEF NoCall, CallRecord, StoredEvents
<1>2. /\ calls' = [calls EXCEPT ![c] = NoCall]
      /\ UNCHANGED <<backend, streams, runs, clock, answered>>
  BY DEF Answered, storeVars
<1>3. CallsOK' /\ PageCallsOK'
  BY <1>1, <1>2, PageAssumption DEF RoutesInv, CallsOK, PageCallsOK
<1> QED  BY <1>2, <1>3 DEF RoutesInv, StoreOK, Known

-----------------------------------------------------------------------------
(* Everything else of the dashboard leaves what the routes hold alone.     *)
LEMMA OthersKeepRoutes ==
  ASSUME RoutesInv, UNCHANGED <<storeVars, calls, clock, answered>>
  PROVE  RoutesInv'
  BY DEF RoutesInv, StoreOK, CallsOK, PageCallsOK, Known, storeVars

LEMMA PanelKeepsRoutes ==
  ASSUME RoutesInv, PanelStep \/ UNCHANGED vars
  PROVE  RoutesInv' /\ UNCHANGED <<backend, runs, calls>>
<1>1. UNCHANGED <<storeVars, calls, clock, answered>>
  BY DEF PanelStep, Poll, EffectRuns, PanelRead, PanelAnswered, PanelFails, PanelDrops,
         serverVars, routeVars, vars
<1> QED  BY <1>1, OthersKeepRoutes DEF storeVars

LEMMA PageKeepsRoutes ==
  ASSUME RoutesInv, PageStep
  PROVE  RoutesInv' /\ UNCHANGED <<backend, runs>>
<1>1. CASE RunDemo
  <2>1. CallBootstrap("page")
    BY <1>1 DEF RunDemo
  <2>2. DemoStream \in StreamIds /\ DemoEvents \in StoredEvents
    BY RouteAssumption DEF StoredEvents
  <2>3. Call("page", "bootstrap", "saveStream", DemoStream, DemoEvents)
    BY <2>1 DEF CallBootstrap
  <2>4. UNCHANGED <<backend, runs>>
    BY <2>3 DEF Call, storeVars
  <2> QED  BY <2>2, <2>3, <2>4, CallKeepsRoutes, PageAssumption
<1>2. CASE BootstrapDone \/ BootstrapFails
  BY <1>2, AnsweredKeepsRoutes, PageAssumption DEF BootstrapDone, BootstrapFails
<1>3. CASE Simulate \/ DrillAppends \/ SimulateDone \/ SimulateFails
  <2>1. UNCHANGED <<storeVars, calls, clock, answered>>
    BY <1>3 DEF Simulate, DrillAppends, SimulateDone, SimulateFails, serverVars, routeVars
  <2> QED  BY <2>1, OthersKeepRoutes DEF storeVars
<1> QED  BY <1>1, <1>2, <1>3 DEF PageStep

(* Once there is a run there is always one.                                *)
LEMMA ServerKeepsRoutes ==
  ASSUME RoutesInv, ServerStep
  PROVE  RoutesInv' /\ (runs # <<>> => runs' # <<>>)
<1>1. ASSUME NEW c \in Callers, OtherCall(c) PROVE RoutesInv' /\ UNCHANGED runs
  <2>1. PICK op \in {"seed", "run", "bootstrap"}, pc \in {"saveStream", "getStream"},
              id \in StreamIds, events \in StoredEvents : Call(c, op, pc, id, events)
    BY <1>1, RouteAssumption
       DEF OtherCall, CallSeed, CallRun, CallBootstrap, StoredEvents
  <2>2. c # "page"
    BY <1>1 DEF OtherCall
  <2>3. UNCHANGED runs
    BY <2>1 DEF Call, storeVars
  <2> QED  BY <2>1, <2>2, <2>3, CallKeepsRoutes
<1>2. ASSUME NEW c \in Callers, CallStep(c) PROVE RoutesInv' /\ UNCHANGED runs
  BY <1>2, CallStepKeepsRoutes DEF CallStep
<1>3. ASSUME NEW c \in Callers, RunIsSaved(c) PROVE RoutesInv' /\ runs' # <<>>
  BY <1>3, RunSavedKeepsRoutes DEF RunIsSaved
<1>4. ASSUME NEW c \in Callers, OtherAnswered(c) PROVE RoutesInv' /\ UNCHANGED runs
  BY <1>4, AnsweredKeepsRoutes DEF OtherAnswered
<1>5. CASE WebhookDecides \/ WebhookAttests
  <2>1. UNCHANGED <<storeVars, calls, clock, answered>>
    BY <1>5 DEF WebhookDecides, WebhookAttests, routeVars
  <2> QED  BY <2>1, OthersKeepRoutes DEF storeVars
<1> QED  BY <1>1, <1>2, <1>3, <1>4, <1>5 DEF ServerStep

(* The inductive invariant of the store and the routes that call it.       *)
LEMMA RoutesInvariant == Spec => []RoutesInv
<1>1. Init => RoutesInv
  BY RoutesInvInit
<1>2. RoutesInv /\ [Next]_vars => RoutesInv'
  BY PanelKeepsRoutes, PageKeepsRoutes, ServerKeepsRoutes DEF Next
<1> QED  BY <1>1, <1>2, PTL DEF Spec

(***************************************************************************)
(* A run answered with status 200 is stored under its id, whatever calls   *)
(* overlapped or failed, in either store (replay/run/route.ts:35-36,       *)
(* bootstrap/route.ts:22-38).                                              *)
(***************************************************************************)
THEOREM AnsweredRunsAreStored == Spec => []AnsweredRunsStored
<1>1. RoutesInv => AnsweredRunsStored
  BY DEF RoutesInv, AnsweredRunsStored
<1> QED  BY <1>1, RoutesInvariant, PTL

-----------------------------------------------------------------------------
(***************************************************************************)
(* The panel.  An answer is as old as its read: it is not older than what  *)
(* is on show, for the request it answers was sent after that was shown,   *)
(* and while no tick waits it was sent after the user's last write, too.   *)
(***************************************************************************)
Fresh ==
  /\ writes \in Nat /\ data.asOf \in Int /\ data.asOf <= writes
  /\ request.phase = "read" =>
       /\ request.answer.asOf \in Int
       /\ data.asOf <= request.answer.asOf /\ request.answer.asOf <= writes

AuditShown ==
  /\ entries \in Nat /\ violation \in Nat /\ violation <= entries
  /\ drill.phase = "appended" => drill.value \in Nat /\ drill.value <= entries
  /\ panel = "audit" /\ ~ due /\ request.phase = "read" => request.answer.shows >= violation
  /\ panel = "audit" /\ Settled /\ error = "none" => data.shows >= violation

ReplayShown ==
  /\ demoLoaded => runs # <<>>
  /\ panel = "replay" /\ demoLoaded /\ ~ due /\ request.phase = "read" =>
       request.answer.shows # NoRun
  /\ panel = "replay" /\ demoLoaded /\ Settled /\ error = "none" => data.shows # NoRun

PanelInv == (request # None => loading) /\ Fresh /\ AuditShown /\ ReplayShown

LEMMA PanelInvInit == Init => PanelInv
<1> SUFFICES ASSUME Init PROVE PanelInv
  OBVIOUS
<1>1. /\ request = None /\ request.phase = "none" /\ due
      /\ writes = 0 /\ entries = 0 /\ violation = 0
      /\ data.asOf = -1 /\ drill.phase = "idle" /\ demoLoaded = FALSE
  BY DEF Init, InitHook, None, Null, Idle
<1> QED  BY <1>1 DEF PanelInv, Fresh, AuditShown, ReplayShown, Settled

(* The stores only grow.                                                   *)
LEMMA StoresGrow ==
  ASSUME PanelInv, RoutesInv, ServerStep
  PROVE  /\ UNCHANGED <<panel, pageVars, hookVars>>
         /\ writes' \in Nat /\ writes <= writes'
         /\ entries' \in Nat /\ entries <= entries'
         /\ runs # <<>> => runs' # <<>>
<1>1. UNCHANGED <<panel, pageVars, hookVars>>
  BY DEF ServerStep, OtherCall, CallStep, RunIsSaved, OtherAnswered, WebhookDecides,
         WebhookAttests
<1>2. writes' \in {writes, writes + 1} /\ entries' \in {entries, entries + 1}
  BY DEF ServerStep, OtherCall, CallStep, RunIsSaved, OtherAnswered, WebhookDecides,
         WebhookAttests, Append1
<1>3. writes \in Nat /\ entries \in Nat
  BY DEF PanelInv, Fresh, AuditShown
<1> QED  BY <1>1, <1>2, <1>3, ServerKeepsRoutes

LEMMA ServerKeepsPanel ==
  ASSUME PanelInv, RoutesInv, ServerStep
  PROVE  PanelInv' /\ UNCHANGED data
<1>1. UNCHANGED <<panel, violation, drill, demoLoaded, due, request, data, error, loading>>
  BY StoresGrow DEF pageVars, auditVars, demoVars, hookVars
<1>2. (request # None => loading)'
  BY <1>1 DEF PanelInv
<1>3. Fresh'
  BY <1>1, StoresGrow DEF PanelInv, Fresh
<1>4. AuditShown'
  BY <1>1, StoresGrow DEF PanelInv, AuditShown, Settled
<1>5. ReplayShown'
  BY <1>1, StoresGrow DEF PanelInv, ReplayShown, Settled
<1> QED  BY <1>1, <1>2, <1>3, <1>4, <1>5 DEF PanelInv

(* What a request reads is what the store holds.                           *)
LEMMA AnswerIsCurrent ==
  ASSUME PanelInv, RoutesInv
  PROVE  /\ Answer.asOf = writes
         /\ panel = "audit" => Answer.shows >= violation
         /\ panel = "replay" /\ demoLoaded => Answer.shows # NoRun
<1>1. Answer.asOf = writes /\ Answer.shows = Contents
  BY DEF Answer
<1>2. panel = "audit" => Contents = entries
  BY DEF Contents
<1>3. panel = "replay" => Contents = LatestRun
  BY DEF Contents
<1>4. entries >= violation
  BY DEF PanelInv, AuditShown
<1>5. demoLoaded => LatestRun # NoRun
  BY LatestRunIsARun DEF PanelInv, ReplayShown
<1> QED  BY <1>1, <1>2, <1>3, <1>4, <1>5

LEMMA PanelKeepsPanel ==
  ASSUME PanelInv, RoutesInv, PanelStep \/ UNCHANGED vars
  PROVE  PanelInv' /\ data'.asOf >= data.asOf
<1>1. UNCHANGED <<panel, runs, entries, writes, violation, drill, demoLoaded>>
  BY DEF PanelStep, Poll, EffectRuns, PanelRead, PanelAnswered, PanelFails, PanelDrops,
         serverVars, pageVars, auditVars, demoVars, vars, storeVars
<1>2. CASE UNCHANGED <<request, data, error, loading>> /\ (due => due')
  BY <1>1, <1>2 DEF PanelInv, Fresh, AuditShown, ReplayShown, Settled
<1>3. CASE EffectRuns
  <2>1. /\ request' = Sent /\ Sent.phase = "sent" /\ loading' = TRUE
        /\ UNCHANGED data
    BY <1>3 DEF EffectRuns, Effect, Sent
  <2> QED  BY <1>1, <2>1 DEF PanelInv, Fresh, AuditShown, ReplayShown, Settled
<1>4. CASE PanelRead
  <2>1. /\ request' = ReadAnswer(Answer) /\ request # None
        /\ UNCHANGED <<due, data, error, loading>>
    BY <1>4 DEF PanelRead, RouteReads, None
  <2>2. request'.answer = Answer
    BY <2>1 DEF ReadAnswer
  <2> QED  BY <1>1, <2>1, <2>2, AnswerIsCurrent
              DEF PanelInv, Fresh, AuditShown, ReplayShown, Settled
<1>5. CASE PanelAnswered
  <2>1. /\ request.phase = "read" /\ data' = request.answer
        /\ request' = None /\ None.phase = "none" /\ UNCHANGED due
    BY <1>5 DEF PanelAnswered, AnswerArrives, None
  <2> QED  BY <1>1, <2>1 DEF PanelInv, Fresh, AuditShown, ReplayShown, Settled
<1>6. CASE PanelFails
  <2>1. /\ error' # "none" /\ request' = None /\ None.phase = "none"
        /\ UNCHANGED <<due, data>>
    BY <1>6, ErrorAssumption DEF PanelFails, RequestFails, None
  <2> QED  BY <1>1, <2>1 DEF PanelInv, Fresh, AuditShown, ReplayShown, Settled
<1>7. Poll \/ PanelDrops \/ UNCHANGED vars =>
        UNCHANGED <<request, data, error, loading>> /\ (due => due')
  BY DEF Poll, Tick, PanelDrops, AbortedSettles, hookVars, vars
<1> QED  BY <1>2, <1>3, <1>4, <1>5, <1>6, <1>7 DEF PanelStep

LEMMA PageKeepsPanel ==
  ASSUME PanelInv, RoutesInv, PageStep
  PROVE  PanelInv' /\ UNCHANGED data
<1>0. UNCHANGED runs
  BY PageKeepsRoutes
<1>1. CASE RunDemo \/ BootstrapFails
  <2>1. UNCHANGED <<panel, entries, writes, violation, drill, demoLoaded, due, request,
                    data, error, loading>>
    BY <1>1 DEF RunDemo, BootstrapFails, auditVars, hookVars
  <2> QED  BY <1>0, <2>1 DEF PanelInv, Fresh, AuditShown, ReplayShown, Settled
<1>2. CASE BootstrapDone
  <2>1. /\ due' = TRUE /\ runs # <<>>
        /\ UNCHANGED <<panel, entries, writes, violation, drill, request, data, error, loading>>
    BY <1>2 DEF BootstrapDone, Tick, auditVars, RoutesInv, PageCallsOK
  <2> QED  BY <1>0, <2>1 DEF PanelInv, Fresh, AuditShown, ReplayShown, Settled
<1>3. CASE Simulate \/ SimulateFails
  <2>1. /\ drill'.phase # "appended"
        /\ UNCHANGED <<panel, entries, writes, violation, demoLoaded, due, request, data,
                       error, loading>>
    BY <1>3 DEF Simulate, SimulateFails, serverVars, demoVars, hookVars
  <2> QED  BY <1>0, <2>1 DEF PanelInv, Fresh, AuditShown, ReplayShown, Settled
<1>4. CASE DrillAppends
  <2>1. /\ entries' = entries + 1 /\ writes' = writes + 1 /\ drill'.value = entries'
        /\ UNCHANGED <<panel, violation, demoLoaded, due, request, data, error, loading>>
    BY <1>4 DEF DrillAppends, Append1, demoVars, hookVars
  <2> QED  BY <1>0, <2>1 DEF PanelInv, Fresh, AuditShown, ReplayShown, Settled
<1>5. CASE SimulateDone
  <2>1. /\ due' = TRUE /\ violation' = drill.value /\ drill.phase = "appended"
        /\ drill'.phase = "idle"
        /\ UNCHANGED <<panel, entries, writes, demoLoaded, request, data, error, loading>>
    BY <1>5 DEF SimulateDone, Tick, Idle, serverVars, demoVars
  <2> QED  BY <1>0, <2>1 DEF PanelInv, Fresh, AuditShown, ReplayShown, Settled
<1> QED  BY <1>1, <1>2, <1>3, <1>4, <1>5 DEF PageStep

LEMMA PanelInvariant == Spec => [](RoutesInv /\ PanelInv)
<1>1. Init => PanelInv
  BY PanelInvInit
<1>2. PanelInv /\ RoutesInv /\ [Next]_vars => PanelInv'
  BY ServerKeepsPanel, PanelKeepsPanel, PageKeepsPanel DEF Next
<1> QED  BY <1>1, <1>2, RoutesInvariant, PTL DEF Spec

(***************************************************************************)
(* What a panel shows never goes back, however polls, refreshes and the    *)
(* answers of aborted requests overtake each other                         *)
(* (useApiResource.ts:22-55).                                              *)
(***************************************************************************)
THEOREM PanelsNeverShowOlder == Spec => NeverShowsOlder
<1>1. RoutesInv /\ PanelInv /\ [Next]_vars => data'.asOf >= data.asOf
  <2> SUFFICES ASSUME RoutesInv, PanelInv, [Next]_vars PROVE data'.asOf >= data.asOf
    OBVIOUS
  <2>1. data.asOf \in Int
    BY DEF PanelInv, Fresh
  <2>2. CASE ServerStep \/ PageStep
    BY <2>1, <2>2, ServerKeepsPanel, PageKeepsPanel
  <2>3. CASE PanelStep \/ UNCHANGED vars
    BY <2>3, PanelKeepsPanel
  <2> QED  BY <2>2, <2>3 DEF Next
<1>2. RoutesInv /\ PanelInv /\ [Next]_vars => [data'.asOf >= data.asOf]_vars
  BY <1>1
<1> QED  BY <1>2, PanelInvariant, PTL DEF Spec, NeverShowsOlder

(***************************************************************************)
(* A settled panel without an error shows the entry the user's drill was   *)
(* refused with, and a run once a bootstrap was answered well              *)
(* (ComplianceLedger.tsx:47-49, page.tsx:36-38).                           *)
(***************************************************************************)
THEOREM PanelsShowOwnWrites == Spec => []ShowsOwnWrites
<1>1. PanelInv => ShowsOwnWrites
  BY DEF PanelInv, AuditShown, ReplayShown, ShowsOwnWrites
<1> QED  BY <1>1, PanelInvariant, PTL

-----------------------------------------------------------------------------
(***************************************************************************)
(* The decision stores as the feed they implement.  What is listed is the  *)
(* first Limit of all that is stored, by the time of its first decision,   *)
(* latest first; in Postgres that is the order of created_at, which no two *)
(* rows share, for a row is stamped when it is inserted and never again.   *)
(***************************************************************************)
Entry == [paymentId : Payments, record : Decisions]

Entered(p, d) == [paymentId |-> p, record |-> d]

Holds(s, p) == \E i \in DOMAIN s : s[i].paymentId = p

Updated(s, p, d) ==
  [i \in DOMAIN s |-> IF s[i].paymentId = p THEN [s[i] EXCEPT !.record = d] ELSE s[i]]

Stored == {p \in Payments : rows[p] # NoRow}

Later == {pq \in Stored \X Stored : rows[pq[1]].createdAt > rows[pq[2]].createdAt}

RowEntries(order) ==
  [i \in DOMAIN order |-> [paymentId |-> order[i], record |-> rows[order[i]].record]]

All == IF store = "memory" THEN Reverse(byPaymentId) ELSE RowEntries(InOrder(Stored, Later))

LEMMA ListIsNewest == List = Newest(All)
BY DEF List, MapList, RowList, All, RowEntries, Stored, Later

RowRecord == [record : Decisions, createdAt : Nat \ {0}]

FeedInv ==
  /\ store \in {"memory", "postgres"} /\ saves \in Nat
  /\ byPaymentId \in Seq(Entry)
  /\ rows \in [Payments -> RowRecord \cup {NoRow}]
  /\ \A p \in Stored : rows[p].createdAt <= saves
  /\ \A p, q \in Stored : rows[p].createdAt = rows[q].createdAt => p = q

LEMMA StoredRow ==
  ASSUME FeedInv, NEW p \in Payments
  PROVE  /\ p \in Stored <=> rows[p] \in RowRecord
         /\ p \in Stored <=> rows[p].createdAt # 0
         /\ p \in Stored => rows[p].record \in Decisions /\ rows[p].createdAt \in Nat \ {0}
<1>1. rows[p] \in RowRecord \cup {NoRow}
  BY DEF FeedInv
<1>2. NoRow.createdAt = 0
  BY DEF NoRow
<1>3. rows[p] \in RowRecord =>
        rows[p].record \in Decisions /\ rows[p].createdAt \in Nat /\ rows[p].createdAt # 0
  BY DEF RowRecord
<1> QED  BY <1>1, <1>2, <1>3 DEF Stored

(* The rows are finitely many and created_at puts them in order.           *)
LEMMA RowsOrdered ==
  ASSUME FeedInv
  PROVE  IsFiniteSet(Stored) /\ StrictOrder(Stored, Later)
<1>1. IsFiniteSet(Stored)
  <2> DEFINE f == [p \in Stored |-> rows[p].createdAt]
  <2>1. \A p \in Stored : rows[p].createdAt \in 1 .. saves
    <3> SUFFICES ASSUME NEW p \in Stored PROVE rows[p].createdAt \in 1 .. saves
      OBVIOUS
    <3>1. p \in Payments
      BY DEF Stored
    <3>2. rows[p].createdAt \in Nat \ {0}
      BY <3>1, StoredRow
    <3>3. rows[p].createdAt <= saves /\ saves \in Nat
      BY DEF FeedInv
    <3> QED  BY <3>2, <3>3
  <2>2. f \in Injection(Stored, 1 .. saves)
    BY <2>1 DEF Injection, IsInjective, FeedInv
  <2>3. IsFiniteSet(1 .. saves)
    BY FS_Interval DEF FeedInv
  <2> HIDE DEF f
  <2> QED  BY <2>2, <2>3, FS_Injection
<1>2. \A p \in Stored : rows[p].createdAt \in Nat
  BY StoredRow DEF Stored
<1>3. \A p, q \in Stored : <<p, q>> \in Later <=> rows[p].createdAt > rows[q].createdAt
  BY DEF Later
<1>4. \A p, q \in Stored : rows[p].createdAt = rows[q].createdAt => p = q
  BY DEF FeedInv
<1>5. \A p \in Stored : <<p, p>> \notin Later
  BY <1>2, <1>3
<1>6. \A p, q, r \in Stored :
        <<p, q>> \in Later /\ <<q, r>> \in Later => <<p, r>> \in Later
  BY <1>2, <1>3
<1>7. \A p, q \in Stored : p # q => <<p, q>> \in Later \/ <<q, p>> \in Later
  BY <1>2, <1>3, <1>4
<1> QED  BY <1>1, <1>5, <1>6, <1>7 DEF StrictOrder

(* A payment was decided at some time exactly when the store holds it.     *)
Held(p) == IF store = "memory" THEN InMap(p) ELSE p \in Stored

DecidedInv ==
  /\ decided \in Seq(Entry)
  /\ \A p \in Payments : Holds(decided, p) <=> Held(p)

LEMMA FeedInvInit == Init => FeedInv /\ DecidedInv
<1> SUFFICES ASSUME Init PROVE FeedInv /\ DecidedInv
  OBVIOUS
<1>1. store \in {"memory", "postgres"} /\ saves = 0 /\ byPaymentId = <<>>
      /\ rows = [p \in Payments |-> NoRow] /\ decided = <<>>
  BY DEF Init, InitRoutes, InitStore, InitDecisions
<1>2. Stored = {}
  BY <1>1 DEF Stored
<1>3. DecidedInv
  BY <1>1, <1>2 DEF DecidedInv, Holds, Held, InMap
<1> QED  BY <1>1, <1>2, <1>3 DEF FeedInv

(* What a sequence holds once it has one more entry.                       *)
LEMMA AppendHolds ==
  ASSUME NEW s \in Seq(Entry), NEW p \in Payments, NEW d \in Decisions, NEW q \in Payments
  PROVE  Holds(Append(s, Entered(p, d)), q) <=> Holds(s, q) \/ q = p
<1> DEFINE x == Entered(p, d)
           t == Append(s, x)
<1>1. x \in Entry /\ x.paymentId = p
  BY DEF Entered, Entry
<1> HIDE DEF x
<1>2. /\ Len(s) \in Nat /\ DOMAIN s = 1 .. Len(s) /\ DOMAIN t = 1 .. Len(s) + 1
      /\ t[Len(s) + 1] = x /\ \A i \in 1 .. Len(s) : t[i] = s[i]
  BY <1>1
<1> HIDE DEF t
<1>3. \A i \in 1 .. Len(s) + 1 : i \in 1 .. Len(s) \/ i = Len(s) + 1
  BY <1>2
<1>4. \A i \in 1 .. Len(s) : i \in 1 .. Len(s) + 1
  BY <1>2
<1>5. Len(s) + 1 \in 1 .. Len(s) + 1
  BY <1>2
<1>6. Holds(t, q) <=> Holds(s, q) \/ q = p
  BY <1>1, <1>2, <1>3, <1>4, <1>5 DEF Holds
<1> QED  BY <1>6 DEF t, x

(* The webhook alone writes decisions.                                     *)
LEMMA DecisionSteps ==
  ASSUME [Next]_vars
  PROVE  \/ \E p \in Payments, d \in Decisions : SaveDecision(p, d)
         \/ UNCHANGED decisionVars
<1>1. CASE ServerStep
  BY <1>1 DEF ServerStep, OtherCall, CallStep, RunIsSaved, OtherAnswered, WebhookDecides,
              WebhookAttests
<1>2. CASE PanelStep \/ UNCHANGED vars
  BY <1>2 DEF PanelStep, Poll, EffectRuns, PanelRead, PanelAnswered, PanelFails,
              PanelDrops, serverVars, vars
<1>3. CASE PageStep
  BY <1>3 DEF PageStep, RunDemo, BootstrapDone, BootstrapFails, Simulate, DrillAppends,
              SimulateDone, SimulateFails, serverVars
<1> QED  BY <1>1, <1>2, <1>3 DEF Next

LEMMA MapSaveKeepsFeed ==
  ASSUME FeedInv, NEW p \in Payments, NEW d \in Decisions, MapSave(p, d)
  PROVE  byPaymentId' \in Seq(Entry) /\ UNCHANGED rows
<1>1. UNCHANGED rows
  BY DEF MapSave
<1>2. byPaymentId \in Seq(Entry)
  BY DEF FeedInv
<1>3. CASE InMap(p)
  <2>1. byPaymentId' = Updated(byPaymentId, p, d)
    BY <1>3 DEF MapSave, Updated
  <2>2. Len(byPaymentId) \in Nat /\ DOMAIN byPaymentId = 1 .. Len(byPaymentId)
    BY <1>2
  <2>3. \A i \in 1 .. Len(byPaymentId) : byPaymentId[i] \in Entry
    BY <1>2
  <2>4. \A e \in Entry : [e EXCEPT !.record = d] \in Entry
    BY DEF Entry
  <2>5. byPaymentId' \in [1 .. Len(byPaymentId) -> Entry]
    BY <2>1, <2>2, <2>3, <2>4 DEF Updated
  <2> QED  BY <1>1, <2>2, <2>5
<1>4. CASE ~ InMap(p)
  <2>1. Entered(p, d) \in Entry
    BY DEF Entered, Entry
  <2>2. byPaymentId' = Append(byPaymentId, Entered(p, d))
    BY <1>4 DEF MapSave, Entered
  <2> QED  BY <1>1, <1>2, <2>1, <2>2
<1> QED  BY <1>3, <1>4

LEMMA RowSaveKeepsFeed ==
  ASSUME FeedInv, NEW p \in Payments, NEW d \in Decisions, RowSave(p, d),
         saves' = saves + 1, UNCHANGED store
  PROVE  /\ FeedInv'
         /\ Stored' = Stored \cup {p}
         /\ rows'[p].record = d
         /\ \A q \in Payments : q # p => rows'[q] = rows[q]
         /\ p \in Stored => \A q \in Stored : rows'[q].createdAt = rows[q].createdAt
         /\ p \notin Stored => rows'[p].createdAt = saves + 1
<1> DEFINE row == [record    |-> d,
                   createdAt |-> IF rows[p] = NoRow THEN saves + 1 ELSE rows[p].createdAt]
<1>0. rows \in [Payments -> RowRecord \cup {NoRow}] /\ saves \in Nat
  BY DEF FeedInv
<1>1. rows' = [rows EXCEPT ![p] = row] /\ UNCHANGED byPaymentId
  BY <1>0 DEF RowSave
<1>2. p \in Stored <=> rows[p] # NoRow
  BY DEF Stored
<1>3. row.record = d /\ row.createdAt \in Nat \ {0}
      /\ (p \in Stored => row.createdAt = rows[p].createdAt)
      /\ (p \notin Stored => row.createdAt = saves + 1)
  BY <1>0, <1>2, StoredRow
<1>4. row \in RowRecord /\ row # NoRow /\ row.createdAt <= saves + 1
  <2>1. p \in Stored => rows[p].createdAt <= saves
    BY DEF FeedInv
  <2>2. row \in RowRecord
    BY <1>3 DEF RowRecord
  <2> QED  BY <1>0, <1>3, <2>1, <2>2 DEF NoRow
<1> HIDE DEF row
<1>5. rows'[p] = row /\ \A q \in Payments : q # p => rows'[q] = rows[q]
  BY <1>0, <1>1
<1>6. rows' \in [Payments -> RowRecord \cup {NoRow}]
  BY <1>0, <1>1, <1>4
<1>7. Stored' = Stored \cup {p}
  BY <1>4, <1>5 DEF Stored
<1>8. \A q \in Stored' : q # p => q \in Stored /\ rows'[q].createdAt = rows[q].createdAt
                                 /\ rows[q].createdAt <= saves /\ rows[q].createdAt \in Nat
  <2> SUFFICES ASSUME NEW q \in Stored', q # p
               PROVE  q \in Stored /\ rows'[q].createdAt = rows[q].createdAt
                      /\ rows[q].createdAt <= saves /\ rows[q].createdAt \in Nat
    OBVIOUS
  <2>1. q \in Stored /\ q \in Payments
    BY <1>7 DEF Stored
  <2>2. rows[q].createdAt <= saves
    BY <2>1 DEF FeedInv
  <2> QED  BY <1>5, <2>1, <2>2, StoredRow
<1>9. ASSUME NEW q \in Stored', NEW r \in Stored', rows'[q].createdAt = rows'[r].createdAt
      PROVE  q = r
  <2>1. ASSUME NEW x \in Stored', x # p PROVE rows'[x].createdAt # rows'[p].createdAt
    <3>1. x \in Stored /\ rows'[x].createdAt = rows[x].createdAt
          /\ rows[x].createdAt <= saves /\ rows[x].createdAt \in Nat
      BY <1>8, <2>1
    <3>2. CASE p \in Stored
      <4>1. rows[x].createdAt # rows[p].createdAt
        BY <2>1, <3>1, <3>2 DEF FeedInv
      <4> QED  BY <1>3, <1>5, <3>1, <3>2, <4>1
    <3>3. CASE p \notin Stored
      BY <1>0, <1>3, <1>5, <3>1, <3>3
    <3> QED  BY <3>2, <3>3
  <2>2. CASE q # p /\ r # p
    BY <1>8, <1>9, <2>2 DEF FeedInv
  <2> QED  BY <1>9, <2>1, <2>2
<1>10. \A q \in Stored' : rows'[q].createdAt <= saves'
  <2> SUFFICES ASSUME NEW q \in Stored' PROVE rows'[q].createdAt <= saves + 1
    OBVIOUS
  <2>1. CASE q = p
    BY <1>4, <1>5, <2>1
  <2>2. CASE q # p
    BY <1>0, <1>8, <2>2
  <2> QED  BY <2>1, <2>2
<1>11. store' \in {"memory", "postgres"} /\ saves' \in Nat /\ byPaymentId' \in Seq(Entry)
  BY <1>0, <1>1 DEF FeedInv
<1>12. FeedInv'
  BY <1>6, <1>9, <1>10, <1>11 DEF FeedInv
<1>13. p \in Stored => \A q \in Stored : rows'[q].createdAt = rows[q].createdAt
  <2>1. Stored \subseteq Payments
    BY DEF Stored
  <2> QED  BY <1>3, <1>5, <2>1
<1> QED  BY <1>3, <1>5, <1>7, <1>12, <1>13

LEMMA SaveKeepsFeed ==
  ASSUME FeedInv, NEW p \in Payments, NEW d \in Decisions, SaveDecision(p, d)
  PROVE  FeedInv'
<1>1. saves' = saves + 1 /\ UNCHANGED store
  BY DEF SaveDecision
<1>2. CASE MapSave(p, d)
  <2>1. byPaymentId' \in Seq(Entry) /\ UNCHANGED rows
    BY <1>2, MapSaveKeepsFeed
  <2>2. Stored' = Stored
    BY <2>1 DEF Stored
  <2>3. saves \in Nat /\ saves' \in Nat
    BY <1>1 DEF FeedInv
  <2>4. \A q \in Stored : rows[q].createdAt <= saves'
    <3> SUFFICES ASSUME NEW q \in Stored PROVE rows[q].createdAt <= saves'
      OBVIOUS
    <3>1. rows[q].createdAt <= saves /\ q \in Payments
      BY DEF FeedInv, Stored
    <3>2. rows[q].createdAt \in Nat
      BY <3>1, StoredRow
    <3> QED  BY <1>1, <2>3, <3>1, <3>2
  <2> QED  BY <1>1, <2>1, <2>2, <2>3, <2>4 DEF FeedInv
<1>3. CASE RowSave(p, d)
  BY <1>1, <1>3, RowSaveKeepsFeed
<1> QED  BY <1>2, <1>3 DEF SaveDecision

(* A save adds its payment, and no other, to those the store holds.        *)
LEMMA SaveHolds ==
  ASSUME FeedInv, NEW p \in Payments, NEW d \in Decisions, SaveDecision(p, d),
         NEW q \in Payments
  PROVE  Held(q)' <=> Held(q) \/ q = p
<1>1. saves' = saves + 1 /\ UNCHANGED store
  BY DEF SaveDecision
<1>2. byPaymentId \in Seq(Entry)
  BY DEF FeedInv
<1>3. CASE store = "memory"
  <2>1. MapSave(p, d)
    BY <1>3 DEF SaveDecision
  <2>2. CASE InMap(p)
    <3>1. byPaymentId' = Updated(byPaymentId, p, d)
      BY <2>1, <2>2 DEF MapSave, Updated
    <3>2. /\ DOMAIN byPaymentId' = DOMAIN byPaymentId
          /\ \A i \in DOMAIN byPaymentId :
               byPaymentId'[i] = IF byPaymentId[i].paymentId = p
                                 THEN [byPaymentId[i] EXCEPT !.record = d]
                                 ELSE byPaymentId[i]
      BY <3>1 DEF Updated
    <3>3. \A i \in DOMAIN byPaymentId : byPaymentId[i] \in Entry
      BY <1>2
    <3>4. \A i \in DOMAIN byPaymentId : byPaymentId'[i].paymentId = byPaymentId[i].paymentId
      BY <3>2, <3>3 DEF Entry
    <3> QED  BY <1>1, <1>3, <2>2, <3>2, <3>4 DEF Held, InMap
  <2>3. CASE ~ InMap(p)
    <3>1. byPaymentId' = Append(byPaymentId, Entered(p, d)) /\ Entered(p, d) \in Entry
      BY <2>1, <2>3 DEF MapSave, Entered, Entry
    <3>2. Holds(Append(byPaymentId, Entered(p, d)), q) <=> Holds(byPaymentId, q) \/ q = p
      BY <1>2, <3>1, AppendHolds
    <3> QED  BY <1>1, <1>3, <3>1, <3>2 DEF Held, InMap, Holds
  <2> QED  BY <2>2, <2>3
<1>4. CASE store = "postgres"
  <2>1. RowSave(p, d)
    BY <1>4 DEF SaveDecision
  <2>2. Stored' = Stored \cup {p}
    BY <1>1, <2>1, RowSaveKeepsFeed
  <2> QED  BY <1>1, <1>4, <2>2 DEF Held
<1> QED  BY <1>3, <1>4 DEF SaveDecision

LEMMA SaveKeepsDecided ==
  ASSUME FeedInv, DecidedInv, NEW p \in Payments, NEW d \in Decisions, SaveDecision(p, d)
  PROVE  DecidedInv'
<1>1. decided' = Append(decided, Entered(p, d)) /\ Entered(p, d) \in Entry
  BY DEF SaveDecision, Entered, Entry
<1>2. decided \in Seq(Entry)
  BY DEF DecidedInv
<1>3. ASSUME NEW q \in Payments PROVE Holds(decided', q) <=> Held(q)'
  <2>1. Holds(decided', q) <=> Holds(decided, q) \/ q = p
    BY <1>1, <1>2, AppendHolds
  <2>2. Held(q)' <=> Held(q) \/ q = p
    BY SaveHolds
  <2> QED  BY <2>1, <2>2 DEF DecidedInv
<1>4. decided' \in Seq(Entry)
  BY <1>1, <1>2
<1> QED  BY <1>3, <1>4 DEF DecidedInv, Holds

LEMMA FeedInvariant == Spec => [](FeedInv /\ DecidedInv)
<1>1. Init => FeedInv /\ DecidedInv
  BY FeedInvInit
<1>2. FeedInv /\ DecidedInv /\ [Next]_vars => FeedInv' /\ DecidedInv'
  <2> SUFFICES ASSUME FeedInv, DecidedInv, [Next]_vars PROVE FeedInv' /\ DecidedInv'
    OBVIOUS
  <2>1. CASE UNCHANGED decisionVars
    BY <2>1 DEF FeedInv, DecidedInv, Held, Holds, InMap, Stored, decisionVars
  <2> QED  BY <2>1, DecisionSteps, SaveKeepsFeed, SaveKeepsDecided
<1> QED  BY <1>1, <1>2, PTL DEF Spec

-----------------------------------------------------------------------------
(* The first Limit of a sequence, position by position.                    *)
Shown(n) == IF n < Limit THEN n ELSE Limit

LEMMA NewestIs ==
  ASSUME NEW S, NEW s \in Seq(S)
  PROVE  /\ Len(s) \in Nat /\ Shown(Len(s)) \in Nat /\ Shown(Len(s)) <= Len(s)
         /\ s \in [1 .. Len(s) -> S]
         /\ Newest(s) \in Seq(S)
         /\ Len(Newest(s)) = Shown(Len(s))
         /\ Newest(s) = [i \in 1 .. Shown(Len(s)) |-> s[i]]
<1> DEFINE m == Shown(Len(s))
<1>1. Len(s) \in Nat /\ s \in [1 .. Len(s) -> S]
  BY LenProperties
<1>2. m \in Nat /\ m <= Len(s)
  BY <1>1, LimitAssumption DEF Shown
<1>3. Newest(s) = SubSeq(s, 1, m)
  BY DEF Newest, Shown
<1> HIDE DEF m
<1>4. \A i \in 1 .. m : s[i] \in S
  BY <1>1, <1>2
<1>5. /\ Newest(s) \in Seq(S)
      /\ Len(Newest(s)) = (IF 1 <= m THEN m - 1 + 1 ELSE 0)
      /\ \A i \in 1 .. m - 1 + 1 : Newest(s)[i] = s[1 + i - 1]
  BY <1>2, <1>3, <1>4, SubSeqProperties
<1>6. Len(Newest(s)) = m /\ \A i \in 1 .. m : Newest(s)[i] = s[i]
  <2>1. \A i \in 1 .. m : i \in 1 .. m - 1 + 1 /\ 1 + i - 1 = i
    BY <1>2
  <2> QED  BY <1>2, <1>5, <2>1
<1>7. Newest(s) \in [1 .. m -> S]
  BY <1>5, <1>6, LenProperties
<1>8. Newest(s) = [i \in 1 .. m |-> s[i]]
  BY <1>6, <1>7
<1> QED  BY <1>1, <1>2, <1>5, <1>6, <1>8 DEF m

(* Two sequences of one length that agree everywhere.                      *)
LEMMA SameSequence ==
  ASSUME NEW S, NEW s \in Seq(S), NEW t \in Seq(S), Len(s) = Len(t),
         \A i \in 1 .. Len(s) : s[i] = t[i]
  PROVE  s = t
<1>1. s \in [1 .. Len(s) -> S] /\ t \in [1 .. Len(s) -> S]
  BY LenProperties
<1> QED  BY <1>1

(* What stands where in a sequence with one more element before it.        *)
LEMMA PrependedIs ==
  ASSUME NEW S, NEW x \in S, NEW t \in Seq(S)
  PROVE  /\ <<x>> \o t \in Seq(S) /\ Len(<<x>> \o t) = 1 + Len(t) /\ Len(t) \in Nat
         /\ (<<x>> \o t)[1] = x
         /\ \A i \in 1 .. Len(t) : (<<x>> \o t)[i + 1] = t[i]
<1> DEFINE one == <<x>>
<1>1. one \in Seq(S) /\ Len(one) = 1 /\ one[1] = x
  OBVIOUS
<1>2. Len(t) \in Nat
  BY LenProperties
<1> HIDE DEF one
<1>3. one \o t \in Seq(S)
  BY <1>1, ConcatProperties
<1>4. Len(one \o t) = Len(one) + Len(t)
  BY <1>1, ConcatProperties
<1>5. \A i \in 1 .. Len(one) + Len(t) :
        (one \o t)[i] = IF i <= Len(one) THEN one[i] ELSE t[i - Len(one)]
  BY <1>1, ConcatProperties
<1>6. (one \o t)[1] = x
  BY <1>1, <1>2, <1>5
<1>7. ASSUME NEW i \in 1 .. Len(t) PROVE (one \o t)[i + 1] = t[i]
  <2>1. i + 1 \in 1 .. Len(one) + Len(t) /\ ~ i + 1 <= Len(one) /\ (i + 1) - Len(one) = i
    BY <1>1, <1>2
  <2> QED  BY <1>5, <2>1
<1> QED  BY <1>1, <1>2, <1>3, <1>4, <1>6, <1>7 DEF one

(* Of what is put before a sequence, only the first Limit show.            *)
LEMMA NewestPrepended ==
  ASSUME NEW S, NEW s \in Seq(S), NEW x \in S
  PROVE  Newest(<<x>> \o s) = Newest(<<x>> \o Newest(s))
<1> DEFINE n == Len(s)
           m == Shown(n)
           f == Newest(s)
           long  == <<x>> \o s
           short == <<x>> \o f
<1>1. /\ n \in Nat /\ m \in Nat /\ m <= n
      /\ f \in Seq(S) /\ Len(f) = m /\ f = [i \in 1 .. m |-> s[i]]
  BY NewestIs
<1>2. \A i \in 1 .. m : f[i] = s[i]
  BY <1>1
<1>3. m = IF n < Limit THEN n ELSE Limit
  BY DEF Shown
<1> HIDE DEF m, f
<1>4. /\ long \in Seq(S) /\ Len(long) = 1 + n /\ long[1] = x
      /\ \A i \in 1 .. n : long[i + 1] = s[i]
  BY PrependedIs
<1>5. /\ short \in Seq(S) /\ Len(short) = 1 + m /\ short[1] = x
      /\ \A i \in 1 .. m : short[i + 1] = f[i]
  BY <1>1, PrependedIs
<1> DEFINE k == Shown(1 + n)
<1> HIDE DEF n, long, short
<1>6. k \in Nat /\ k <= 1 + n /\ k <= 1 + m /\ Shown(1 + m) = k
  BY <1>1, <1>3, LimitAssumption DEF Shown
<1> HIDE DEF k
<1>7. \A i \in 1 .. k : long[i] = short[i]
  <2> SUFFICES ASSUME NEW i \in 1 .. k, i # 1 PROVE long[i] = short[i]
    BY <1>4, <1>5
  <2>1. i - 1 \in 1 .. m /\ i - 1 \in 1 .. n /\ (i - 1) + 1 = i
    BY <1>1, <1>6
  <2>2. long[i] = s[i - 1] /\ short[i] = f[i - 1]
    BY <1>4, <1>5, <2>1
  <2> QED  BY <1>2, <2>1, <2>2
<1>8. Newest(long) = [i \in 1 .. k |-> long[i]]
  BY <1>4, NewestIs DEF k
<1>9. Newest(short) = [i \in 1 .. k |-> short[i]]
  BY <1>5, <1>6, NewestIs
<1> QED  BY <1>7, <1>8, <1>9 DEF long, short, f

(* Changing a record changes it where it is listed.                        *)
LEMMA NewestUpdated ==
  ASSUME NEW s \in Seq(Entry), NEW p \in Payments, NEW d \in Decisions
  PROVE  /\ Updated(s, p, d) \in Seq(Entry)
         /\ Newest(Updated(s, p, d)) = Updated(Newest(s), p, d)
<1> DEFINE n == Len(s)
           m == Shown(n)
           u == Updated(s, p, d)
<1>1. /\ n \in Nat /\ m \in Nat /\ m <= n /\ s \in [1 .. n -> Entry]
      /\ Newest(s) = [i \in 1 .. m |-> s[i]]
  BY NewestIs
<1>2. \A e \in Entry : [e EXCEPT !.record = d] \in Entry
  BY DEF Entry
<1>3. u \in [1 .. n -> Entry]
  BY <1>1, <1>2 DEF Updated
<1>4. u \in Seq(Entry) /\ Len(u) = n
  <2> HIDE DEF u, n
  <2> QED  BY <1>1, <1>3
<1>5. Newest(u) = [i \in 1 .. m |-> u[i]]
  <2> HIDE DEF u, n
  <2> QED  BY <1>4, NewestIs
<1>6. \A i \in 1 .. m : u[i] = IF s[i].paymentId = p THEN [s[i] EXCEPT !.record = d] ELSE s[i]
  <2>1. \A i \in 1 .. m : i \in DOMAIN s
    BY <1>1
  <2> QED  BY <2>1 DEF Updated
<1>7. Updated(Newest(s), p, d) =
        [i \in 1 .. m |-> IF s[i].paymentId = p THEN [s[i] EXCEPT !.record = d] ELSE s[i]]
  <2> HIDE DEF m
  <2> QED  BY <1>1 DEF Updated
<1> QED
  <2> HIDE DEF u, m, n
  <2>1. Newest(u) = Updated(Newest(s), p, d)
    BY <1>5, <1>6, <1>7
  <2> QED  BY <1>4, <2>1 DEF u

(* A list changed in either way is a feed that takes in the decision.      *)
LEMMA ListSteps ==
  ASSUME NEW p \in Payments, NEW d \in Decisions, All \in Seq(Entry),
         decided' = Append(decided, Entered(p, d)),
         \/ ~ Holds(decided, p) /\ All' = <<Entered(p, d)>> \o All
         \/ Holds(decided, p) /\ All' = Updated(All, p, d)
  PROVE  Feed!Next
<1> DEFINE f == Newest(All)
           m == Shown(Len(All))
<1>1. List = f /\ List' = Newest(All')
  BY DEF List, MapList, RowList, All, RowEntries, Stored, Later
<1>2. Entered(p, d) \in Entry
  BY DEF Entered, Entry
<1>3. /\ m \in Nat /\ m <= Len(All) /\ Len(All) \in Nat /\ f = [i \in 1 .. m |-> All[i]]
      /\ DOMAIN All = 1 .. Len(All)
  BY NewestIs
<1>4. DOMAIN f = 1 .. m /\ \A i \in 1 .. m : f[i] = All[i] /\ i \in DOMAIN All
  BY <1>3
<1>5. CASE ~ Holds(decided, p) /\ All' = <<Entered(p, d)>> \o All
  <2>1. List' = Newest(<<Entered(p, d)>> \o f)
    BY <1>1, <1>2, <1>5, NewestPrepended
  <2> HIDE DEF f
  <2>2. List' = Feed!Upto(<<Entered(p, d)>> \o List)
    BY <1>1, <2>1 DEF Feed!Upto, Newest
  <2>3. Feed!Decide(p, d)
    BY <1>5, <2>2 DEF Feed!Decide, Feed!Occurs, Holds, Entered
  <2> QED  BY <2>3 DEF Feed!Next
<1>6. CASE Holds(decided, p) /\ All' = Updated(All, p, d)
  <2>1. List' = Updated(f, p, d)
    BY <1>1, <1>6, NewestUpdated
  <2>2. \A i \in DOMAIN f : f[i] \in Entry
    BY <1>4
  <2> HIDE DEF f
  <2>3. \A e \in Entry : e.paymentId = p => [e EXCEPT !.record = d] = Entered(p, d)
    BY DEF Entry, Entered
  <2>4. List' = [i \in DOMAIN List |->
                  IF List[i].paymentId = p THEN Entered(p, d) ELSE List[i]]
    BY <1>1, <2>1, <2>2, <2>3 DEF Updated
  <2>5. Feed!Decide(p, d)
    BY <1>6, <2>4 DEF Feed!Decide, Feed!Occurs, Holds, Entered
  <2> QED  BY <2>5 DEF Feed!Next
<1> QED  BY <1>5, <1>6

-----------------------------------------------------------------------------
(* The Map: a new key is put last, and reading it backwards makes it first.*)
LEMMA ReverseIs ==
  ASSUME NEW S, NEW s \in Seq(S)
  PROVE  /\ Reverse(s) \in Seq(S) /\ Len(Reverse(s)) = Len(s)
         /\ \A i \in 1 .. Len(s) : Reverse(s)[i] = s[Len(s) - i + 1]
<1>1. Len(s) \in Nat /\ s \in [1 .. Len(s) -> S]
  BY LenProperties
<1>2. Reverse(s) = [i \in 1 .. Len(s) |-> s[(Len(s) - i) + 1]]
  BY DEF Reverse
<1>3. \A i \in 1 .. Len(s) : (Len(s) - i) + 1 \in 1 .. Len(s)
  BY <1>1
<1>4. Reverse(s) \in [1 .. Len(s) -> S]
  BY <1>1, <1>2, <1>3
<1> QED  BY <1>1, <1>2, <1>4

LEMMA MapSaveIsAStep ==
  ASSUME FeedInv, NEW p \in Payments, NEW d \in Decisions, MapSave(p, d),
         store = "memory", UNCHANGED store
  PROVE  /\ All \in Seq(Entry)
         /\ \/ ~ Held(p) /\ All' = <<Entered(p, d)>> \o All
            \/ Held(p) /\ All' = Updated(All, p, d)
<1> DEFINE b == byPaymentId
           n == Len(b)
           r == Reverse(b)
<1>1. b \in Seq(Entry) /\ b' \in Seq(Entry)
  BY MapSaveKeepsFeed DEF FeedInv
<1>2. All = r /\ All' = Reverse(b')
  BY DEF All
<1>3. /\ n \in Nat /\ DOMAIN b = 1 .. n
      /\ r \in Seq(Entry) /\ Len(r) = n /\ DOMAIN r = 1 .. n
      /\ \A i \in 1 .. n : r[i] = b[n - i + 1]
  BY <1>1, ReverseIs, LenProperties
<1>4. \A i \in 1 .. n : n - i + 1 \in 1 .. n
  BY <1>3
<1>5. Held(p) <=> InMap(p)
  BY DEF Held
<1>6. CASE InMap(p)
  <2>1. b' = Updated(b, p, d)
    BY <1>6 DEF MapSave, Updated
  <2>2. Updated(r, p, d) \in Seq(Entry)
    BY <1>3, NewestUpdated
  <2>3. /\ Len(b') = n
        /\ \A i \in 1 .. n : b'[i] = IF b[i].paymentId = p THEN [b[i] EXCEPT !.record = d] ELSE b[i]
    <3>1. DOMAIN b' = 1 .. n
      BY <1>3, <2>1 DEF Updated
    <3>2. Len(b') = n
      BY <1>1, <1>3, <3>1
    <3> QED  BY <1>3, <2>1, <3>2 DEF Updated
  <2>4. /\ Reverse(b') \in Seq(Entry) /\ Len(Reverse(b')) = n
        /\ \A i \in 1 .. n : Reverse(b')[i] = b'[n - i + 1]
    BY <1>1, <2>3, ReverseIs
  <2>5. /\ Len(Updated(r, p, d)) = n
        /\ \A i \in 1 .. n : Updated(r, p, d)[i] =
             IF r[i].paymentId = p THEN [r[i] EXCEPT !.record = d] ELSE r[i]
    <3>1. DOMAIN Updated(r, p, d) = 1 .. n
      BY <1>3 DEF Updated
    <3>2. Len(Updated(r, p, d)) = n
      BY <1>3, <2>2, <3>1
    <3> QED  BY <1>3, <3>2 DEF Updated
  <2> HIDE DEF r, n, b
  <2>6. \A i \in 1 .. n : Reverse(b')[i] = Updated(r, p, d)[i]
    BY <1>3, <1>4, <2>3, <2>4, <2>5
  <2>7. Reverse(b') = Updated(r, p, d)
    BY <2>2, <2>4, <2>5, <2>6, SameSequence
  <2> QED  BY <1>2, <1>3, <1>5, <1>6, <2>7
<1>7. CASE ~ InMap(p)
  <2> DEFINE x == Entered(p, d)
  <2>1. x \in Entry /\ b' = Append(b, x)
    BY <1>7 DEF MapSave, Entered, Entry
  <2>2. Len(b') = n + 1 /\ b'[n + 1] = x /\ \A i \in 1 .. n : b'[i] = b[i]
    BY <1>1, <1>3, <2>1
  <2>3. /\ Reverse(b') \in Seq(Entry) /\ Len(Reverse(b')) = n + 1
        /\ \A i \in 1 .. n + 1 : Reverse(b')[i] = b'[n + 1 - i + 1]
    BY <1>1, <2>2, ReverseIs
  <2> HIDE DEF r, n, b, x
  <2>4. /\ <<x>> \o r \in Seq(Entry) /\ Len(<<x>> \o r) = 1 + n
        /\ (<<x>> \o r)[1] = x
        /\ \A i \in 1 .. n : (<<x>> \o r)[i + 1] = r[i]
    BY <1>3, <2>1, PrependedIs
  <2>5. \A i \in 1 .. n + 1 : Reverse(b')[i] = (<<x>> \o r)[i]
    <3> SUFFICES ASSUME NEW i \in 1 .. n + 1 PROVE Reverse(b')[i] = (<<x>> \o r)[i]
      OBVIOUS
    <3>1. CASE i = 1
      <4>1. n + 1 - i + 1 = n + 1
        BY <1>3, <3>1
      <4> QED  BY <2>2, <2>3, <2>4, <3>1, <4>1
    <3>2. CASE i # 1
      <4>1. i - 1 \in 1 .. n /\ (i - 1) + 1 = i /\ n + 1 - i + 1 = n - (i - 1) + 1
        BY <1>3, <3>2
      <4>2. (<<x>> \o r)[i] = r[i - 1]
        BY <2>4, <4>1
      <4>3. r[i - 1] = b[n - (i - 1) + 1] /\ n - (i - 1) + 1 \in 1 .. n
        BY <1>3, <1>4, <4>1
      <4> QED  BY <2>2, <2>3, <4>1, <4>2, <4>3
    <3> QED  BY <3>1, <3>2
  <2>6. n + 1 = 1 + n
    BY <1>3
  <2>7. Reverse(b') = <<x>> \o r
    BY <2>3, <2>4, <2>5, <2>6, SameSequence
  <2> QED  BY <1>2, <1>3, <1>5, <1>7, <2>7 DEF x
<1> QED  BY <1>6, <1>7

-----------------------------------------------------------------------------
(* The rows: created_at puts a new one first and leaves the others as they *)
(* were.                                                                   *)
LEMMA RowEntriesIs ==
  ASSUME FeedInv, NEW n \in Nat, NEW order \in [1 .. n -> Stored]
  PROVE  /\ RowEntries(order) \in Seq(Entry) /\ Len(RowEntries(order)) = n
         /\ DOMAIN RowEntries(order) = 1 .. n
         /\ \A i \in 1 .. n : RowEntries(order)[i] = Entered(order[i], rows[order[i]].record)
<1> DEFINE e == RowEntries(order)
<1>1. e = [i \in 1 .. n |-> Entered(order[i], rows[order[i]].record)]
  BY DEF RowEntries, Entered
<1>2. \A i \in 1 .. n : order[i] \in Payments /\ rows[order[i]].record \in Decisions
  <2> SUFFICES ASSUME NEW i \in 1 .. n
               PROVE  order[i] \in Payments /\ rows[order[i]].record \in Decisions
    OBVIOUS
  <2>1. order[i] \in Stored /\ order[i] \in Payments
    BY DEF Stored
  <2> QED  BY <2>1, StoredRow
<1>3. e \in [1 .. n -> Entry]
  BY <1>1, <1>2 DEF Entered, Entry
<1> HIDE DEF e
<1>4. e \in Seq(Entry) /\ Len(e) = n
  BY <1>3
<1> QED  BY <1>1, <1>3, <1>4 DEF e

LEMMA RowSaveIsAStep ==
  ASSUME FeedInv, NEW p \in Payments, NEW d \in Decisions, RowSave(p, d),
         store = "postgres", saves' = saves + 1, UNCHANGED store
  PROVE  /\ All \in Seq(Entry)
         /\ \/ ~ Held(p) /\ All' = <<Entered(p, d)>> \o All
            \/ Held(p) /\ All' = Updated(All, p, d)
<1> DEFINE n     == Cardinality(Stored)
           order == InOrder(Stored, Later)
           a     == RowEntries(order)
<1>1. /\ Stored' = Stored \cup {p} /\ rows'[p].record = d
      /\ \A q \in Payments : q # p => rows'[q] = rows[q]
      /\ p \in Stored => \A q \in Stored : rows'[q].createdAt = rows[q].createdAt
      /\ p \notin Stored => rows'[p].createdAt = saves + 1
  BY RowSaveKeepsFeed
<1>2. FeedInv'
  BY RowSaveKeepsFeed
<1>3. IsFiniteSet(Stored) /\ StrictOrder(Stored, Later)
  BY RowsOrdered
<1>4. /\ n \in Nat /\ order \in [1 .. n -> Stored]
      /\ \A q \in Stored : \E k \in 1 .. n : order[k] = q
      /\ \A j, k \in 1 .. n : j < k => <<order[j], order[k]>> \in Later
  BY <1>3, InOrderSorts
<1>5. All = a
  BY DEF All
<1>6. All' = RowEntries(InOrder(Stored, Later))'
  BY DEF All
<1> HIDE DEF n, order
<1>7. /\ a \in Seq(Entry) /\ Len(a) = n /\ DOMAIN a = 1 .. n
      /\ \A i \in 1 .. n : a[i] = Entered(order[i], rows[order[i]].record)
  BY <1>4, RowEntriesIs
<1>8. \A i \in 1 .. n : a[i].paymentId = order[i] /\ order[i] \in Stored
                        /\ order[i] \in Payments
  BY <1>4, <1>7 DEF Entered, Stored
<1>9. Held(p) <=> p \in Stored
  BY DEF Held
<1> HIDE DEF a
<1>10. CASE p \in Stored
  <2>1. Stored' = Stored
    BY <1>1, <1>10
  <2>2. Later' = Later
    BY <1>1, <1>10, <2>1 DEF Later
  <2>3. RowEntries(InOrder(Stored, Later))' =
          [i \in 1 .. n |-> [paymentId |-> order[i], record |-> rows'[order[i]].record]]
    <3>1. InOrder(Stored, Later)' = order
      BY <2>1, <2>2 DEF order
    <3>2. DOMAIN order = 1 .. n
      BY <1>4
    <3> QED  BY <3>1, <3>2 DEF RowEntries
  <2>4. \A i \in 1 .. n :
          [paymentId |-> order[i], record |-> rows'[order[i]].record] =
            IF a[i].paymentId = p THEN [a[i] EXCEPT !.record = d] ELSE a[i]
    <3> SUFFICES ASSUME NEW i \in 1 .. n
                 PROVE  [paymentId |-> order[i], record |-> rows'[order[i]].record] =
                          IF a[i].paymentId = p THEN [a[i] EXCEPT !.record = d] ELSE a[i]
      OBVIOUS
    <3>1. a[i] = [paymentId |-> order[i], record |-> rows[order[i]].record]
      BY <1>7 DEF Entered
    <3>2. CASE order[i] = p
      BY <1>1, <3>1, <3>2
    <3>3. CASE order[i] # p
      BY <1>1, <1>8, <3>1, <3>3
    <3> QED  BY <3>2, <3>3
  <2>5. All' = Updated(a, p, d)
    BY <1>6, <1>7, <2>3, <2>4 DEF Updated
  <2> QED  BY <1>5, <1>7, <1>9, <1>10, <2>5
<1>11. CASE p \notin Stored
  <2> DEFINE longer == [k \in 1 .. n + 1 |-> IF k = 1 THEN p ELSE order[k - 1]]
             x      == Entered(p, d)
  <2>1. Stored' = Stored \cup {p} /\ rows'[p].createdAt = saves + 1 /\ saves \in Nat
        /\ \A q \in Stored : rows'[q] = rows[q] /\ rows[q].createdAt <= saves
                             /\ rows[q].createdAt \in Nat
    <3>1. ASSUME NEW q \in Stored
          PROVE  rows'[q] = rows[q] /\ rows[q].createdAt <= saves /\ rows[q].createdAt \in Nat
      <4>1. q \in Payments /\ q # p
        BY <1>11 DEF Stored
      <4>2. rows[q].createdAt <= saves
        BY DEF FeedInv
      <4> QED  BY <1>1, <4>1, <4>2, StoredRow
    <3> QED  BY <1>1, <1>11, <3>1 DEF FeedInv
  <2>2. /\ \A q \in Stored : <<p, q>> \in Later'
        /\ \A q, r \in Stored : <<q, r>> \in Later => <<q, r>> \in Later'
    <3>1. \A q \in Stored : rows'[p].createdAt > rows'[q].createdAt
      BY <2>1
    <3> QED  BY <2>1, <3>1 DEF Later
  <2>3. longer \in [1 .. n + 1 -> Stored']
    <3>1. \A k \in 1 .. n + 1 : k # 1 => k - 1 \in 1 .. n
      BY <1>4
    <3> QED  BY <1>4, <2>1, <3>1
  <2>4. /\ longer[1] = p
        /\ \A k \in 1 .. n + 1 : k # 1 => k - 1 \in 1 .. n /\ longer[k] = order[k - 1]
    BY <1>4
  <2> HIDE DEF longer
  <2>5. \A q \in Stored' : \E k \in 1 .. n + 1 : longer[k] = q
    <3> SUFFICES ASSUME NEW q \in Stored' PROVE \E k \in 1 .. n + 1 : longer[k] = q
      OBVIOUS
    <3>1. CASE q = p
      BY <1>4, <2>4, <3>1
    <3>2. CASE q # p
      <4>1. PICK k \in 1 .. n : order[k] = q
        BY <1>4, <2>1, <3>2
      <4>2. k + 1 \in 1 .. n + 1 /\ k + 1 # 1 /\ (k + 1) - 1 = k
        BY <1>4
      <4>3. longer[k + 1] = q
        BY <2>4, <4>1, <4>2
      <4> QED  BY <4>2, <4>3
    <3> QED  BY <3>1, <3>2
  <2>6. \A j, k \in 1 .. n + 1 : j < k => <<longer[j], longer[k]>> \in Later'
    <3> SUFFICES ASSUME NEW j \in 1 .. n + 1, NEW k \in 1 .. n + 1, j < k
                 PROVE  <<longer[j], longer[k]>> \in Later'
      OBVIOUS
    <3>1. k # 1 /\ k - 1 \in 1 .. n /\ longer[k] = order[k - 1] /\ order[k - 1] \in Stored
      BY <1>4, <2>4
    <3>2. CASE j = 1
      BY <2>2, <2>4, <3>1, <3>2
    <3>3. CASE j # 1
      <4>1. j - 1 \in 1 .. n /\ longer[j] = order[j - 1] /\ order[j - 1] \in Stored
            /\ j - 1 < k - 1
        BY <1>4, <2>4, <3>3
      <4>2. <<order[j - 1], order[k - 1]>> \in Later
        BY <1>4, <3>1, <4>1
      <4> QED  BY <2>2, <3>1, <4>1, <4>2
    <3> QED  BY <3>2, <3>3
  <2>7. StrictOrder(Stored', Later')
    <3>1. (FeedInv => IsFiniteSet(Stored) /\ StrictOrder(Stored, Later))'
      BY RowsOrdered, PTL
    <3>2. StrictOrder(Stored, Later)'
      BY <1>2, <3>1
    <3> QED  BY <3>2 DEF StrictOrder
  <2>8. InOrder(Stored, Later)' = longer
    <3>1. n + 1 \in Nat
      BY <1>4
    <3>2. InOrder(Stored', Later') = longer
      BY <2>3, <2>5, <2>6, <2>7, <3>1, InOrderOnly
    <3> QED  BY <3>2
  <2>9. RowEntries(InOrder(Stored, Later))' =
          [k \in 1 .. n + 1 |-> [paymentId |-> longer[k], record |-> rows'[longer[k]].record]]
    <3>1. DOMAIN longer = 1 .. n + 1
      BY <2>3
    <3> QED  BY <2>8, <3>1 DEF RowEntries
  <2>10. x \in Entry
    BY DEF Entered, Entry
  <2>11. /\ <<x>> \o a \in Seq(Entry) /\ Len(<<x>> \o a) = 1 + n
         /\ (<<x>> \o a)[1] = x
         /\ \A i \in 1 .. n : (<<x>> \o a)[i + 1] = a[i]
    BY <1>7, <2>10, PrependedIs
  <2> DEFINE xa == <<x>> \o a
  <2>12. xa \in [1 .. n + 1 -> Entry]
    <3> HIDE DEF xa
    <3>1. xa \in Seq(Entry) /\ Len(xa) = 1 + n
      BY <2>11 DEF xa
    <3>2. xa \in [1 .. Len(xa) -> Entry]
      BY <3>1, LenProperties
    <3>3. 1 + n = n + 1
      BY <1>4
    <3> QED  BY <3>1, <3>2, <3>3
  <2>13. \A k \in 1 .. n + 1 :
           xa[k] = [paymentId |-> longer[k], record |-> rows'[longer[k]].record]
    <3> SUFFICES ASSUME NEW k \in 1 .. n + 1
                 PROVE  xa[k] = [paymentId |-> longer[k], record |-> rows'[longer[k]].record]
      OBVIOUS
    <3>1. CASE k = 1
      BY <1>1, <2>4, <2>11, <3>1 DEF Entered
    <3>2. CASE k # 1
      <4>1. k - 1 \in 1 .. n /\ longer[k] = order[k - 1] /\ (k - 1) + 1 = k
        BY <1>4, <2>4, <3>2
      <4>2. xa[k] = a[k - 1]
        BY <2>11, <4>1
      <4>3. a[k - 1] = Entered(order[k - 1], rows[order[k - 1]].record)
        BY <1>7, <4>1
      <4>4. rows'[order[k - 1]] = rows[order[k - 1]]
        BY <1>8, <2>1, <4>1
      <4> QED  BY <4>1, <4>2, <4>3, <4>4 DEF Entered
    <3> QED  BY <3>1, <3>2
  <2>14. All' = xa
    <3> HIDE DEF xa
    <3> QED  BY <1>6, <2>9, <2>12, <2>13
  <2> QED  BY <1>5, <1>7, <1>9, <1>11, <2>14 DEF xa
<1> QED  BY <1>10, <1>11

(***************************************************************************)
(* In either store every decision saved shows at once: the list holds the  *)
(* last Limit payments by the time of their first decision, a new payment  *)
(* heads it, and a payment decided again has its record changed where it   *)
(* is listed (memory.ts:138-144, postgres.ts:174-185).                     *)
(***************************************************************************)
THEOREM StoresImplementFeed == Spec => ImplementsFeed
<1>1. Init => Feed!Init
  <2> SUFFICES ASSUME Init PROVE List = <<>>
    BY DEF Feed!Init, Init, InitDecisions
  <2>1. FeedInv /\ byPaymentId = <<>> /\ Stored = {}
    BY FeedInvInit DEF Init, InitDecisions, Stored
  <2>2. All \in Seq(Entry) /\ Len(All) = 0
    <3>1. CASE store = "memory"
      BY <2>1, <3>1, ReverseIs DEF All, FeedInv
    <3>2. CASE store # "memory"
      <4>1. Cardinality(Stored) = 0
        BY <2>1, FS_EmptySet
      <4>2. InOrder(Stored, Later) \in [1 .. 0 -> Stored]
        BY <4>1 DEF InOrder
      <4> QED  BY <2>1, <3>2, <4>2, RowEntriesIs DEF All
    <3> QED  BY <3>1, <3>2
  <2>3. Newest(All) \in Seq(Entry) /\ Len(Newest(All)) = 0
    <3>1. Shown(0) = 0
      BY LimitAssumption DEF Shown
    <3>2. Newest(All) \in Seq(Entry) /\ Len(Newest(All)) = Shown(Len(All))
      BY <2>2, NewestIs
    <3> QED  BY <2>2, <3>1, <3>2
  <2> QED  BY <2>3, ListIsNewest
<1>2. FeedInv /\ DecidedInv /\ [Next]_vars => [Feed!Next]_<<decided, List>>
  <2> SUFFICES ASSUME FeedInv, DecidedInv, [Next]_vars PROVE [Feed!Next]_<<decided, List>>
    OBVIOUS
  <2>1. ASSUME NEW p \in Payments, NEW d \in Decisions, SaveDecision(p, d)
        PROVE  Feed!Next
    <3>1. /\ All \in Seq(Entry)
          /\ \/ ~ Held(p) /\ All' = <<Entered(p, d)>> \o All
             \/ Held(p) /\ All' = Updated(All, p, d)
      BY <2>1, MapSaveIsAStep, RowSaveIsAStep DEF SaveDecision
    <3>2. Holds(decided, p) <=> Held(p)
      BY DEF DecidedInv
    <3>3. decided' = Append(decided, Entered(p, d))
      BY <2>1 DEF SaveDecision, Entered
    <3> QED  BY <3>1, <3>2, <3>3, ListSteps
  <2>2. CASE UNCHANGED decisionVars
    <3>1. UNCHANGED <<decided, List>>
      BY <2>2 DEF List, MapList, RowList, decisionVars
    <3> QED  BY <3>1
  <2> QED  BY <2>1, <2>2, DecisionSteps
<1> QED  BY <1>1, <1>2, FeedInvariant, PTL DEF Spec, ImplementsFeed, Feed!Spec

-----------------------------------------------------------------------------
(***************************************************************************)
(* What the page and the routes hold.  A call is idle when it is none, and *)
(* the page's is the bootstrap its button waits for; a panel that loads    *)
(* waits for a tick or for a request.                                      *)
(***************************************************************************)
ButtonInv ==
  /\ \A c \in Callers : calls[c].op = "none" <=> calls[c].pc = "idle"
  /\ demo = "running" <=> calls["page"].pc # "idle"

Phases == {"none", "sent", "read"}

HookInv ==
  /\ panel \in {"decisions", "replay", "audit"}
  /\ due \in BOOLEAN /\ error \in ErrorKinds \cup {"none"}
  /\ request.phase \in Phases /\ aborted.phase \in Phases
  /\ request # None => loading
  /\ loading => due \/ request # None

LEMMA HookKept ==
  ASSUME HookInv, [Next]_vars
  PROVE  HookInv'
<1>1. UNCHANGED panel
  BY DEF Next, ServerStep, OtherCall, CallStep, RunIsSaved, OtherAnswered, WebhookDecides,
         WebhookAttests, PanelStep, Poll, EffectRuns, PanelRead, PanelAnswered, PanelFails,
         PanelDrops, PageStep, RunDemo, BootstrapDone, BootstrapFails, Simulate,
         DrillAppends, SimulateDone, SimulateFails, vars
<1>2. CASE UNCHANGED hookVars
  BY <1>1, <1>2 DEF HookInv, hookVars
<1>3. CASE Tick
  BY <1>1, <1>3 DEF HookInv, Tick
<1>4. CASE EffectRuns
  BY <1>1, <1>4 DEF HookInv, EffectRuns, Effect, Sent, Phases, None
<1>5. CASE PanelRead
  BY <1>1, <1>5 DEF HookInv, PanelRead, RouteReads, ReadAnswer, Phases, None
<1>6. CASE PanelAnswered
  BY <1>1, <1>6 DEF HookInv, PanelAnswered, AnswerArrives, Phases, None
<1>7. CASE PanelFails
  BY <1>1, <1>7 DEF HookInv, PanelFails, RequestFails, Phases, None
<1>8. CASE PanelDrops
  BY <1>1, <1>8 DEF HookInv, PanelDrops, AbortedSettles, Phases, None
<1>9. Poll \/ BootstrapDone \/ SimulateDone => Tick
  BY DEF Poll, BootstrapDone, SimulateDone
<1>10. ServerStep \/ UNCHANGED vars => UNCHANGED hookVars
  BY DEF ServerStep, OtherCall, CallStep, RunIsSaved, OtherAnswered, WebhookDecides,
         WebhookAttests, vars
<1>11. RunDemo \/ BootstrapFails \/ Simulate \/ DrillAppends \/ SimulateFails
         => UNCHANGED hookVars
  BY DEF RunDemo, BootstrapFails, Simulate, DrillAppends, SimulateFails
<1> QED  BY <1>2, <1>3, <1>4, <1>5, <1>6, <1>7, <1>8, <1>9, <1>10, <1>11
            DEF Next, PanelStep, PageStep

(* A step of a call under way: it stays the operation it is.               *)
LEMMA CallMoves ==
  ASSUME RoutesInv, NEW c \in Callers, CallStep(c) \/ RunIsSaved(c)
  PROVE  /\ calls'[c].op = calls[c].op
         /\ calls[c].pc # "idle" /\ calls'[c].pc # "idle"
         /\ calls' = [calls EXCEPT ![c] = calls'[c]]
         /\ UNCHANGED demo
<1>1. calls \in [Callers -> CallRecord] /\ calls[c] \in CallRecord
  BY DEF RoutesInv, CallsOK
<1>2. UNCHANGED demo
  BY DEF CallStep, RunIsSaved, pageVars, demoVars
<1>3. CASE StreamSaved(c)
  BY <1>1, <1>2, <1>3 DEF StreamSaved, CallRecord
<1>4. CASE StreamRead(c)
  BY <1>1, <1>2, <1>4 DEF StreamRead, CallRecord
<1>5. CASE Replay(c)
  BY <1>1, <1>2, <1>5 DEF Replay, CallRecord
<1>6. CASE StoreFails(c)
  BY <1>1, <1>2, <1>6 DEF StoreFails, CallRecord
<1>7. CASE RunSaved(c)
  BY <1>1, <1>2, <1>7 DEF RunSaved, CallRecord
<1> QED  BY <1>3, <1>4, <1>5, <1>6, <1>7 DEF CallStep, RunIsSaved

LEMMA ButtonKept ==
  ASSUME RoutesInv, ButtonInv, [Next]_vars
  PROVE  ButtonInv'
<1>0. calls \in [Callers -> CallRecord] /\ "page" \in Callers
  BY PageAssumption DEF RoutesInv, CallsOK
<1>1. ASSUME NEW c \in Callers, CallStep(c) \/ RunIsSaved(c) PROVE ButtonInv'
  BY <1>0, <1>1, CallMoves DEF ButtonInv
<1>2. ASSUME NEW c \in Callers, NEW op \in {"seed", "run", "bootstrap"},
             NEW pc \in {"saveStream", "getStream"}, NEW id, NEW events,
             Call(c, op, pc, id, events),
             c = "page" => demo' = "running", c # "page" => UNCHANGED demo
      PROVE  ButtonInv'
  <2>1. /\ calls' = [calls EXCEPT ![c] = calls'[c]]
        /\ calls'[c].op = op /\ calls'[c].pc = pc
    BY <1>0, <1>2 DEF Call, NoCall
  <2> QED  BY <1>0, <1>2, <2>1 DEF ButtonInv
<1>3. ASSUME NEW c \in Callers, OtherCall(c) PROVE ButtonInv'
  <2>1. c # "page" /\ UNCHANGED demo
    BY <1>3 DEF OtherCall, pageVars, demoVars
  <2>2. \E op \in {"seed", "run", "bootstrap"}, pc \in {"saveStream", "getStream"} :
          \E id, events : Call(c, op, pc, id, events)
    BY <1>3 DEF OtherCall, CallSeed, CallRun, CallBootstrap
  <2> QED  BY <1>2, <2>1, <2>2
<1>4. CASE RunDemo
  <2>1. demo' = "running" /\ Call("page", "bootstrap", "saveStream", DemoStream, DemoEvents)
    BY <1>4 DEF RunDemo, CallBootstrap
  <2> QED  BY <1>0, <1>2, <2>1
<1>5. ASSUME NEW c \in Callers, Answered(c),
             c = "page" => demo' # "running", c # "page" => UNCHANGED demo
      PROVE  ButtonInv'
  <2>1. calls' = [calls EXCEPT ![c] = NoCall] /\ NoCall.op = "none" /\ NoCall.pc = "idle"
    BY <1>5 DEF Answered, NoCall
  <2> QED  BY <1>0, <1>5, <2>1 DEF ButtonInv
<1>6. ASSUME NEW c \in Callers, OtherAnswered(c) PROVE ButtonInv'
  BY <1>5, <1>6 DEF OtherAnswered, pageVars, demoVars
<1>7. CASE BootstrapDone \/ BootstrapFails
  BY <1>0, <1>5, <1>7 DEF BootstrapDone, BootstrapFails
<1>8. CASE UNCHANGED <<calls, demo>>
  BY <1>8 DEF ButtonInv
<1>9. WebhookDecides \/ WebhookAttests \/ PanelStep \/ UNCHANGED vars
        => UNCHANGED <<calls, demo>>
  BY DEF WebhookDecides, WebhookAttests, PanelStep, Poll, EffectRuns, PanelRead,
         PanelAnswered, PanelFails, PanelDrops, serverVars, routeVars, pageVars, demoVars, vars
<1>10. Simulate \/ DrillAppends \/ SimulateDone \/ SimulateFails => UNCHANGED <<calls, demo>>
  BY DEF Simulate, DrillAppends, SimulateDone, SimulateFails, serverVars, routeVars, demoVars
<1> QED  BY <1>1, <1>3, <1>4, <1>6, <1>7, <1>8, <1>9, <1>10 DEF Next, ServerStep, PageStep

(***************************************************************************)
(* What the page and the routes hold, always: while a request is under way *)
(* the panel is loading, it loads only while it waits for something, and   *)
(* the demo button is disabled exactly while its bootstrap is unanswered   *)
(* (useApiResource.ts:22-55, page.tsx:29-44).                              *)
(***************************************************************************)
THEOREM DashboardTyped == Spec => []TypeOK
<1>1. Init => HookInv /\ ButtonInv
  <2> SUFFICES ASSUME Init PROVE HookInv /\ ButtonInv
    OBVIOUS
  <2>1. HookInv
    BY DEF Init, InitHook, HookInv, None, Phases
  <2>2. ButtonInv
    BY PageAssumption DEF Init, InitRoutes, NoCall, ButtonInv
  <2> QED  BY <2>1, <2>2
<1>2. HookInv /\ [Next]_vars => HookInv'
  BY HookKept
<1>3. RoutesInv /\ ButtonInv /\ [Next]_vars => ButtonInv'
  BY ButtonKept
<1>4. HookInv /\ ButtonInv /\ FeedInv => TypeOK
  <2> SUFFICES ASSUME HookInv, ButtonInv, FeedInv PROVE TypeOK
    OBVIOUS
  <2>1. \A p \in Payments : (rows[p] = NoRow) = (rows[p].createdAt = 0)
    BY StoredRow DEF Stored
  <2> QED  BY <2>1 DEF HookInv, ButtonInv, TypeOK, Phases
<1> QED  BY <1>1, <1>2, <1>3, <1>4, RoutesInvariant, FeedInvariant, PTL DEF Spec
=============================================================================
