----------------------------- MODULE Dashboard ------------------------------
(***************************************************************************)
(* The dashboard page (app/page.tsx, components/ComplianceLedger.tsx) over *)
(* the stores it shows.  The panels share no state, so one of them is      *)
(* watched, whichever; and as the server's stores share none either, only  *)
(* the one behind the watched panel changes.                               *)
(***************************************************************************)
EXTENDS ReplayRoutes, ApiResource, DecisionStores

CONSTANT MaxEntries  (* Bound: the entries of the audit ledger.            *)

ASSUME PageAssumption == "page" \in Callers /\ MaxEntries \in Nat

VARIABLES
  panel,         (* Which panel is watched.                                *)
  entries,       (* How many entries the audit ledger has.                 *)
  writes,        (* History: how often the store behind it was written.    *)
  demo,          (* runDemo: "idle", "running" or "failed", error shown.   *)
  demoLoaded,    (* History: a bootstrap was answered well.                *)
  drill,         (* handleSimulate: its phase, and the entry it got.       *)
  violation      (* The seq of the entry the violation block shows, or 0.  *)

demoVars == <<demo, demoLoaded>>
auditVars == <<drill, violation>>
pageVars == <<demoVars, auditVars>>
serverVars == <<storeVars, routeVars, decisionVars, entries, writes>>
vars == <<panel, serverVars, pageVars, hookVars>>

Idle == [phase |-> "idle", value |-> 0]

Null == [asOf |-> -1, shows |-> NoRun]

Init ==
  /\ panel \in {"decisions", "replay", "audit"}
  /\ InitRoutes /\ InitDecisions /\ store = backend
  /\ entries = 0 /\ writes = 0
  /\ InitHook(Null)
  /\ demo = "idle" /\ demoLoaded = FALSE
  /\ drill = Idle /\ violation = 0

(* What the panel's route answers, and when.                               *)
Contents ==
  CASE panel = "decisions" -> List
    [] panel = "replay"    -> LatestRun
    [] panel = "audit"     -> entries

Answer == [asOf |-> writes, shows |-> Contents]

-----------------------------------------------------------------------------
(* The server: other clients' calls, and what the webhook writes.          *)
OtherCall(c) ==
  /\ c # "page" /\ panel = "replay"
  /\ CallSeed(c) \/ CallRun(c) \/ CallBootstrap(c)
  /\ UNCHANGED <<panel, decisionVars, entries, writes, pageVars, hookVars>>

CallStep(c) ==
  /\ StreamSaved(c) \/ StreamRead(c) \/ Replay(c) \/ StoreFails(c)
  /\ UNCHANGED <<panel, decisionVars, entries, writes, pageVars, hookVars>>

RunIsSaved(c) ==
  /\ RunSaved(c)
  /\ writes' = IF panel = "replay" THEN writes + 1 ELSE writes
  /\ UNCHANGED <<panel, decisionVars, entries, pageVars, hookVars>>

OtherAnswered(c) ==
  /\ c # "page"
  /\ Answered(c) /\ UNCHANGED faults
  /\ UNCHANGED <<panel, decisionVars, entries, writes, pageVars, hookVars>>

WebhookDecides ==
  /\ panel = "decisions"
  /\ \E p \in Payments, d \in Decisions : SaveDecision(p, d)
  /\ writes' = writes + 1
  /\ UNCHANGED <<panel, storeVars, routeVars, entries, pageVars, hookVars>>

Append1 == entries < MaxEntries /\ entries' = entries + 1 /\ writes' = writes + 1

WebhookAttests ==
  /\ panel = "audit" /\ Append1
  /\ UNCHANGED <<panel, storeVars, routeVars, decisionVars, pageVars, hookVars>>

-----------------------------------------------------------------------------
(* The watched panel.                                                      *)
Poll ==
  /\ ~ due /\ Tick
  /\ UNCHANGED <<panel, serverVars, pageVars>>

EffectRuns == Effect /\ UNCHANGED <<panel, serverVars, pageVars>>

PanelRead == RouteReads(Answer) /\ UNCHANGED <<panel, serverVars, pageVars>>

PanelAnswered == AnswerArrives /\ UNCHANGED <<panel, serverVars, pageVars>>

PanelFails ==
  /\ RequestFails /\ Fault
  /\ UNCHANGED <<panel, storeVars, calls, clock, made, answered, decisionVars, entries,
                 writes, pageVars>>

PanelDrops == AbortedSettles /\ UNCHANGED <<panel, serverVars, pageVars>>

-----------------------------------------------------------------------------
(***************************************************************************)
(* runDemo: the button is disabled while a bootstrap runs.  It refreshes   *)
(* the decisions, too, which is to them as any poll.                       *)
(***************************************************************************)
RunDemo ==
  /\ panel = "replay"
  /\ demo # "running" /\ demo' = "running"
  /\ CallBootstrap("page")
  /\ UNCHANGED <<panel, decisionVars, entries, writes, demoLoaded, auditVars, hookVars>>

BootstrapDone ==
  /\ calls["page"].pc = "ok"
  /\ Answered("page") /\ UNCHANGED faults
  /\ Tick
  /\ demo' = "idle" /\ demoLoaded' = TRUE
  /\ UNCHANGED <<panel, decisionVars, entries, writes, auditVars>>

(* Refused, or the answer is lost.                                         *)
BootstrapFails ==
  /\ Answered("page")
  /\ \/ calls["page"].pc = "ok" /\ Fault
     \/ calls["page"].pc = "refused" /\ UNCHANGED faults
  /\ demo' = "failed"
  /\ UNCHANGED <<panel, decisionVars, entries, writes, demoLoaded, auditVars, hookVars>>

-----------------------------------------------------------------------------
(***************************************************************************)
(* handleSimulate: its button is disabled while the request runs.  A       *)
(* failure leaves the last violation on show, with the error.              *)
(***************************************************************************)
Free == drill.phase \in {"idle", "failed"}

Simulate ==
  /\ panel = "audit" /\ Free
  /\ drill' = [phase |-> "sent", value |-> 0]
  /\ UNCHANGED <<panel, serverVars, demoVars, violation, hookVars>>

DrillAppends ==
  /\ drill.phase = "sent" /\ Append1
  /\ drill' = [phase |-> "appended", value |-> entries']
  /\ UNCHANGED <<panel, storeVars, routeVars, decisionVars, demoVars, violation, hookVars>>

(* Mutant of SimulateDone: the ledger waits for the next poll.             *)
SimulateDoneUnrefreshed ==
  /\ drill.phase = "appended"
  /\ violation' = drill.value /\ drill' = Idle
  /\ UNCHANGED <<panel, serverVars, demoVars, hookVars>>

SimulateDone ==
  /\ drill.phase = "appended"
  /\ violation' = drill.value /\ drill' = Idle
  /\ Tick
  /\ UNCHANGED <<panel, serverVars, demoVars>>

SimulateFails ==
  /\ ~ Free /\ Fault
  /\ drill' = [phase |-> "failed", value |-> 0]
  /\ UNCHANGED <<panel, storeVars, calls, clock, made, answered, decisionVars, entries,
                 writes, demoVars, violation, hookVars>>

-----------------------------------------------------------------------------
ServerStep ==
  \/ \E c \in Callers : OtherCall(c) \/ CallStep(c) \/ RunIsSaved(c) \/ OtherAnswered(c)
  \/ WebhookDecides \/ WebhookAttests

PanelStep ==
  Poll \/ EffectRuns \/ PanelRead \/ PanelAnswered \/ PanelFails \/ PanelDrops

PageStep ==
  \/ RunDemo \/ BootstrapDone \/ BootstrapFails
  \/ Simulate \/ DrillAppends \/ SimulateDone \/ SimulateFails

Next == ServerStep \/ PanelStep \/ PageStep

(***************************************************************************)
(* The browser runs intervals and effects.  Of the network it is assumed   *)
(* that requests renewed again and again are now and then read, and        *)
(* settled, before the next poll is due.                                   *)
(***************************************************************************)
Fairness ==
  /\ WF_vars(Poll) /\ WF_vars(EffectRuns)
  /\ SF_vars(~ due /\ PanelRead) /\ SF_vars(~ due /\ (PanelAnswered \/ PanelFails))

Spec == Init /\ [][Next]_vars

FairSpec == Spec /\ Fairness

-----------------------------------------------------------------------------
(***************************************************************************)
(* What the page and the routes hold.  While a request is under way the    *)
(* panel is loading, and a bootstrap occupies the button until answered.   *)
(***************************************************************************)
TypeOK ==
  /\ panel \in {"decisions", "replay", "audit"}
  /\ due \in BOOLEAN /\ error \in ErrorKinds \cup {"none"}
  /\ {request.phase, aborted.phase} \subseteq {"none", "sent", "read"}
  /\ request # None => loading
  /\ loading => due \/ request # None
  /\ \A c \in Callers : calls[c].op = "none" <=> calls[c].pc = "idle"
  /\ demo = "running" <=> calls["page"].pc # "idle"
  /\ \A p \in Payments : (rows[p] = NoRow) = (rows[p].createdAt = 0)

(***************************************************************************)
(* What a panel shows never goes back: an answer read earlier is not shown *)
(* after one read later, however requests overtake each other             *)
(* (useApiResource.ts:13-16, "Abort-safe across unmounts and refreshes").  *)
(***************************************************************************)
NeverShowsOlder == [][data'.asOf >= data.asOf]_vars

(***************************************************************************)
(* What the user just caused is on show once the panel has settled: the    *)
(* entry the violation block names is in the ledger below it, and after a  *)
(* bootstrap the replay panel has a run (ComplianceLedger.tsx:47-49,       *)
(* page.tsx:36-38).                                                        *)
(***************************************************************************)
ShowsOwnWrites ==
  Settled /\ error = "none" =>
    /\ panel = "audit" => data.shows >= violation
    /\ panel = "replay" /\ demoLoaded => data.shows # NoRun

(***************************************************************************)
(* A run answered with status 200 is stored under its id, in either store, *)
(* whatever calls overlap or fail (replay/run/route.ts:35-36,              *)
(* bootstrap/route.ts:22-38).  It need be neither the latest run nor, in   *)
(* Postgres, the record that was answered.                                 *)
(***************************************************************************)
AnsweredRunsStored == \A k \in DOMAIN answered : Known(answered[k].runId)

(***************************************************************************)
(* Every decision saved shows at once in the list of either store: at its  *)
(* head when the payment is new, in its place when the payment is listed,  *)
(* and nowhere when the payment has dropped out (memory.ts:138-147,        *)
(* postgres.ts:174-185).                                                   *)
(***************************************************************************)
Feed == INSTANCE DecisionFeed WITH feed <- List

ImplementsFeed == Feed!Spec

(***************************************************************************)
(* The decision saved last heads the feed: "Newest first." (memory.ts:57), *)
(* "created_at orders the feed newest-first" (0003_decisions.sql:3).       *)
(* Violated by a payment decided again, which keeps its first place.       *)
(***************************************************************************)
NewestFirst == decided # <<>> => Head(List) = Last(decided)

(***************************************************************************)
(* Every panel catches up: whatever was written last is shown, without an  *)
(* error, unless more is written (polling, page.tsx:25-27).                *)
(***************************************************************************)
UpToDate == Settled /\ error = "none" /\ data.asOf = writes

CatchesUp == []<>UpToDate \/ []<><<writes' # writes>>_writes
=============================================================================
