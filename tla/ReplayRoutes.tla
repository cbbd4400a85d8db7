---------------------------- MODULE ReplayRoutes ----------------------------
(***************************************************************************)
(* The routes that write replays: POST /api/replay/seed, /api/replay/run   *)
(* and /api/demo/bootstrap.  Each await is a step of its own, so calls     *)
(* interleave between saving or reading a stream, replaying it and saving  *)
(* the run.  What a replay computes is the subject of ReplayEngine.        *)
(***************************************************************************)
EXTENDS ReplayStore

CONSTANTS
  Callers, DemoStream, DemoEvents,
  MaxCalls,  (* Bound: the calls made in all.                              *)
  MaxFaults  (* Bound: the calls, answers and requests that fail.          *)

ASSUME RouteAssumption ==
  /\ DemoStream \in StreamIds /\ DemoEvents \in EventLists
  /\ {MaxCalls, MaxFaults} \subseteq Nat

VARIABLES
  calls,     (* By caller: the call it has under way.                      *)
  clock,     (* Of the server, the now of the replays.                     *)
  made,      (* Calls made so far.                                         *)
  faults,    (* Faults so far.                                             *)
  answered   (* History: the runs saved for an answer with status 200.     *)

routeVars == <<calls, clock, made, faults, answered>>

NoCall == [op |-> "none", pc |-> "idle", stream |-> DemoStream, events |-> NoStream,
           run |-> NoRun]

InitRoutes ==
  /\ InitStore
  /\ calls = [c \in Callers |-> NoCall]
  /\ clock = 1 /\ made = 0 /\ faults = 0 /\ answered = <<>>

Fault == faults < MaxFaults /\ faults' = faults + 1

Call(c, op, pc, stream, events) ==
  /\ calls[c].pc = "idle" /\ made < MaxCalls
  /\ calls' = [calls EXCEPT ![c] = [NoCall EXCEPT !.op = op, !.pc = pc,
                                                  !.stream = stream, !.events = events]]
  /\ made' = made + 1
  /\ UNCHANGED <<storeVars, clock, faults, answered>>

CallSeed(c) ==
  \E id \in StreamIds, events \in EventLists : Call(c, "seed", "saveStream", id, events)

CallRun(c) == \E id \in StreamIds : Call(c, "run", "getStream", id, NoStream)

CallBootstrap(c) == Call(c, "bootstrap", "saveStream", DemoStream, DemoEvents)

StreamSaved(c) ==
  /\ calls[c].pc = "saveStream"
  /\ SaveStream(calls[c].stream, calls[c].events)
  /\ calls' = [calls EXCEPT ![c].pc = IF calls[c].op = "seed" THEN "ok" ELSE "replay"]
  /\ UNCHANGED <<backend, runs, clock, made, faults, answered>>

(* An unknown stream is answered 404.                                      *)
StreamRead(c) ==
  /\ calls[c].pc = "getStream"
  /\ LET events == streams[calls[c].stream]
     IN  calls' = [calls EXCEPT ![c].events = events,
                                ![c].pc = IF events = NoStream THEN "refused" ELSE "replay"]
  /\ UNCHANGED <<storeVars, clock, made, faults, answered>>

(***************************************************************************)
(* The replay takes its now as it begins; the run is saved some time       *)
(* later.                                                                  *)
(***************************************************************************)
Replay(c) ==
  /\ calls[c].pc = "replay"
  /\ clock' \in {clock, clock + 1}
  /\ calls' = [calls EXCEPT ![c].pc = "saveRun",
                            ![c].run = RunOf(calls[c].stream, calls[c].events, clock')]
  /\ UNCHANGED <<storeVars, made, faults, answered>>

RunSaved(c) ==
  /\ calls[c].pc = "saveRun"
  /\ SaveRun(calls[c].run)
  /\ calls' = [calls EXCEPT ![c].pc = "ok"]
  /\ answered' = Append(answered, calls[c].run)
  /\ UNCHANGED <<backend, streams, clock, made, faults>>

(* Mutant of StoreFails: a run that could not be saved is answered.        *)
StoreFailsSilently(c) ==
  /\ calls[c].pc \in {"saveStream", "getStream", "saveRun"} /\ Fault
  /\ calls' = [calls EXCEPT ![c].pc = "ok"]
  /\ answered' = IF calls[c].pc = "saveRun" THEN Append(answered, calls[c].run) ELSE answered
  /\ UNCHANGED <<storeVars, clock, made>>

(* A store call that throws is answered 500.                               *)
StoreFails(c) ==
  /\ calls[c].pc \in {"saveStream", "getStream", "saveRun"} /\ Fault
  /\ calls' = [calls EXCEPT ![c].pc = "refused"]
  /\ UNCHANGED <<storeVars, clock, made, answered>>

Answered(c) ==
  /\ calls[c].pc \in {"ok", "refused"}
  /\ calls' = [calls EXCEPT ![c] = NoCall]
  /\ UNCHANGED <<storeVars, clock, made, answered>>
=============================================================================
