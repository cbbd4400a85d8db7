---------------------------- MODULE ReplayStore -----------------------------
(***************************************************************************)
(* Where replay streams and replay runs are kept: InMemoryReplayStore      *)
(* (lib/stores/memory.ts) or PostgresReplayStore (lib/stores/postgres.ts). *)
(*                                                                         *)
(* A run is known by a digest of its stream's id and of the ids of the     *)
(* failures replayed: replaying the same failures, whatever else about     *)
(* them has changed, gives the same run id.  The two stores differ in what *)
(* becomes of a run saved twice, and in which run they call the latest.    *)
(***************************************************************************)
EXTENDS Integers, Sequences, SequencesExt

CONSTANTS
  StreamIds,
  EventLists  (* What a stream may hold: records [ids, rest].              *)

VARIABLES
  backend,  (* "memory" or "postgres", settled when the runtime is built.  *)
  streams,  (* By stream id, the events or NoStream.                       *)
  runs      (* In the order their ids were first saved.                    *)

storeVars == <<backend, streams, runs>>

ASSUME EventListAssumption == \A e \in EventLists : DOMAIN e = {"ids", "rest"}

NoStream == [ids |-> "none", rest |-> "none"]

NoRun == [runId |-> <<"none", "none">>, createdAt |-> 0, of |-> NoStream]

InitStore ==
  /\ backend \in {"memory", "postgres"}
  /\ streams = [id \in StreamIds |-> NoStream]
  /\ runs = <<>>

RunOf(streamId, events, now) ==
  [runId |-> <<streamId, events.ids>>, createdAt |-> now, of |-> events]

(* Both stores replace the events of a stream.                             *)
SaveStream(id, events) == streams' = [streams EXCEPT ![id] = events]

Known(runId) == \E i \in DOMAIN runs : runs[i].runId = runId

(***************************************************************************)
(* A Map keeps the place of a key and takes the new value; Postgres does   *)
(* nothing ON CONFLICT, so the first record of a run id stays.             *)
(***************************************************************************)
SaveRun(run) ==
  \/ ~ Known(run.runId) /\ runs' = Append(runs, run)
  \/ Known(run.runId) /\ backend = "postgres" /\ UNCHANGED runs
  \/ /\ Known(run.runId) /\ backend = "memory"
     /\ runs' = [i \in DOMAIN runs |-> IF runs[i].runId = run.runId THEN run ELSE runs[i]]

(***************************************************************************)
(* In memory the latest run is the one whose replay began last, the first  *)
(* of several; in Postgres the one whose id was saved last, for created_at *)
(* is the time of the insert.                                              *)
(***************************************************************************)
LatestRun ==
  IF runs = <<>> THEN NoRun
  ELSE IF backend = "postgres" THEN Last(runs)
  ELSE runs[CHOOSE i \in DOMAIN runs :
              \A j \in DOMAIN runs :
                \/ runs[j].createdAt < runs[i].createdAt
                \/ runs[j].createdAt = runs[i].createdAt /\ i <= j]
=============================================================================
