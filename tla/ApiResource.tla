---------------------------- MODULE ApiResource -----------------------------
(***************************************************************************)
(* useApiResource (hooks/useApiResource.ts) over one call of the API       *)
(* client (lib/api/client.ts): what a panel of the dashboard shows, and    *)
(* the request under way to renew it.                                      *)
(*                                                                         *)
(* A tick (the poll interval or a refresh) is answered by an effect, which *)
(* React runs a little later; it aborts the request under way and issues a *)
(* new one.  The last aborted request stays in flight until it settles.    *)
(***************************************************************************)
EXTENDS Integers

CONSTANT ErrorKinds  (* ApiError's kinds: network, http, parse.            *)

ASSUME ErrorAssumption == "none" \notin ErrorKinds

VARIABLES
  due,      (* A tick waits for its effect.                                *)
  request,  (* The request of the last effect, while it is under way.      *)
  aborted,  (* The last aborted request, while it is in flight.            *)
  data, error, loading

hookVars == <<due, request, aborted, data, error, loading>>

None == [phase |-> "none"]
Sent == [phase |-> "sent"]
ReadAnswer(answer) == [phase |-> "read", answer |-> answer]

InitHook(null) ==
  /\ due = TRUE /\ request = None /\ aborted = None
  /\ data = null /\ error = "none" /\ loading = TRUE

(* Two ticks before the effect are one.                                    *)
Tick == due' = TRUE /\ UNCHANGED <<request, aborted, data, error, loading>>

(* Mutant of Effect: the panel is not set to loading.                      *)
EffectUnannounced ==
  /\ due /\ due' = FALSE
  /\ request' = Sent
  /\ aborted' = IF request = None THEN aborted ELSE request
  /\ UNCHANGED <<data, error, loading>>

Effect ==
  /\ due /\ due' = FALSE
  /\ request' = Sent
  /\ aborted' = IF request = None THEN aborted ELSE request
  /\ loading' = TRUE
  /\ UNCHANGED <<data, error>>

(* The route reads the store.                                              *)
RouteReads(answer) ==
  /\ request.phase = "sent"
  /\ request' = ReadAnswer(answer)
  /\ UNCHANGED <<due, aborted, data, error, loading>>

(* Mutant of AnswerArrives: an error stays once it is shown.               *)
AnswerArrivesUnderError ==
  /\ request.phase = "read"
  /\ data' = request.answer
  /\ loading' = FALSE /\ request' = None
  /\ UNCHANGED <<due, aborted, error>>

AnswerArrives ==
  /\ request.phase = "read"
  /\ data' = request.answer /\ error' = "none"
  /\ loading' = FALSE /\ request' = None
  /\ UNCHANGED <<due, aborted>>

(* No answer, not a 2xx one, or one outside the contract.                  *)
RequestFails ==
  /\ request # None
  /\ error' \in ErrorKinds
  /\ loading' = FALSE /\ request' = None
  /\ UNCHANGED <<due, aborted, data>>

(* Mutant of AbortedSettles: the signal is not looked at.                  *)
AbortedShown ==
  /\ aborted.phase = "read"
  /\ data' = aborted.answer /\ error' = "none"
  /\ loading' = FALSE /\ aborted' = None
  /\ UNCHANGED <<due, request>>

(* What an aborted request was answered is dropped.                        *)
AbortedSettles ==
  /\ aborted # None
  /\ aborted' = None
  /\ UNCHANGED <<due, request, data, error, loading>>

(* Nothing is under way or waits to be.                                    *)
Settled == ~ due /\ ~ loading
=============================================================================
