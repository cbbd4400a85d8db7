--------------------------- MODULE MCReplayEngine ---------------------------
(***************************************************************************)
(* Model-checking instance of ReplayEngine: what its cfg gives to the      *)
(* constants that are functions, sequences or records.                     *)
(***************************************************************************)
EXTENDS ReplayEngine

CONSTANTS ev_a, ev_b

FailureOf(e, scope, network, class, family, ts, attempt) ==
  [eventId |-> e, scopeKey |-> scope, network |-> network, class |-> class,
   family |-> family, ts |-> ts, attempt |-> attempt,
   amountMinor |-> IF e = ev_a THEN 2 ELSE 3]

(***************************************************************************)
(* One card failing twice; a Mastercard failing twice within hours; a hard *)
(* decline, then a failure whose follow-up is beyond the attempt limit; a  *)
(* customer to be asked, then an issuer's soft refusal on another network. *)
(***************************************************************************)
TwoFailures ==
  {<<FailureOf(ev_a, "acme:visa", "visa", "cat23", "soft", 9, 1),
     FailureOf(ev_b, "acme:visa", "visa", "cat23", "soft", 35, 2)>>,
   <<FailureOf(ev_a, "globex:mc", "mastercard", "mac02", "review", 30, 1),
     FailureOf(ev_b, "globex:mc", "mastercard", "mac02", "review", 33, 1)>>,
   <<FailureOf(ev_a, "stark:visa", "visa", "cat1", "hard", 9, 1),
     FailureOf(ev_b, "acme:visa", "visa", "cat23", "soft", 35, 3)>>,
   <<FailureOf(ev_a, "wayne:amex", "other", "ask", "hard", 13, 3),
     FailureOf(ev_b, "initech:amex", "other", "cat23", "review", 20, 1)>>}

Offsets == <<6, 24, 48>>

PaymentsAsked ==
  UNION {{[ts |-> s[k].ts, attempt |-> s[k].attempt + n, family |-> s[k].family] :
            k \in DOMAIN s, n \in {0, 1}} : s \in Streams}

(* Attempt 0 is the dunning draw.                                          *)
SomeDraws ==
  {[k \in 0 .. 6 |-> CASE k = 0 -> first + 100 [] k = 1 -> first [] OTHER -> later] :
     first \in {8, 200, 600}, later \in {8, 90, 600}}

(* Two trainings of the pinned version, one payment in ten apart.          *)
TwoTrainings ==
  [t \in {"t1", "t2"} |-> [family \in DeclineFamily |-> [attempt \in 1 .. 6 |->
     (IF t = "t1" THEN 500 ELSE 400) - (IF family = "hard" THEN 200 ELSE 0) - 20 * attempt]]]

ArtifactOf(version, booster) ==
  [files |-> TRUE, metaValid |-> TRUE, version |-> version, metaFeatures |-> "code",
   booster |-> booster, boosterFeatures |-> "code"]

SomeArtifacts ==
  {ArtifactOf("v1", "t1"), ArtifactOf("v1", "t2"), ArtifactOf("v2", "t2"),
   ArtifactOf("v1", "unreadable")}
=============================================================================
