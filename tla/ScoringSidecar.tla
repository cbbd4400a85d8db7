--------------------------- MODULE ScoringSidecar ---------------------------
(***************************************************************************)
(* The scoring sidecar (services/scoring): one pinned model, loaded on the *)
(* first request and cached by the process, behind POST /v1/score.         *)
(*                                                                         *)
(* What lies under models/registry/<pinned version> is `artifact`, and the *)
(* training script may replace it at any time.  A load is one step: that a *)
(* training writes between its two reads is not modelled.                  *)
(***************************************************************************)
EXTENDS TimingPolicy

CONSTANTS
  PinnedVersion,  (* SCORING_MODEL_VERSION.                                *)
  Artifacts,      (* What the pinned directory may hold.                   *)
  Propensity,     (* Training to the propensity its booster gives a payment *)
                  (* of a family at an attempt, in permille.               *)
  MaxAttempt,     (* le=50 of CandidateMoment.attempt.                     *)
  MaxOutages,     (* Bound on replaced artifacts and restarts together.    *)
  NoBundle

VARIABLES
  artifact,  (* The files of the pinned version, at this moment.           *)
  cached,    (* _cached_load's entry: the bundle being served, if any.     *)
  outages    (* Artifacts replaced and processes restarted so far.         *)

sidecarVars == <<artifact, cached, outages>>

(***************************************************************************)
(* An artifact: are both files there, does meta.json validate, the version *)
(* and feature names it records, the training the booster came from        *)
(* ("unreadable" if it does not load) and the booster's feature names.     *)
(***************************************************************************)
Artifact ==
  [files : BOOLEAN, metaValid : BOOLEAN, version : STRING, metaFeatures : {"code", "other"},
   booster : DOMAIN Propensity \cup {"unreadable"}, boosterFeatures : {"code", "other"}]

ASSUME SidecarAssumption ==
  /\ \A a \in Artifacts : a \in Artifact
  /\ "unreadable" \notin DOMAIN Propensity
  /\ MaxAttempt \in Nat \ {0} /\ MaxOutages \in Nat
  /\ \A training \in DOMAIN Propensity, family \in DeclineFamily, attempt \in 1 .. MaxAttempt :
       Propensity[training][family][attempt] \in 1 .. 999

Bundle == [version : {PinnedVersion}, recorded : STRING, training : DOMAIN Propensity]

ASSUME NoBundleAssumption == NoBundle \notin Bundle

InitSidecar ==
  /\ artifact \in Artifacts
  /\ cached = NoBundle
  /\ outages = 0

(* Mutant of Loadable: the recorded version is not compared.               *)
LoadableAnyVersion(a) ==
  /\ a.files /\ a.metaValid
  /\ a.metaFeatures = "code" /\ a.boosterFeatures = "code" /\ a.booster # "unreadable"

(* load_bundle raises ModelLoadError unless all of this holds.             *)
Loadable(a) ==
  /\ a.files
  /\ a.metaValid
  /\ a.version = PinnedVersion
  /\ a.metaFeatures = "code"
  /\ a.booster # "unreadable"
  /\ a.boosterFeatures = "code"

LoadBundle(a) ==
  [version |-> PinnedVersion, recorded |-> a.version, training |-> a.booster]

(* get_bundle: lru_cache keeps what loaded, never a failure.               *)
Available == cached # NoBundle \/ Loadable(artifact)

Served == IF cached # NoBundle THEN cached ELSE LoadBundle(artifact)

GetBundle ==
  /\ cached' = IF Available THEN Served ELSE NoBundle
  /\ UNCHANGED <<artifact, outages>>

(* Any other client's request loads the model too.                         *)
OtherRequest == cached = NoBundle /\ Loadable(artifact) /\ GetBundle

ReplaceArtifact ==
  /\ outages < MaxOutages
  /\ outages' = outages + 1
  /\ artifact' \in Artifacts \ {artifact}
  /\ UNCHANGED cached

RestartSidecar ==
  /\ outages < MaxOutages
  /\ outages' = outages + 1
  /\ cached' = NoBundle
  /\ UNCHANGED artifact

SidecarEvent == OtherRequest \/ ReplaceArtifact \/ RestartSidecar

-----------------------------------------------------------------------------
(***************************************************************************)
(* POST /v1/score: the best of three moments, one, three and seven days    *)
(* after the payment's ts, as its next attempt.  An attempt beyond the     *)
(* candidate's limit is an internal error.                                 *)
(***************************************************************************)
Scorable(payment) == payment.attempt + 1 <= MaxAttempt

ScoreOf(bundle, payment) ==
  LET propensity == Propensity[bundle.training][payment.family][payment.attempt]
      P(days)    == MomentP(propensity, payment.attempt + 1, payment.ts + 24 * days,
                            payment.ts, payment.family)
  IN  [p |-> Max({P(days) : days \in {1, 3, 7}}),
       modelVersion |-> bundle.version, bundle |-> bundle]
=============================================================================
