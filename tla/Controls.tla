------------------------------ MODULE Controls ------------------------------
(***************************************************************************)
(* Precedence of controls: services/controls.py over domain/enums.py.      *)
(*                                                                         *)
(* A layer is a record of what one party says of a request; Unset is what  *)
(* it says nothing about.  Layers come highest precedence first:           *)
(* deployment, client, headers, body.  (The layer of alias defaults that   *)
(* the code puts last is always silent: dependencies.py:150.)              *)
(*                                                                         *)
(* dry_run, metadata and debug choose what is reported, not where a        *)
(* request goes, and are left out.                                         *)
(***************************************************************************)
EXTENDS Integers, Sequences, FiniteSetsExt, SequencesExt

CONSTANTS
  Unset,              \* None
  DefaultMaxCost,     \* Settings.default_max_cost
  DefaultMaxLatency   \* Settings.default_max_latency_ms

ASSUME DefaultsAssumption ==
  DefaultMaxCost \in Nat /\ DefaultMaxLatency \in Nat \ {0}

-----------------------------------------------------------------------------
(* Orders of strictness, and the classes each level may be routed to.      *)

QualityRank == [economy |-> 0, standard |-> 1, high |-> 2, critical |-> 3]
PrivacyRank == [public |-> 0, confidential |-> 1, deployment_strict |-> 2]
RiskRank == [low |-> 0, medium |-> 1, high |-> 2, critical |-> 3]

EligibleTiers ==
  [public            |-> {"public_only", "standard", "zdr"},
   confidential      |-> {"standard", "zdr"},
   deployment_strict |-> {"zdr"}]

ValidationModes == {"auto", "none", "deterministic", "independent"}

Selectors == {"auto", "auto-cheap", "auto-fast", "auto-quality", "auto-private"}

\* A selector may force a privacy level on whoever uses it.
ForcedPrivacy(model) == IF model = "auto-private" THEN {"confidential"} ELSE {}

-----------------------------------------------------------------------------
(* Layers.  The schema of a body block turns an empty list into silence.   *)

LayerFields ==
  {"quality", "privacy", "max_cost", "max_latency_ms", "provider_allow",
   "provider_deny", "required_capabilities", "allow_fallback", "max_attempts",
   "validation", "task_class", "risk"}

Silent == [field \in LayerFields |-> Unset]

\* Everything said of a field, whoever says it.
Said(layers, field) == {layers[i][field] : i \in DOMAIN layers} \ {Unset}

Strictest(values, rank) ==
  CHOOSE v \in values : \A w \in values : rank[w] <= rank[v]

FirstSet(layers, field) ==
  LET i == SelectInSeq(layers, LAMBDA layer : layer[field] # Unset)
  IN  IF i = 0 THEN Unset ELSE layers[i][field]

OrElse(value, default) == IF value = Unset THEN default ELSE value

\* Slip: the highest layer that names a level decides, however loose it is.
PrivacyOfFirst(layers, model) == OrElse(FirstSet(layers, "privacy"), "confidential")

\* The system default takes part as one more value: a floor, not a fallback.
EffectivePrivacy(layers, model) ==
  Strictest(Said(layers, "privacy") \cup {"confidential"} \cup ForcedPrivacy(model),
            PrivacyRank)

EffectiveQuality(layers) ==
  Strictest(Said(layers, "quality") \cup {"standard"}, QualityRank)

EffectiveRisk(layers) ==
  IF Said(layers, "risk") = {} THEN Unset ELSE Strictest(Said(layers, "risk"), RiskRank)

\* Every allow list must name a provider.  No list at all and lists with
\* nothing in common both come out empty, and an empty list restricts nothing.
EffectiveAllow(layers) ==
  {p \in UNION Said(layers, "provider_allow") :
     \A allowed \in Said(layers, "provider_allow") : p \in allowed}

EffectiveCap(layers) ==
  IF Said(layers, "max_attempts") = {} THEN 3 ELSE Min(Said(layers, "max_attempts"))

ResolveControls(layers, model) ==
  [quality               |-> EffectiveQuality(layers),
   privacy               |-> EffectivePrivacy(layers, model),
   risk                  |-> EffectiveRisk(layers),
   max_cost              |-> Min(Said(layers, "max_cost") \cup {DefaultMaxCost}),
   max_latency_ms        |-> Min(Said(layers, "max_latency_ms") \cup {DefaultMaxLatency}),
   max_attempts          |-> EffectiveCap(layers),
   provider_allow        |-> EffectiveAllow(layers),
   provider_deny         |-> UNION Said(layers, "provider_deny"),
   required_capabilities |-> UNION Said(layers, "required_capabilities"),
   allow_fallback        |-> OrElse(FirstSet(layers, "allow_fallback"), TRUE),
   validation            |-> OrElse(FirstSet(layers, "validation"), "auto"),
   task_class            |-> FirstSet(layers, "task_class")]
=============================================================================
