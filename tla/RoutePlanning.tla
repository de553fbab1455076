--------------------------- MODULE RoutePlanning ---------------------------
(***************************************************************************)
(* From a request to a frozen plan: api/generation.py up to the            *)
(* orchestrator, services/planning.py, classifier.py, registry.py,         *)
(* policy.py, router.py and streaming.py.                                  *)
(*                                                                         *)
(* Each step reads what the step before it froze.  The registry and the    *)
(* policies are read when their step comes, whatever they hold by then.    *)
(* Tokens, money and time are counted in coarse units, pass and failure    *)
(* priors in parts of Parts, weights in percent.  Scores are exact here;   *)
(* the code rounds them to nine digits before it compares them.            *)
(***************************************************************************)
EXTENDS Controls

CONSTANTS
  Models,         \* every row of the model table
  Entry,          \* its row, as registry.snapshot() reads it
  Registries,     \* the sets of enabled and priced models a snapshot may find
  PolicySets,     \* the sets of active policies a plan may find
  AnyClass,       \* the task_class of a catch-all policy (NULL)
  Requests,       \* the requests that may arrive
  Parts,          \* 1.0 as a prior
  ContextMargin,  \* CONTEXT_SAFETY_MARGIN
  DefaultOutput   \* DEFAULT_EXPECTED_OUTPUT_TOKENS

TaskClasses ==
  {"classification", "extraction", "transformation", "summarization", "rewriting",
   "creative_writing", "factual_qa", "general_reasoning", "code_generation",
   "code_review", "sql_review", "structured_data", "tool_selection", "grounded_qa"}

Criteria == {"cost", "latency", "quality", "failure"}

AvailableValidators ==
  {"schema_check", "json_parse", "sql_parser", "sql_safety", "code_compile",
   "citation_check", "length_check", "label_check", "independent_review", "rubric_judge"}

(* The constraints of the tables models and policies; policies as persistence/seed.py
   writes them: every weight counts, every validator is one there is.         *)
ASSUME RegistryAssumption ==
  /\ Registries \subseteq SUBSET Models /\ IsFiniteSet(Models)
  /\ Models \cap Selectors = {}
  /\ Parts \in Nat \ {0} /\ ContextMargin \in Nat /\ DefaultOutput \in Nat
  /\ \A m, n \in Models : Entry[m].id = Entry[n].id => m = n
  /\ \A m \in Models :
       /\ Entry[m].tier \in UNION {EligibleTiers[level] : level \in DOMAIN PrivacyRank}
       /\ Entry[m].quality \in DOMAIN QualityRank
       /\ Entry[m].id \in Nat /\ Entry[m].fee \in Nat /\ Entry[m].latency \in Nat
       /\ Entry[m].input_price \in Nat /\ Entry[m].output_price \in Nat
       /\ Entry[m].pass \in 0..Parts /\ Entry[m].failure \in 0..Parts
  /\ \A active \in PolicySets :
       /\ IsFiniteSet(active)
       /\ \A p \in active :
            /\ p.version \in Nat /\ p.floor \in DOMAIN QualityRank
            /\ p.attempts \in 1..5 /\ p.validators \subseteq AvailableValidators
            /\ \A c \in DOMAIN p.weights : p.weights[c] \in Nat \ {0}

(* What the schemas of a body and of its controls let through.                *)
ASSUME RequestAssumption ==
  \A req \in Requests :
    /\ req.reads \in TaskClasses
    /\ req.input \in Nat /\ req.max_output \in Nat \cup {Unset}
    /\ req.layers \in Seq(Range(req.layers))
    /\ \A i \in DOMAIN req.layers :
         LET layer == req.layers[i]
         IN  /\ layer.quality \in DOMAIN QualityRank \cup {Unset}
             /\ layer.privacy \in DOMAIN PrivacyRank \cup {Unset}
             /\ layer.risk \in DOMAIN RiskRank \cup {Unset}
             /\ layer.max_cost \in Nat \cup {Unset}
             /\ layer.max_latency_ms \in (Nat \ {0}) \cup {Unset}
             /\ layer.max_attempts \in 1..5 \cup {Unset}
             /\ layer.allow_fallback \in BOOLEAN \cup {Unset}
             /\ layer.validation \in ValidationModes \cup {Unset}
             /\ layer.task_class \in TaskClasses \cup {Unset}

VARIABLES
  stage,     \* how far the request has come, in the end how it is served
  request,   \* the payload and its control layers
  controls,  \* CanonicalRequest.controls
  features,  \* RequestFeatures
  snapshot,  \* RegistrySnapshot.models
  plan       \* RoutePlan

vars == <<stage, request, controls, features, snapshot, plan>>

Nothing == <<>>

-----------------------------------------------------------------------------
(* Normalization and classification.                                       *)

\* What the payload itself requires of a model (_detect_capabilities); uses
\* names its tools, images and reasoning.
Detected(req) ==
  req.uses
    \cup (IF req.format = "json_schema" THEN {"json_schema"} ELSE {})
    \cup (IF req.stream THEN {"streaming"} ELSE {})

\* A response format of kind json_schema need not come with a schema.
HasSchema(req) == req.format = "json_schema" /\ req.schema

Canonical(req) ==
  LET resolved == ResolveControls(req.layers, req.model)
  IN  [resolved EXCEPT !.required_capabilities = @ \cup Detected(req)]

RiskOfClass(class) ==
  CASE class \in {"sql_review", "code_review", "grounded_qa", "tool_selection"} -> "high"
    [] class \in {"creative_writing", "classification"} -> "low"
    [] OTHER -> "medium"

RiskFloor == [low |-> "economy", medium |-> "standard",
              high |-> "high", critical |-> "critical"]

\* reads is the class the keywords of the text stand for, general_reasoning
\* when none match.
ClassOf(req, ctl) ==
  OrElse(ctl.task_class, IF HasSchema(req) THEN "structured_data" ELSE req.reads)

RiskOf(class, ctl) == Strictest({RiskOfClass(class)} \cup ({ctl.risk} \ {Unset}), RiskRank)

ExpectedOutput(req) == OrElse(req.max_output, Max({req.input \div 2, DefaultOutput}))

Features(req, ctl) ==
  [task_class |-> ClassOf(req, ctl),
   risk       |-> RiskOf(ClassOf(req, ctl), ctl),
   output     |-> ExpectedOutput(req)]

-----------------------------------------------------------------------------
(* The active policy.                                                      *)

DefaultWeights == [cost |-> 40, latency |-> 20, quality |-> 30, failure |-> 10]

NoPolicy == [floor |-> "standard", validators |-> {}, attempts |-> 3,
             weights |-> DefaultWeights]

Newest(policies) ==
  CHOOSE p \in policies : \A q \in policies : q.version <= p.version

\* A policy of the class itself goes before the catch-all.
ActiveFor(active, class) ==
  LET specific == {p \in active : p.task_class = class}
      general  == {p \in active : p.task_class = AnyClass}
  IN  IF specific # {} THEN Newest(specific)
      ELSE IF general # {} THEN Newest(general) ELSE NoPolicy

QualityFloor(feat, ctl, policy) ==
  Strictest({RiskFloor[feat.risk], ctl.quality, policy.floor}, QualityRank)

-----------------------------------------------------------------------------
(* The validators a response must pass.                                    *)

JudgeValidators == {"independent_review", "rubric_judge"}

FullOutputValidators ==
  {"schema_check", "json_parse", "sql_parser", "sql_safety", "code_compile",
   "citation_check"}

HighRisk == {"high", "critical"}

\* Slip: no validation also drops the schema gate.
ByModeBare(planned, mode) ==
  CASE mode = "none"          -> {}
    [] mode = "deterministic" -> planned \ JudgeValidators
    [] mode = "independent"   -> planned \cup {"independent_review"}
    [] mode = "auto"          -> planned

ByMode(planned, mode) ==
  CASE mode = "none"          -> planned \cap {"schema_check"}
    [] mode = "deterministic" -> planned \ JudgeValidators
    [] mode = "independent"   -> planned \cup {"independent_review"}
    [] mode = "auto"          -> planned

ValidationPlan(req, feat, ctl, policy) ==
  LET planned == policy.validators
                   \cup (IF HasSchema(req) THEN {"schema_check"} ELSE {})
  IN  ByMode(planned, ctl.validation)
        \cup (IF feat.risk \in HighRisk /\ ctl.validation \in {"auto", "independent"}
              THEN {"independent_review"} ELSE {})

-----------------------------------------------------------------------------
(* The gates (policy.evaluate).  build_plan passes no unhealthy or exhausted *)
(* models and no remaining budget, so those gates are open here.             *)

EstimateCost(m, req, feat) ==
  req.input * Entry[m].input_price + feat.output * Entry[m].output_price + Entry[m].fee

WindowFits(m, req, feat) ==
  /\ req.input + feat.output + ContextMargin <= Entry[m].window
  /\ feat.output <= Entry[m].max_output

ProviderAllowed(m, ctl) ==
  /\ Entry[m].provider \notin ctl.provider_deny
  /\ ctl.provider_allow # {} => Entry[m].provider \in ctl.provider_allow

Passes(m, req, feat, ctl, floor) ==
  /\ Entry[m].tier \in EligibleTiers[ctl.privacy]
  /\ ctl.required_capabilities \subseteq Entry[m].capabilities
  /\ req.endpoint \in Entry[m].endpoints
  /\ WindowFits(m, req, feat)
  /\ QualityRank[floor] <= QualityRank[Entry[m].quality]
  /\ ProviderAllowed(m, ctl)
  /\ EstimateCost(m, req, feat) <= ctl.max_cost
  /\ Entry[m].latency <= ctl.max_latency_ms

Eligible(models, req, feat, ctl, policy) ==
  {m \in models :
     /\ Passes(m, req, feat, ctl, QualityFloor(feat, ctl, policy))
     /\ ValidationPlan(req, feat, ctl, policy) \subseteq AvailableValidators}

-----------------------------------------------------------------------------
(* The ranking (router.rank).                                              *)

WeightsFor(model, policy) ==
  CASE model = "auto-cheap" ->
         [cost |-> 80, latency |-> 5, quality |-> 10, failure |-> 5]
    [] model = "auto-fast" ->
         [cost |-> 10, latency |-> 70, quality |-> 15, failure |-> 5]
    [] model = "auto-quality" ->
         [cost |-> 5, latency |-> 5, quality |-> 80, failure |-> 10]
    [] OTHER ->
         [c \in Criteria |-> IF c \in DOMAIN policy.weights THEN policy.weights[c]
                                                           ELSE DefaultWeights[c]]

\* 1 + q + ... + q^(tries-1) with q = 1 - pass, counted in units: a unit is
\* 1 / Parts^(tries-1).
ExpectedAttempts(m, tries) ==
  LET next(sum) == [one   |-> Parts * sum.one,
                    total |-> Parts * sum.one + (Parts - Entry[m].pass) * sum.total]
      sum[n \in 1..tries] == IF n = 1 THEN [one |-> 1, total |-> 1] ELSE next(sum[n - 1])
  IN  sum[tries].total

\* Slip: the chance to pass is scored where the shortfall is meant.
MeasuresOfPass(m, req, feat, tries) ==
  [cost    |-> EstimateCost(m, req, feat) * ExpectedAttempts(m, tries),
   latency |-> Entry[m].latency,
   quality |-> Entry[m].pass,
   failure |-> Entry[m].failure]

\* What is scored of a model, each less of a good thing.
Measures(m, req, feat, tries) ==
  [cost    |-> EstimateCost(m, req, feat) * ExpectedAttempts(m, tries),
   latency |-> Entry[m].latency,
   quality |-> Parts - Entry[m].pass,
   failure |-> Entry[m].failure]

OtherSpans(span) ==
  [cost    |-> span.latency * span.quality * span.failure,
   latency |-> span.cost * span.quality * span.failure,
   quality |-> span.cost * span.latency * span.failure,
   failure |-> span.cost * span.latency * span.quality]

\* Every measure is scaled to 0..1 over the models and weighted; the score is
\* that sum times the product of the spans, which keeps it whole.
Scores(models, req, feat, weights, tries) ==
  LET measure == [m \in models |-> Measures(m, req, feat, tries)]
      low  == [c \in Criteria |-> Min({measure[m][c] : m \in models})]
      span == [c \in Criteria |-> Max({1} \cup {measure[m][c] - low[c] : m \in models})]
      part(m, c) == weights[c] * OtherSpans(span)[c] * (measure[m][c] - low[c])
  IN  [m \in models |-> part(m, "cost") + part(m, "latency")
                          + part(m, "quality") + part(m, "failure")]

\* Ties go to the cheaper single attempt, then to the model id.  A model's place
\* is told by how many go before it.
Rank(models, req, feat, weights, tries) ==
  LET score == Scores(models, req, feat, weights, tries)
      cost(m) == EstimateCost(m, req, feat)
      Before(a, b) ==
        \/ score[a] < score[b]
        \/ score[a] = score[b] /\ cost(a) < cost(b)
        \/ score[a] = score[b] /\ cost(a) = cost(b) /\ Entry[a].id < Entry[b].id
      ahead(m) == Cardinality({n \in models : Before(n, m)})
  IN  [k \in 1..Cardinality(models) |-> CHOOSE m \in models : ahead(m) = k - 1]

\* An explicit model that passed the gates is the only candidate; one that did
\* not leaves the others, the best of them only when fallback is off.
Chosen(ranked, req, ctl) ==
  LET kept == IF req.model \in Range(ranked) THEN <<req.model>> ELSE ranked
  IN  IF req.model \in Selectors THEN ranked
      ELSE IF ctl.allow_fallback THEN kept
      ELSE SubSeq(kept, 1, Min({1, Len(kept)}))

Tries(policy, ctl) == Min({policy.attempts, ctl.max_attempts})

PlanOf(models, req, feat, ctl, policy) ==
  LET tries    == Tries(policy, ctl)
      eligible == Eligible(models, req, feat, ctl, policy)
      ranked   == Rank(eligible, req, feat, WeightsFor(req.model, policy), tries)
  IN  [policy       |-> policy,
       candidates   |-> Chosen(ranked, req, ctl),
       validators   |-> ValidationPlan(req, feat, ctl, policy),
       max_attempts |-> tries]

-----------------------------------------------------------------------------
Init == /\ stage = "received"
        /\ request \in Requests
        /\ controls = Nothing /\ features = Nothing /\ snapshot = {} /\ plan = Nothing

\* An explicit model the registry does not know at all is refused at once.
RejectUnknownModel ==
  /\ stage = "received"
  /\ request.model \notin Selectors \cup Models
  /\ stage' = "model_not_found"
  /\ UNCHANGED <<request, controls, features, snapshot, plan>>

Prepare ==
  /\ stage = "received"
  /\ request.model \in Selectors \cup Models
  /\ stage' = "prepared"
  /\ controls' = Canonical(request)
  /\ UNCHANGED <<request, features, snapshot, plan>>

Classify ==
  /\ stage = "prepared"
  /\ stage' = "classified"
  /\ features' = Features(request, controls)
  /\ UNCHANGED <<request, controls, snapshot, plan>>

TakeSnapshot ==
  /\ stage = "classified"
  /\ stage' = "frozen"
  /\ snapshot' \in Registries
  /\ UNCHANGED <<request, controls, features, plan>>

BuildPlan ==
  /\ stage = "frozen"
  /\ stage' = "planned"
  /\ \E active \in PolicySets :
       plan' = PlanOf(snapshot, request, features, controls,
                      ActiveFor(active, features.task_class))
  /\ UNCHANGED <<request, controls, features, snapshot>>

(* How it is served.  A stream is refused before its route is looked at.   *)

Serve(as, when) ==
  /\ stage = "planned"
  /\ when
  /\ stage' = as
  /\ UNCHANGED <<request, controls, features, snapshot, plan>>

Judged == request.stream /\ plan.validators \cap JudgeValidators # {}
Routed == ~Judged /\ plan.candidates # <<>>

MustBuffer == \/ plan.validators \cap FullOutputValidators # {}
              \/ features.risk \in HighRisk

RejectStream == Serve("requires_buffering", Judged)
NoRoute == Serve("no_route", ~Judged /\ plan.candidates = <<>>)
ServeWhole == Serve("whole", Routed /\ ~request.stream)
ServeBuffered == Serve("buffered", Routed /\ request.stream /\ MustBuffer)
ServeStream == Serve("passthrough", Routed /\ request.stream /\ ~MustBuffer)

Next == \/ RejectUnknownModel \/ Prepare \/ Classify \/ TakeSnapshot \/ BuildPlan
        \/ RejectStream \/ NoRoute \/ ServeWhole \/ ServeBuffered \/ ServeStream

Spec == Init /\ [][Next]_vars

-----------------------------------------------------------------------------
(* Properties.                                                             *)

ServedStages == {"whole", "buffered", "passthrough"}
PlannedStages == ServedStages \cup {"planned", "requires_buffering", "no_route"}
Stages == PlannedStages \cup
            {"received", "model_not_found", "prepared", "classified", "frozen"}

Planned == stage \in PlannedStages

(* The type invariant: resolution, classification and planning always yield
   controls, features and a plan of the code's types, with at least one attempt. *)
TypeOK ==
  /\ stage \in Stages
  /\ request \in Requests
  /\ controls # Nothing =>
       /\ controls.quality \in DOMAIN QualityRank
       /\ controls.privacy \in DOMAIN PrivacyRank
       /\ controls.risk \in DOMAIN RiskRank \cup {Unset}
       /\ controls.max_cost \in Nat /\ controls.max_latency_ms \in Nat \ {0}
       /\ controls.max_attempts \in 1..5
       /\ controls.allow_fallback \in BOOLEAN
       /\ controls.validation \in ValidationModes
       /\ controls.task_class \in TaskClasses \cup {Unset}
  /\ features # Nothing =>
       /\ features.task_class \in TaskClasses
       /\ features.risk \in DOMAIN RiskRank
       /\ features.output \in Nat
  /\ snapshot \in SUBSET Models
  /\ Planned =>
       /\ plan.candidates \in Seq(snapshot)
       /\ plan.validators \subseteq AvailableValidators
       /\ plan.max_attempts \in 1..5

(* What each party asks of a model, told from its own layer alone.         *)
Accepts(layer, m) ==
  /\ layer.privacy # Unset => Entry[m].tier \in EligibleTiers[layer.privacy]
  /\ layer.quality # Unset => QualityRank[layer.quality] <= QualityRank[Entry[m].quality]
  /\ layer.risk # Unset => QualityRank[RiskFloor[layer.risk]] <= QualityRank[Entry[m].quality]
  /\ layer.max_cost # Unset => EstimateCost(m, request, features) <= layer.max_cost
  /\ layer.max_latency_ms # Unset => Entry[m].latency <= layer.max_latency_ms
  /\ layer.provider_deny # Unset => Entry[m].provider \notin layer.provider_deny
  /\ layer.required_capabilities # Unset =>
       layer.required_capabilities \subseteq Entry[m].capabilities

\* What the gateway itself asks: its defaults, the risk of the class, the
\* policy, and a model that can do what the payload needs.
GatewayAccepts(m) ==
  /\ Entry[m].tier # "public_only"
  /\ \A floor \in {"standard", RiskFloor[RiskOfClass(features.task_class)], plan.policy.floor} :
       QualityRank[floor] <= QualityRank[Entry[m].quality]
  /\ EstimateCost(m, request, features) <= DefaultMaxCost
  /\ Entry[m].latency <= DefaultMaxLatency
  /\ Detected(request) \subseteq Entry[m].capabilities
  /\ request.endpoint \in Entry[m].endpoints
  /\ WindowFits(m, request, features)

AllowLists == Said(request.layers, "provider_allow")
Listed(m) == \A allowed \in AllowLists : Entry[m].provider \in allowed
ListsMeet == AllowLists = {} \/ \E p \in UNION AllowLists : \A allowed \in AllowLists : p \in allowed

Acceptable ==
  {m \in snapshot : /\ \A i \in DOMAIN request.layers : Accepts(request.layers[i], m)
                    /\ GatewayAccepts(m)
                    /\ ListsMeet => Listed(m)}

(* Layering neither loosens nor tightens: the candidates are models that every
   layer accepts on its own and the gateway accepts too -- all of them for a
   selector, the named one alone where it is among them, and some whenever there
   are any and the request is open to others than the one it names -- and
   nobody's cap on the attempts is exceeded, the policy's neither.  (What becomes
   of a named model that is not accepted, with fallback off, is left to
   FallbackIsAskedFor, and allow lists without a provider in common to
   AllowListsHold.)                                                         *)
CandidatesAreAdmitted ==
  Planned =>
    LET candidates == Range(plan.candidates)
    IN  /\ candidates \subseteq Acceptable
        /\ (request.model \in Selectors \/ controls.allow_fallback) /\ candidates = {}
             => Acceptable = {}
        /\ request.model \in Selectors => candidates = Acceptable
        /\ request.model \in Acceptable => candidates = {request.model}
        /\ plan.max_attempts <= plan.policy.attempts
        /\ \A cap \in Said(request.layers, "max_attempts") : plan.max_attempts <= cap

(* Nobody stands behind a model it beats: one that is as cheap, as fast, as
   likely to pass and as reliable, and better in one of the four, goes before,
   whatever the selector or policy weighs most (all weights are positive).  *)
BestFirst ==
  Planned =>
    LET merits(m) == <<-EstimateCost(m, request, features), -Entry[m].latency,
                       Entry[m].pass, -Entry[m].failure>>
        Beats(a, b) == /\ merits(a) # merits(b)
                       /\ \A k \in 1..4 : merits(b)[k] <= merits(a)[k]
    IN  \A i, j \in DOMAIN plan.candidates :
          i < j => ~Beats(plan.candidates[j], plan.candidates[i])

RisksNamed == Said(request.layers, "risk") \cup {RiskOfClass(features.task_class)}
ModesNamed == Said(request.layers, "validation")

(* Nothing reaches a client unseen that somebody wants to see whole first: a
   stream is passed through only if no party and no class calls it a high risk,
   no schema was given, and the policy's own full-output gates, if any, were
   dropped by a layer that asked for no validation.  And a request that a party
   or its class calls a high risk is served only under independent review, and
   then whole, unless a layer asked for less.                               *)
NothingUncheckedIsStreamed ==
  /\ stage = "passthrough" =>
       /\ RisksNamed \cap HighRisk = {}
       /\ ~HasSchema(request)
       /\ plan.policy.validators \cap FullOutputValidators # {} => "none" \in ModesNamed
  /\ /\ stage \in ServedStages
     /\ RisksNamed \cap HighRisk # {}
     /\ ModesNamed \cap {"none", "deterministic"} = {}
     => "independent_review" \in plan.validators /\ stage = "whole"

(* controls.py:128-129: "Allow lists intersect and deny lists union, so no
   layer can widen access granted by a stricter one."                       *)
AllowListsHold == Planned => \A m \in Range(plan.candidates) : Listed(m)

(* tests/unit/test_determinism.py:215: "fallback off an explicit ID requires
   allow_fallback=true".                                                    *)
FallbackIsAskedFor ==
  Planned /\ request.model \notin Selectors /\ ~controls.allow_fallback
    => Range(plan.candidates) \subseteq {request.model}
=============================================================================
