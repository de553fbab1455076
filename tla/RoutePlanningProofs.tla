------------------------ MODULE RoutePlanningProofs ------------------------
(***************************************************************************)
(* Proofs about RoutePlanning, for every registry, every set of policies   *)
(* and every request: what Resolve makes of the layers is what each layer  *)
(* asks on its own, the ranking is one of exactly the eligible models, and *)
(* from that the three invariants of the runs.                             *)
(***************************************************************************)
EXTENDS RoutePlanning, SumsProofs

-----------------------------------------------------------------------------
(* Least, greatest and strictest.                                          *)

(* The minimum of naturals is one of them, and no higher than any.           *)
LEMMA MinOf ==
  ASSUME NEW S \in SUBSET Nat, S # {}
  PROVE  Min(S) \in S /\ \A x \in S : Min(S) <= x
BY LeastNat DEF Min

(* The maximum of finitely many naturals is one of them, and no lower than any. *)
LEMMA MaxOf ==
  ASSUME NEW S \in SUBSET Nat, S # {}, IsFiniteSet(S)
  PROVE  Max(S) \in S /\ \A x \in S : x <= Max(S)
<1> DEFINE f == [x \in S |-> x]
<1>1. \A x \in S : f[x] \in Nat
  OBVIOUS
<1>2. PICK x \in S : \A y \in S : f[y] <= f[x]
  <2> HIDE DEF f
  <2>1. QED
    BY <1>1, Highest
<1>3. \A y \in S : x >= y
  BY <1>2
<1>4. QED
  BY <1>3 DEF Max

(* Of levels that are ranked some is as strict as all of them.               *)
LEMMA StrictestOf ==
  ASSUME NEW values, NEW rank, NEW top \in Nat, values # {},
         \A v \in values : rank[v] \in 0..top
  PROVE  /\ Strictest(values, rank) \in values
         /\ \A v \in values : rank[v] <= rank[Strictest(values, rank)]
<1> DEFINE slack == {top - rank[v] : v \in values}
<1>1. slack \in SUBSET Nat /\ slack # {}
  OBVIOUS
<1>2. PICK s \in slack : \A t \in slack : s <= t
  BY <1>1, LeastNat
<1>3. PICK v \in values : s = top - rank[v]
  OBVIOUS
<1>4. \A w \in values : top - rank[v] <= top - rank[w]
  BY <1>2, <1>3
<1>5. \A w \in values : rank[w] <= rank[v]
  BY <1>4
<1>6. QED
  BY <1>5 DEF Strictest

(* What the highest layer that speaks says of a field is something said of it. *)
LEMMA FirstSetOf ==
  ASSUME NEW layers, layers \in Seq(Range(layers)), NEW field
  PROVE  FirstSet(layers, field) \in Said(layers, field) \cup {Unset}
<1> DEFINE I == {i \in 1..Len(layers) : layers[i][field] # Unset}
<1>1. SelectInSeq(layers, LAMBDA layer : layer[field] # Unset) = IF I # {} THEN Min(I) ELSE 0
  BY DEF SelectInSeq
<1>2. CASE I = {}
  BY <1>1, <1>2 DEF FirstSet
<1>3. CASE I # {}
  <2>1. I \in SUBSET Nat
    OBVIOUS
  <2>2. Min(I) \in I
    BY <1>3, <2>1, MinOf
  <2>3. Min(I) # 0 /\ layers[Min(I)][field] # Unset /\ Min(I) \in DOMAIN layers
    BY <2>2
  <2>4. FirstSet(layers, field) = layers[Min(I)][field]
    BY <1>1, <1>3, <2>3 DEF FirstSet
  <2>5. QED
    BY <2>3, <2>4 DEF Said
<1>4. QED
  BY <1>2, <1>3

-----------------------------------------------------------------------------
(* What Resolve makes of the layers.                                       *)

(* The levels and their ranks.                                             *)
LEMMA Ranks ==
  /\ \A q \in DOMAIN QualityRank : QualityRank[q] \in 0..3
  /\ \A p \in DOMAIN PrivacyRank : PrivacyRank[p] \in 0..2
  /\ \A r \in DOMAIN RiskRank : RiskRank[r] \in 0..3 /\ QualityRank[RiskFloor[r]] = RiskRank[r]
  /\ \A r \in DOMAIN RiskRank : RiskFloor[r] \in DOMAIN QualityRank
  /\ DOMAIN QualityRank = {"economy", "standard", "high", "critical"}
  /\ DOMAIN PrivacyRank = {"public", "confidential", "deployment_strict"}
  /\ DOMAIN RiskRank = {"low", "medium", "high", "critical"}
BY DEF QualityRank, PrivacyRank, RiskRank, RiskFloor

(* A layer's fields are of the types a body's schema gives them.             *)
LEMMA SaidTypes ==
  ASSUME NEW req \in Requests
  PROVE  /\ Said(req.layers, "quality") \subseteq DOMAIN QualityRank
         /\ Said(req.layers, "privacy") \subseteq DOMAIN PrivacyRank
         /\ Said(req.layers, "risk") \subseteq DOMAIN RiskRank
         /\ Said(req.layers, "max_cost") \subseteq Nat
         /\ Said(req.layers, "max_latency_ms") \subseteq Nat \ {0}
         /\ Said(req.layers, "max_attempts") \subseteq 1..5
         /\ Said(req.layers, "allow_fallback") \subseteq BOOLEAN
         /\ Said(req.layers, "validation") \subseteq ValidationModes
         /\ Said(req.layers, "task_class") \subseteq TaskClasses
BY RequestAssumption DEF Said

(* Each field of the controls, from what is said of it.                      *)
LEMMA CanonicalFields ==
  ASSUME NEW req \in Requests
  PROVE  LET ctl == Canonical(req) IN
         /\ ctl.quality = EffectiveQuality(req.layers)
         /\ ctl.privacy = EffectivePrivacy(req.layers, req.model)
         /\ ctl.risk = EffectiveRisk(req.layers)
         /\ ctl.max_cost = Min(Said(req.layers, "max_cost") \cup {DefaultMaxCost})
         /\ ctl.max_latency_ms
              = Min(Said(req.layers, "max_latency_ms") \cup {DefaultMaxLatency})
         /\ ctl.max_attempts = EffectiveCap(req.layers)
         /\ ctl.provider_allow = EffectiveAllow(req.layers)
         /\ ctl.provider_deny = UNION Said(req.layers, "provider_deny")
         /\ ctl.required_capabilities
              = (UNION Said(req.layers, "required_capabilities")) \cup Detected(req)
         /\ ctl.allow_fallback = OrElse(FirstSet(req.layers, "allow_fallback"), TRUE)
         /\ ctl.validation = OrElse(FirstSet(req.layers, "validation"), "auto")
         /\ ctl.task_class = FirstSet(req.layers, "task_class")
         /\ ctl # Nothing
<1> DEFINE resolved == ResolveControls(req.layers, req.model)
           ctl == Canonical(req)
<1>1. ctl = [resolved EXCEPT !.required_capabilities = @ \cup Detected(req)]
  BY DEF Canonical
<1>2. "quality" \in DOMAIN resolved /\ DOMAIN ctl = DOMAIN resolved
  BY <1>1 DEF ResolveControls
<1>3. ctl # <<>>
  BY <1>2
<1>4. QED
  BY <1>1, <1>3 DEF ResolveControls, Nothing

(* The quality asked for is the strictest named, the system's own included.   *)
LEMMA QualityResolved ==
  ASSUME NEW req \in Requests
  PROVE  /\ EffectiveQuality(req.layers) \in Said(req.layers, "quality") \cup {"standard"}
         /\ EffectiveQuality(req.layers) \in DOMAIN QualityRank
         /\ \A q \in Said(req.layers, "quality") \cup {"standard"} :
              QualityRank[q] <= QualityRank[EffectiveQuality(req.layers)]
<1> DEFINE named == Said(req.layers, "quality") \cup {"standard"}
<1>1. named \subseteq DOMAIN QualityRank /\ named # {}
  BY SaidTypes, Ranks
<1>2. \A q \in named : QualityRank[q] \in 0..3
  BY <1>1, Ranks
<1>3. /\ Strictest(named, QualityRank) \in named
      /\ \A q \in named : QualityRank[q] <= QualityRank[Strictest(named, QualityRank)]
  <2> HIDE DEF named
  <2>1. 3 \in Nat
    OBVIOUS
  <2>2. QED
    BY <1>1, <1>2, <2>1, StrictestOf
<1>4. QED
  BY <1>1, <1>3 DEF EffectiveQuality

(* The privacy level is the strictest of those named, the system's own and the
   one the selector forces.                                                 *)
LEMMA PrivacyResolved ==
  ASSUME NEW req \in Requests
  PROVE  /\ EffectivePrivacy(req.layers, req.model)
              \in Said(req.layers, "privacy") \cup {"confidential"}
         /\ EffectivePrivacy(req.layers, req.model) \in DOMAIN PrivacyRank
         /\ \A p \in Said(req.layers, "privacy") \cup {"confidential"} :
              PrivacyRank[p] <= PrivacyRank[EffectivePrivacy(req.layers, req.model)]
<1> DEFINE named == Said(req.layers, "privacy") \cup {"confidential"}
                      \cup ForcedPrivacy(req.model)
<1>1. named = Said(req.layers, "privacy") \cup {"confidential"}
  BY DEF ForcedPrivacy
<1>2. named \subseteq DOMAIN PrivacyRank /\ named # {}
  BY <1>1, SaidTypes, Ranks
<1>3. \A p \in named : PrivacyRank[p] \in 0..2
  BY <1>2, Ranks
<1>4. /\ Strictest(named, PrivacyRank) \in named
      /\ \A p \in named : PrivacyRank[p] <= PrivacyRank[Strictest(named, PrivacyRank)]
  <2> HIDE DEF named
  <2>1. 2 \in Nat
    OBVIOUS
  <2>2. QED
    BY <1>2, <1>3, <2>1, StrictestOf
<1>5. EffectivePrivacy(req.layers, req.model) = Strictest(named, PrivacyRank)
  BY DEF EffectivePrivacy
<1> HIDE DEF named
<1>6. QED
  BY <1>1, <1>2, <1>4, <1>5

(* The risk, when somebody names one, is the highest named.                   *)
LEMMA RiskResolved ==
  ASSUME NEW req \in Requests
  PROVE  LET named == Said(req.layers, "risk")
             risk  == EffectiveRisk(req.layers)
         IN  /\ named = {} => risk = Unset
             /\ named # {} => /\ risk \in named /\ risk \in DOMAIN RiskRank /\ risk # Unset
                              /\ \A r \in named : RiskRank[r] <= RiskRank[risk]
<1> DEFINE named == Said(req.layers, "risk")
<1>1. CASE named = {}
  BY <1>1 DEF EffectiveRisk
<1>2. CASE named # {}
  <2>1. named \subseteq DOMAIN RiskRank /\ Unset \notin named
    BY SaidTypes DEF Said
  <2>2. \A r \in named : RiskRank[r] \in 0..3
    BY <2>1, Ranks
  <2>3. /\ Strictest(named, RiskRank) \in named
        /\ \A r \in named : RiskRank[r] <= RiskRank[Strictest(named, RiskRank)]
    <3> HIDE DEF named
    <3>1. 3 \in Nat
      OBVIOUS
    <3>2. QED
      BY <1>2, <2>2, <3>1, StrictestOf
  <2>4. EffectiveRisk(req.layers) = Strictest(named, RiskRank)
    BY <1>2 DEF EffectiveRisk
  <2> HIDE DEF named
  <2>5. Strictest(named, RiskRank) # Unset
    BY <2>1, <2>3
  <2>6. Strictest(named, RiskRank) \in DOMAIN RiskRank
    BY <2>1, <2>3
  <2>7. QED
    BY <1>2, <2>3, <2>4, <2>5, <2>6 DEF named
<1>3. QED
  BY <1>1, <1>2

(* The ceilings are the lowest named, the system's own included; the cap on the
   attempts is the lowest named, or three.                                  *)
LEMMA CeilingsResolved ==
  ASSUME NEW req \in Requests
  PROVE  LET costs == Said(req.layers, "max_cost") \cup {DefaultMaxCost}
             times == Said(req.layers, "max_latency_ms") \cup {DefaultMaxLatency}
             caps  == Said(req.layers, "max_attempts")
         IN  /\ Min(costs) \in costs /\ Min(costs) \in Nat
             /\ \A c \in costs : Min(costs) <= c /\ c \in Nat
             /\ Min(times) \in times /\ Min(times) \in Nat \ {0}
             /\ \A t \in times : Min(times) <= t /\ t \in Nat
             /\ EffectiveCap(req.layers) \in 1..5
             /\ \A c \in caps : EffectiveCap(req.layers) <= c
<1> DEFINE costs == Said(req.layers, "max_cost") \cup {DefaultMaxCost}
           times == Said(req.layers, "max_latency_ms") \cup {DefaultMaxLatency}
           caps  == Said(req.layers, "max_attempts")
<1>1. costs \in SUBSET Nat /\ costs # {} /\ times \in SUBSET Nat /\ times # {} /\ 0 \notin times
  BY SaidTypes, DefaultsAssumption
<1>2. Min(costs) \in costs /\ \A c \in costs : Min(costs) <= c
  <2> HIDE DEF costs
  <2>1. QED
    BY <1>1, MinOf
<1>3. Min(times) \in times /\ \A t \in times : Min(times) <= t
  <2> HIDE DEF times
  <2>1. QED
    BY <1>1, MinOf
<1>4. EffectiveCap(req.layers) \in 1..5 /\ \A c \in caps : EffectiveCap(req.layers) <= c
  <2>1. caps \in SUBSET (1..5) /\ caps \in SUBSET Nat
    BY SaidTypes
  <2>2. CASE caps = {}
    BY <2>2 DEF EffectiveCap
  <2>3. CASE caps # {}
    <3>1. Min(caps) \in caps /\ \A c \in caps : Min(caps) <= c
      <4> HIDE DEF caps
      <4>1. QED
        BY <2>1, <2>3, MinOf
    <3>2. QED
      BY <2>1, <2>3, <3>1 DEF EffectiveCap
  <2>4. QED
    BY <2>2, <2>3
<1>5. Min(costs) \in Nat /\ Min(times) \in Nat \ {0}
  <2> HIDE DEF costs, times
  <2>1. QED
    BY <1>1, <1>2, <1>3
<1>6. \A c \in costs : c \in Nat
  BY <1>1
<1>7. \A t \in times : t \in Nat
  BY <1>1
<1> HIDE DEF costs, times, caps
<1>8. QED
  BY <1>2, <1>3, <1>4, <1>5, <1>6, <1>7 DEF costs, times, caps

(* The fields the highest layer decides.                                     *)
LEMMA FirstSetResolved ==
  ASSUME NEW req \in Requests
  PROVE  LET ctl == Canonical(req) IN
         /\ ctl.allow_fallback \in BOOLEAN
         /\ ctl.validation \in ValidationModes
         /\ ctl.validation # "auto" => ctl.validation \in Said(req.layers, "validation")
         /\ ctl.task_class \in TaskClasses \cup {Unset}
<1>1. req.layers \in Seq(Range(req.layers))
  BY RequestAssumption
<1>2. /\ FirstSet(req.layers, "allow_fallback") \in BOOLEAN \cup {Unset}
      /\ FirstSet(req.layers, "validation") \in Said(req.layers, "validation") \cup {Unset}
      /\ FirstSet(req.layers, "validation") \in ValidationModes \cup {Unset}
      /\ FirstSet(req.layers, "task_class") \in TaskClasses \cup {Unset}
  BY <1>1, FirstSetOf, SaidTypes
<1>3. "auto" \in ValidationModes
  BY DEF ValidationModes
<1>4. QED
  BY <1>2, <1>3, CanonicalFields DEF OrElse

-----------------------------------------------------------------------------
(* Classification and the policy.                                          *)

(* The class, the risk and the expected output are of the code's types, and the
   risk is the highest of what the class and the parties say.               *)
LEMMA FeaturesResolved ==
  ASSUME NEW req \in Requests
  PROVE  LET feat  == Features(req, Canonical(req))
             named == Said(req.layers, "risk") \cup {RiskOfClass(feat.task_class)}
         IN  /\ feat # Nothing
             /\ feat.task_class \in TaskClasses
             /\ feat.output \in Nat
             /\ named \subseteq DOMAIN RiskRank
             /\ feat.risk \in named
             /\ \A r \in named : RiskRank[r] <= RiskRank[feat.risk]
<1> DEFINE ctl == Canonical(req)
           feat == Features(req, ctl)
           class == ClassOf(req, ctl)
           named == Said(req.layers, "risk") \cup {RiskOfClass(class)}
           both == {RiskOfClass(class)} \cup ({ctl.risk} \ {Unset})
<1>1. feat.task_class = class /\ feat.output = ExpectedOutput(req) /\ feat.risk = RiskOf(class, ctl)
      /\ feat # Nothing
  BY DEF Features, Nothing
<1>2. class \in TaskClasses
  <2>1. "structured_data" \in TaskClasses
    BY DEF TaskClasses
  <2>2. req.reads \in TaskClasses
    BY RequestAssumption
  <2>3. ctl.task_class \in TaskClasses \cup {Unset}
    BY FirstSetResolved
  <2>4. QED
    BY <2>1, <2>2, <2>3 DEF ClassOf, OrElse
<1>3. ExpectedOutput(req) \in Nat
  <2>1. req.input \in Nat /\ req.max_output \in Nat \cup {Unset} /\ DefaultOutput \in Nat
    BY RequestAssumption, RegistryAssumption
  <2>2. {req.input \div 2, DefaultOutput} \in SUBSET Nat
    BY <2>1
  <2>3. IsFiniteSet({req.input \div 2, DefaultOutput})
    <3>1. IsFiniteSet({DefaultOutput})
      BY FS_Singleton
    <3>2. IsFiniteSet({DefaultOutput} \cup {req.input \div 2})
      BY <3>1, FS_AddElement
    <3>3. {DefaultOutput} \cup {req.input \div 2} = {req.input \div 2, DefaultOutput}
      OBVIOUS
    <3>4. QED
      BY <3>2, <3>3
  <2>4. Max({req.input \div 2, DefaultOutput}) \in {req.input \div 2, DefaultOutput}
    <3> DEFINE pair == {req.input \div 2, DefaultOutput}
    <3>1. pair # {}
      OBVIOUS
    <3> HIDE DEF pair
    <3>2. Max(pair) \in pair
      BY <2>2, <2>3, <3>1, MaxOf DEF pair
    <3>3. QED
      BY <3>2 DEF pair
  <2>5. QED
    BY <2>1, <2>2, <2>4 DEF ExpectedOutput, OrElse
<1>4. RiskOfClass(class) \in DOMAIN RiskRank
  BY Ranks DEF RiskOfClass
<1>5. /\ Said(req.layers, "risk") = {} => ctl.risk = Unset
      /\ Said(req.layers, "risk") # {} =>
           /\ ctl.risk \in Said(req.layers, "risk") /\ ctl.risk # Unset
           /\ \A r \in Said(req.layers, "risk") : RiskRank[r] <= RiskRank[ctl.risk]
  BY RiskResolved, CanonicalFields
<1>6. named \subseteq DOMAIN RiskRank
  BY <1>4, SaidTypes
<1>7. both # {} /\ both \subseteq named
  BY <1>5
<1>8. /\ Strictest(both, RiskRank) \in both
      /\ \A r \in both : RiskRank[r] <= RiskRank[Strictest(both, RiskRank)]
  <2>1. \A r \in both : RiskRank[r] \in 0..3
    BY <1>6, <1>7, Ranks
  <2> HIDE DEF both
  <2>2. 3 \in Nat
    OBVIOUS
  <2>3. QED
    BY <1>7, <2>1, <2>2, StrictestOf
<1>9. RiskOf(class, ctl) = Strictest(both, RiskRank)
  BY DEF RiskOf
<1>10. \A r \in named : RiskRank[r] \in Int
  BY <1>6, Ranks
<1> DEFINE risk == Strictest(both, RiskRank)
<1>11. \A r \in named : RiskRank[r] <= RiskRank[risk]
  <2>1. SUFFICES ASSUME NEW r \in named PROVE RiskRank[r] <= RiskRank[risk]
    OBVIOUS
  <2>2. risk \in named /\ RiskRank[risk] \in Int /\ RiskRank[r] \in Int
    BY <1>7, <1>8, <1>10
  <2>3. CASE r = RiskOfClass(class)
    BY <1>8, <2>3
  <2>4. CASE r \in Said(req.layers, "risk")
    <3>1. RiskRank[r] <= RiskRank[ctl.risk] /\ ctl.risk \in both /\ ctl.risk \in named
      BY <1>5, <2>4
    <3>2. RiskRank[ctl.risk] <= RiskRank[risk] /\ RiskRank[ctl.risk] \in Int
      BY <1>8, <1>10, <3>1
    <3> HIDE DEF risk
    <3>3. QED
      BY <2>2, <3>1, <3>2
  <2>5. QED
    BY <2>1, <2>3, <2>4
<1> HIDE DEF both, risk
<1>12. risk \in named
  BY <1>7, <1>8 DEF risk
<1>13. feat.risk = risk
  BY <1>1, <1>9 DEF risk
<1> HIDE DEF class
<1>14. QED
  BY <1>1, <1>2, <1>3, <1>6, <1>11, <1>12, <1>13

(* Some policy of a finite set that is not empty is newest.                   *)
LEMMA NewestOf ==
  ASSUME NEW active \in PolicySets, NEW some \in SUBSET active, some # {}
  PROVE  Newest(some) \in some
<1> DEFINE version == [p \in some |-> p.version]
<1>1. IsFiniteSet(some)
  BY RegistryAssumption, FS_Subset
<1>2. \A p \in some : version[p] \in Nat
  BY RegistryAssumption
<1>3. PICK p \in some : \A q \in some : version[q] <= version[p]
  <2> HIDE DEF version
  <2>1. QED
    BY <1>1, <1>2, Highest
<1>4. \A q \in some : q.version <= p.version
  BY <1>3
<1>5. QED
  BY <1>4 DEF Newest

(* The policy in force has a known floor, at least one attempt, validators there
   are and, whatever the selector weighs, positive weights.                 *)
LEMMA PolicyInForce ==
  ASSUME NEW active \in PolicySets, NEW class, NEW model
  PROVE  LET policy == ActiveFor(active, class) IN
         /\ policy.floor \in DOMAIN QualityRank
         /\ policy.attempts \in 1..5
         /\ policy.validators \subseteq AvailableValidators
         /\ \A c \in Criteria : WeightsFor(model, policy)[c] \in Nat \ {0}
<1> DEFINE policy == ActiveFor(active, class)
<1>1. policy \in active \cup {NoPolicy}
  <2>1. {p \in active : p.task_class = class} \in SUBSET active
    OBVIOUS
  <2>2. {p \in active : p.task_class = AnyClass} \in SUBSET active
    OBVIOUS
  <2>3. QED
    BY <2>1, <2>2, NewestOf DEF ActiveFor
<1>2. /\ policy.floor \in DOMAIN QualityRank
      /\ policy.attempts \in 1..5
      /\ policy.validators \subseteq AvailableValidators
      /\ \A c \in DOMAIN policy.weights : policy.weights[c] \in Nat \ {0}
  <2>1. CASE policy \in active
    <3> HIDE DEF policy
    <3>1. QED
      BY <2>1, RegistryAssumption
  <2>2. CASE policy = NoPolicy
    BY <2>2, Ranks DEF NoPolicy, DefaultWeights
  <2>3. QED
    BY <1>1, <2>1, <2>2
<1> HIDE DEF policy
<1>3. \A c \in Criteria : WeightsFor(model, policy)[c] \in Nat \ {0}
  BY <1>2 DEF WeightsFor, Criteria, DefaultWeights
<1>4. QED
  BY <1>2, <1>3 DEF policy

-----------------------------------------------------------------------------
(* The gates.                                                              *)

(* A model is good enough exactly when each floor on its own lets it pass.    *)
LEMMA QualityBar ==
  ASSUME NEW req \in Requests, NEW policy, policy.floor \in DOMAIN QualityRank,
         NEW x \in 0..3
  PROVE  LET ctl  == Canonical(req)
             feat == Features(req, ctl)
         IN  QualityRank[QualityFloor(feat, ctl, policy)] <= x
               <=> /\ \A f \in {"standard", RiskFloor[RiskOfClass(feat.task_class)],
                                policy.floor} : QualityRank[f] <= x
                   /\ \A q \in Said(req.layers, "quality") : QualityRank[q] <= x
                   /\ \A r \in Said(req.layers, "risk") : QualityRank[RiskFloor[r]] <= x
<1> DEFINE ctl == Canonical(req)
           feat == Features(req, ctl)
           class == feat.task_class
           risk == feat.risk
           floors == {RiskFloor[risk], ctl.quality, policy.floor}
           floor == Strictest(floors, QualityRank)
           risks == Said(req.layers, "risk") \cup {RiskOfClass(class)}
           levels == Said(req.layers, "quality") \cup {"standard"}
<1>1. /\ risks \subseteq DOMAIN RiskRank /\ risk \in risks
      /\ \A r \in risks : RiskRank[r] <= RiskRank[risk]
  BY FeaturesResolved
<1>2. /\ ctl.quality \in levels /\ levels \subseteq DOMAIN QualityRank
      /\ \A q \in levels : QualityRank[q] <= QualityRank[ctl.quality]
  <2>1. ctl.quality = EffectiveQuality(req.layers)
    BY CanonicalFields
  <2>2. levels \subseteq DOMAIN QualityRank
    BY SaidTypes, Ranks
  <2> HIDE DEF ctl
  <2>3. QED
    BY <2>1, <2>2, QualityResolved
<1>3. QualityFloor(feat, ctl, policy) = floor
  BY DEF QualityFloor
<1>4. /\ \A r \in risks : QualityRank[RiskFloor[r]] \in 0..3
      /\ \A r \in risks : QualityRank[RiskFloor[r]] <= QualityRank[RiskFloor[risk]]
      /\ \A q \in levels : QualityRank[q] \in 0..3
      /\ QualityRank[policy.floor] \in 0..3
  BY <1>1, <1>2, Ranks
<1> HIDE DEF ctl, feat, class, risk, risks, levels
<1>5. floor \in floors /\ \A f \in floors : QualityRank[f] <= QualityRank[floor]
  <2>1. \A f \in floors : QualityRank[f] \in 0..3
    BY <1>1, <1>2, <1>4
  <2>2. floors # {} /\ 3 \in Nat
    OBVIOUS
  <2> HIDE DEF floors
  <2>3. QED
    BY <2>1, <2>2, StrictestOf
<1>6. /\ QualityRank[floor] \in 0..3
      /\ QualityRank[RiskFloor[risk]] <= QualityRank[floor]
      /\ QualityRank[ctl.quality] <= QualityRank[floor]
      /\ QualityRank[policy.floor] <= QualityRank[floor]
      /\ \/ QualityRank[floor] = QualityRank[RiskFloor[risk]]
         \/ QualityRank[floor] = QualityRank[ctl.quality]
         \/ QualityRank[floor] = QualityRank[policy.floor]
  <2>1. RiskFloor[risk] \in floors /\ ctl.quality \in floors /\ policy.floor \in floors
    OBVIOUS
  <2>2. \A f \in floors : QualityRank[f] \in 0..3
    BY <1>1, <1>2, <1>4
  <2>3. floor = RiskFloor[risk] \/ floor = ctl.quality \/ floor = policy.floor
    BY <1>5
  <2> HIDE DEF floors
  <2> HIDE DEF floor
  <2>4. QED
    BY <1>5, <2>1, <2>2, <2>3
<1>7. QualityRank[floor] <= x
        <=> /\ \A r \in risks : QualityRank[RiskFloor[r]] <= x
            /\ \A q \in levels : QualityRank[q] <= x
            /\ QualityRank[policy.floor] <= x
  <2> HIDE DEF floor, floors
  <2>1. ASSUME QualityRank[floor] <= x
        PROVE  /\ \A r \in risks : QualityRank[RiskFloor[r]] <= x
               /\ \A q \in levels : QualityRank[q] <= x
               /\ QualityRank[policy.floor] <= x
    BY <1>1, <1>2, <1>4, <1>6, <2>1
  <2>2. ASSUME /\ \A r \in risks : QualityRank[RiskFloor[r]] <= x
               /\ \A q \in levels : QualityRank[q] <= x
               /\ QualityRank[policy.floor] <= x
        PROVE  QualityRank[floor] <= x
    BY <1>1, <1>2, <1>6, <2>2
  <2>3. QED
    BY <2>1, <2>2
<1> HIDE DEF floor, floors
<1>8. QED
  BY <1>3, <1>7 DEF risks, levels, class, feat, ctl

(* A class of models may be routed to exactly when each level alone allows it. *)
LEMMA TierBar ==
  ASSUME NEW req \in Requests,
         NEW tier \in UNION {EligibleTiers[level] : level \in DOMAIN PrivacyRank}
  PROVE  tier \in EligibleTiers[EffectivePrivacy(req.layers, req.model)]
           <=> /\ tier # "public_only"
               /\ \A p \in Said(req.layers, "privacy") : tier \in EligibleTiers[p]
<1> DEFINE named == Said(req.layers, "privacy") \cup {"confidential"}
           level == EffectivePrivacy(req.layers, req.model)
<1>1. /\ level \in named /\ named \subseteq DOMAIN PrivacyRank
      /\ \A p \in named : PrivacyRank[p] <= PrivacyRank[level]
  BY PrivacyResolved, SaidTypes, Ranks
<1>2. \A p, q \in DOMAIN PrivacyRank :
        PrivacyRank[p] <= PrivacyRank[q] => EligibleTiers[q] \subseteq EligibleTiers[p]
  BY DEF PrivacyRank, EligibleTiers
<1>3. tier \in EligibleTiers["confidential"] <=> tier # "public_only"
  BY DEF EligibleTiers, PrivacyRank
<1> HIDE DEF level
<1>4. tier \in EligibleTiers[level] <=> \A p \in named : tier \in EligibleTiers[p]
  BY <1>1, <1>2
<1>5. QED
  BY <1>3, <1>4 DEF level

(* Where the allow lists have a provider in common, the resolved list lets pass
   whom every list names; otherwise it is empty.                            *)
LEMMA AllowBar ==
  ASSUME NEW layers, NEW p
  PROVE  LET lists == Said(layers, "provider_allow")
             allow == EffectiveAllow(layers)
             meet  == lists = {} \/ \E q \in UNION lists : \A l \in lists : q \in l
         IN  /\ meet => ((allow # {} => p \in allow) <=> \A l \in lists : p \in l)
             /\ ~meet => allow = {}
<1> DEFINE lists == Said(layers, "provider_allow")
           allow == EffectiveAllow(layers)
<1>1. allow = {q \in UNION lists : \A l \in lists : q \in l}
  BY DEF EffectiveAllow
<1> HIDE DEF lists, allow
<1>2. QED
  BY <1>1 DEF lists, allow

(* A model passes the gates exactly when every layer accepts it on its own, the
   gateway accepts it and, where the allow lists have a provider in common, each
   of them names its provider.                                              *)
LEMMA Gates ==
  ASSUME request \in Requests, controls = Canonical(request),
         features = Features(request, controls),
         plan.policy.floor \in DOMAIN QualityRank, NEW m \in Models
  PROVE  Passes(m, request, features, controls,
                QualityFloor(features, controls, plan.policy))
           <=> /\ \A i \in DOMAIN request.layers : Accepts(request.layers[i], m)
               /\ GatewayAccepts(m)
               /\ ListsMeet => Listed(m)
<1> DEFINE layers == request.layers
           cost == EstimateCost(m, request, features)
           quality == QualityRank[Entry[m].quality]
<1>1. /\ quality \in 0..3 /\ Entry[m].latency \in Nat
      /\ Entry[m].tier \in UNION {EligibleTiers[level] : level \in DOMAIN PrivacyRank}
  BY RegistryAssumption, Ranks
<1>2. cost \in Nat
  <2>1. /\ request.input \in Nat /\ features.output \in Nat
        /\ Entry[m].input_price \in Nat /\ Entry[m].output_price \in Nat
        /\ Entry[m].fee \in Nat
    BY RegistryAssumption, RequestAssumption, FeaturesResolved
  <2>2. \A a, b \in Nat : a * b \in Nat
    OBVIOUS
  <2>3. QED
    BY <2>1, <2>2 DEF EstimateCost
<1>3. Entry[m].tier \in EligibleTiers[controls.privacy]
        <=> /\ Entry[m].tier # "public_only"
            /\ \A i \in DOMAIN layers : layers[i].privacy # Unset
                 => Entry[m].tier \in EligibleTiers[layers[i].privacy]
  <2>1. controls.privacy = EffectivePrivacy(layers, request.model)
    BY CanonicalFields
  <2>2. Entry[m].tier \in EligibleTiers[controls.privacy]
          <=> /\ Entry[m].tier # "public_only"
              /\ \A p \in Said(layers, "privacy") : Entry[m].tier \in EligibleTiers[p]
    BY <1>1, <2>1, TierBar
  <2>3. QED
    BY <2>2 DEF Said
<1>4. QualityRank[QualityFloor(features, controls, plan.policy)] <= quality
        <=> /\ \A f \in {"standard", RiskFloor[RiskOfClass(features.task_class)],
                         plan.policy.floor} : QualityRank[f] <= quality
            /\ \A i \in DOMAIN layers : layers[i].quality # Unset
                 => QualityRank[layers[i].quality] <= quality
            /\ \A i \in DOMAIN layers : layers[i].risk # Unset
                 => QualityRank[RiskFloor[layers[i].risk]] <= quality
  <2> HIDE DEF quality
  <2>1. QED
    BY <1>1, QualityBar DEF Said
<1>5. cost <= controls.max_cost
        <=> /\ cost <= DefaultMaxCost
            /\ \A i \in DOMAIN layers : layers[i].max_cost # Unset => cost <= layers[i].max_cost
  <2> DEFINE costs == Said(layers, "max_cost") \cup {DefaultMaxCost}
  <2>1. controls.max_cost = Min(costs)
    BY CanonicalFields
  <2>2. /\ Min(costs) \in costs /\ Min(costs) \in Nat
        /\ \A c \in costs : Min(costs) <= c /\ c \in Nat
    BY CeilingsResolved
  <2> HIDE DEF cost, costs
  <2>3. cost <= controls.max_cost <=> \A c \in costs : cost <= c
    BY <1>2, <2>1, <2>2
  <2>4. QED
    BY <2>3 DEF costs, Said
<1>6. Entry[m].latency <= controls.max_latency_ms
        <=> /\ Entry[m].latency <= DefaultMaxLatency
            /\ \A i \in DOMAIN layers : layers[i].max_latency_ms # Unset
                 => Entry[m].latency <= layers[i].max_latency_ms
  <2> DEFINE times == Said(layers, "max_latency_ms") \cup {DefaultMaxLatency}
  <2>1. controls.max_latency_ms = Min(times)
    BY CanonicalFields
  <2>2. /\ Min(times) \in times /\ Min(times) \in Nat
        /\ \A t \in times : Min(times) <= t /\ t \in Nat
    BY CeilingsResolved
  <2> HIDE DEF times
  <2>3. Entry[m].latency <= controls.max_latency_ms
          <=> \A t \in times : Entry[m].latency <= t
    BY <1>1, <2>1, <2>2
  <2>4. QED
    BY <2>3 DEF times, Said
<1>7. controls.required_capabilities \subseteq Entry[m].capabilities
        <=> /\ Detected(request) \subseteq Entry[m].capabilities
            /\ \A i \in DOMAIN layers : layers[i].required_capabilities # Unset
                 => layers[i].required_capabilities \subseteq Entry[m].capabilities
  <2>1. controls.required_capabilities
          = (UNION Said(layers, "required_capabilities")) \cup Detected(request)
    BY CanonicalFields
  <2>2. QED
    BY <2>1 DEF Said
<1>8. Entry[m].provider \notin controls.provider_deny
        <=> \A i \in DOMAIN layers : layers[i].provider_deny # Unset
              => Entry[m].provider \notin layers[i].provider_deny
  <2>1. controls.provider_deny = UNION Said(layers, "provider_deny")
    BY CanonicalFields
  <2>2. QED
    BY <2>1 DEF Said
<1>9. (controls.provider_allow # {} => Entry[m].provider \in controls.provider_allow)
        <=> (ListsMeet => Listed(m))
  <2>1. controls.provider_allow = EffectiveAllow(layers)
    BY CanonicalFields
  <2>2. QED
    BY <2>1, AllowBar DEF ListsMeet, Listed, AllowLists
<1>10. Passes(m, request, features, controls,
              QualityFloor(features, controls, plan.policy))
         <=> /\ Entry[m].tier \in EligibleTiers[controls.privacy]
             /\ controls.required_capabilities \subseteq Entry[m].capabilities
             /\ request.endpoint \in Entry[m].endpoints
             /\ WindowFits(m, request, features)
             /\ QualityRank[QualityFloor(features, controls, plan.policy)] <= quality
             /\ Entry[m].provider \notin controls.provider_deny
             /\ controls.provider_allow # {} => Entry[m].provider \in controls.provider_allow
             /\ cost <= controls.max_cost
             /\ Entry[m].latency <= controls.max_latency_ms
  BY DEF Passes, ProviderAllowed
<1>11. (\A i \in DOMAIN layers : Accepts(layers[i], m))
         <=> /\ \A i \in DOMAIN layers : layers[i].privacy # Unset
                  => Entry[m].tier \in EligibleTiers[layers[i].privacy]
             /\ \A i \in DOMAIN layers : layers[i].quality # Unset
                  => QualityRank[layers[i].quality] <= quality
             /\ \A i \in DOMAIN layers : layers[i].risk # Unset
                  => QualityRank[RiskFloor[layers[i].risk]] <= quality
             /\ \A i \in DOMAIN layers : layers[i].max_cost # Unset => cost <= layers[i].max_cost
             /\ \A i \in DOMAIN layers : layers[i].max_latency_ms # Unset
                  => Entry[m].latency <= layers[i].max_latency_ms
             /\ \A i \in DOMAIN layers : layers[i].provider_deny # Unset
                  => Entry[m].provider \notin layers[i].provider_deny
             /\ \A i \in DOMAIN layers : layers[i].required_capabilities # Unset
                  => layers[i].required_capabilities \subseteq Entry[m].capabilities
  BY Zenon DEF Accepts
<1>12. GatewayAccepts(m)
         <=> /\ Entry[m].tier # "public_only"
             /\ \A f \in {"standard", RiskFloor[RiskOfClass(features.task_class)],
                          plan.policy.floor} : QualityRank[f] <= quality
             /\ cost <= DefaultMaxCost
             /\ Entry[m].latency <= DefaultMaxLatency
             /\ Detected(request) \subseteq Entry[m].capabilities
             /\ request.endpoint \in Entry[m].endpoints
             /\ WindowFits(m, request, features)
  BY DEF GatewayAccepts
<1> HIDE DEF cost, quality, layers
<1>13. QED
  BY <1>3, <1>4, <1>5, <1>6, <1>7, <1>8, <1>9, <1>10, <1>11, <1>12, Zenon DEF layers

-----------------------------------------------------------------------------
(* The ranking.                                                            *)

(* A product of naturals is one, and grows with its factors.                 *)
LEMMA Products ==
  /\ \A a, b \in Nat : a * b \in Nat
  /\ \A a, b \in Nat \ {0} : a * b \in Nat \ {0}
  /\ \A a, b, c, d \in Nat : a <= b /\ c <= d => a * c <= b * d
  /\ \A a, b, c, d \in Nat : a < b /\ c <= d /\ d # 0 => a * c < b * d
<1>1. \A a, b \in Nat : a * b \in Nat
  OBVIOUS
<1>2. \A a, b \in Nat \ {0} : a * b \in Nat \ {0}
  OBVIOUS
<1>3. ASSUME NEW a \in Nat, NEW b \in Nat, NEW c \in Nat, NEW d \in Nat, a <= b, c <= d
      PROVE  a * c <= b * d
  <2>1. a * c <= b * c
    BY <1>3
  <2>2. b * c <= b * d
    BY <1>3
  <2>3. QED
    BY <1>1, <2>1, <2>2
<1>4. ASSUME NEW a \in Nat, NEW b \in Nat, NEW c \in Nat, NEW d \in Nat,
             a < b, c <= d, d # 0
      PROVE  a * c < b * d
  <2>1. a * c <= a * d
    BY <1>4
  <2>2. a * d < b * d
    BY <1>4
  <2>3. QED
    BY <1>1, <2>1, <2>2
<1>5. QED
  BY <1>1, <1>2, <1>3, <1>4

(* The expected number of attempts, step by step.                            *)
LEMMA AttemptsUnfold ==
  ASSUME NEW m \in Models, NEW tries \in Nat \ {0}
  PROVE  \E sum \in [1..tries -> [one : Nat, total : Nat]] :
           /\ sum[1] = [one |-> 1, total |-> 1]
           /\ \A n \in 1..tries : n # 1 =>
                sum[n] = [one   |-> Parts * sum[n - 1].one,
                          total |-> Parts * sum[n - 1].one
                                      + (Parts - Entry[m].pass) * sum[n - 1].total]
           /\ ExpectedAttempts(m, tries) = sum[tries].total
<1> DEFINE V == [one : Nat, total : Nat]
           next(x) == [one   |-> Parts * x.one,
                       total |-> Parts * x.one + (Parts - Entry[m].pass) * x.total]
           first == [one |-> 1, total |-> 1]
           step == [n \in 1..tries |-> [x \in V |-> next(x)]]
           sum[n \in 1..tries] == IF n = 1 THEN first ELSE next(sum[n - 1])
<1>1. first \in V
  OBVIOUS
<1>2. ASSUME NEW x \in V PROVE next(x) \in V
  <2>1. Parts \in Nat /\ Parts - Entry[m].pass \in Nat /\ x.one \in Nat /\ x.total \in Nat
    BY RegistryAssumption
  <2>2. Parts * x.one \in Nat /\ (Parts - Entry[m].pass) * x.total \in Nat
    BY <2>1, Products
  <2>3. QED
    BY <2>2
<1>3. step \in [1..tries -> [V -> V]] /\ V # {}
  BY <1>1, <1>2
<1>4. \E f \in [1..tries -> V] : Follows(f, 1, tries, first, step)
  <2> HIDE DEF step, first, V, next, sum
  <2>1. 1 \in Nat /\ tries \in Nat /\ 1 <= tries
    OBVIOUS
  <2>2. QED
    BY <1>1, <1>3, <2>1, Recursion
<1>5. PICK f \in [1..tries -> V] : Follows(f, 1, tries, first, step)
  BY <1>4
<1>6. f = [n \in 1..tries |-> IF n = 1 THEN first ELSE next(f[n - 1])]
  <2>1. ASSUME NEW n \in 1..tries, n # 1 PROVE step[n][f[n - 1]] = next(f[n - 1])
    <3>1. n - 1 \in 1..tries
      BY <2>1
    <3>2. f[n - 1] \in V
      BY <3>1
    <3> HIDE DEF V, next
    <3>3. QED
      BY <2>1, <3>2
  <2> HIDE DEF step, first, V, next
  <2>2. QED
    BY <1>5, <2>1 DEF Follows
<1>7. sum = [n \in 1..tries |-> IF n = 1 THEN first ELSE next(sum[n - 1])]
  <2> HIDE DEF first, next
  <2>1. QED
    BY <1>6 DEF sum
<1>8. ExpectedAttempts(m, tries) = sum[tries].total
  BY DEF ExpectedAttempts
<1> HIDE DEF sum
<1>9. sum \in [1..tries -> V]
  <2> DEFINE typed == {n \in 1..tries : sum[n] \in V}
  <2>1. 1 \in typed
    BY <1>1, <1>7
  <2>2. ASSUME NEW n \in 1..tries, n + 1 \in 1..tries, n \in typed PROVE n + 1 \in typed
    <3>1. sum[n + 1] = next(sum[n])
      <4> HIDE DEF first, next
      <4>1. n + 1 # 1 /\ (n + 1) - 1 = n
        OBVIOUS
      <4>2. QED
        BY <1>7, <2>2, <4>1
    <3> HIDE DEF V, next
    <3>2. QED
      BY <1>2, <2>2, <3>1
  <2> HIDE DEF typed
  <2>3. 1..tries \subseteq typed
    <3>1. 1 \in Nat /\ tries \in Nat
      OBVIOUS
    <3>2. QED
      BY <2>1, <2>2, <3>1, IntervalInduction
  <2> HIDE DEF first, next, V
  <2>4. \A n \in 1..tries : sum[n] \in V
    BY <2>3 DEF typed
  <2>5. QED
    BY <1>7, <2>4
<1>10. sum[1] = first
  BY <1>7
<1>11. \A n \in 1..tries : n # 1 => sum[n] = next(sum[n - 1])
  <2> HIDE DEF first, next
  <2>1. QED
    BY <1>7
<1>12. QED
  BY <1>8, <1>9, <1>10, <1>11

(* The likelier a model is to pass, the fewer attempts it is expected to take,
   and never less than one.                                                 *)
LEMMA AttemptsOrdered ==
  ASSUME NEW a \in Models, NEW b \in Models, Entry[b].pass <= Entry[a].pass,
         NEW tries \in Nat \ {0}
  PROVE  /\ ExpectedAttempts(a, tries) \in Nat \ {0}
         /\ ExpectedAttempts(b, tries) \in Nat \ {0}
         /\ ExpectedAttempts(a, tries) <= ExpectedAttempts(b, tries)
<1> DEFINE miss(m) == Parts - Entry[m].pass
<1>1. PICK s \in [1..tries -> [one : Nat, total : Nat]] :
        /\ s[1] = [one |-> 1, total |-> 1]
        /\ \A n \in 1..tries : n # 1 =>
             s[n] = [one   |-> Parts * s[n - 1].one,
                     total |-> Parts * s[n - 1].one + miss(a) * s[n - 1].total]
        /\ ExpectedAttempts(a, tries) = s[tries].total
  BY AttemptsUnfold
<1>2. PICK t \in [1..tries -> [one : Nat, total : Nat]] :
        /\ t[1] = [one |-> 1, total |-> 1]
        /\ \A n \in 1..tries : n # 1 =>
             t[n] = [one   |-> Parts * t[n - 1].one,
                     total |-> Parts * t[n - 1].one + miss(b) * t[n - 1].total]
        /\ ExpectedAttempts(b, tries) = t[tries].total
  BY AttemptsUnfold
<1>3. Parts \in Nat \ {0} /\ miss(a) \in Nat /\ miss(b) \in Nat /\ miss(a) <= miss(b)
  <2>1. Parts \in Nat \ {0} /\ Entry[a].pass \in 0..Parts /\ Entry[b].pass \in 0..Parts
    BY RegistryAssumption
  <2>2. ASSUME NEW x \in 0..Parts, NEW y \in 0..Parts, y <= x
        PROVE  Parts - x \in Nat /\ Parts - y \in Nat /\ Parts - x <= Parts - y
    BY <2>1, <2>2
  <2>3. QED
    BY <2>1, <2>2
<1> DEFINE good == {n \in 1..tries : /\ s[n].one = t[n].one /\ 1 <= s[n].one
                                     /\ 1 <= s[n].total /\ s[n].total <= t[n].total}
<1>4. 1 \in good
  BY <1>1, <1>2
<1>5. ASSUME NEW n \in 1..tries, n + 1 \in 1..tries, n \in good PROVE n + 1 \in good
  <2>1. /\ s[n].one \in Nat /\ s[n].total \in Nat /\ t[n].one \in Nat /\ t[n].total \in Nat
    OBVIOUS
  <2>2. /\ s[n].one = t[n].one /\ 1 <= s[n].one
        /\ 1 <= s[n].total /\ s[n].total <= t[n].total
    BY <1>5
  <2>3. n + 1 # 1 /\ (n + 1) - 1 = n
    OBVIOUS
  <2>4. /\ s[n + 1] = [one   |-> Parts * s[n].one,
                       total |-> Parts * s[n].one + miss(a) * s[n].total]
        /\ t[n + 1] = [one   |-> Parts * t[n].one,
                       total |-> Parts * t[n].one + miss(b) * t[n].total]
    <3> HIDE DEF miss
    <3>1. QED
      BY <1>1, <1>2, <1>5, <2>3
  <2> DEFINE unit == Parts * s[n].one
             more == miss(a) * s[n].total
             most == miss(b) * t[n].total
  <2>5. unit \in Nat \ {0} /\ more \in Nat /\ most \in Nat /\ more <= most
    <3>1. s[n].one \in Nat \ {0}
      BY <2>1, <2>2
    <3> HIDE DEF miss
    <3>2. unit \in Nat \ {0}
      BY <1>3, <3>1, Products
    <3>3. more \in Nat /\ most \in Nat
      BY <1>3, <2>1, Products
    <3>4. more <= most
      BY <1>3, <2>1, <2>2, Products
    <3>5. QED
      BY <3>2, <3>3, <3>4
  <2>6. /\ s[n + 1].one = unit /\ s[n + 1].total = unit + more
        /\ t[n + 1].one = unit /\ t[n + 1].total = unit + most
    BY <2>2, <2>4
  <2> HIDE DEF unit, more, most
  <2>7. 1 <= unit /\ 1 <= unit + more /\ unit + more <= unit + most
    BY <2>5
  <2>8. /\ s[n + 1].one = t[n + 1].one /\ 1 <= s[n + 1].one
        /\ 1 <= s[n + 1].total /\ s[n + 1].total <= t[n + 1].total
    BY <2>6, <2>7, Zenon
  <2>9. QED
    BY <1>5, <2>8
<1> HIDE DEF good
<1>6. 1..tries \subseteq good
  <2>1. 1 \in Nat /\ tries \in Nat
    OBVIOUS
  <2>2. QED
    BY <1>4, <1>5, <2>1, IntervalInduction
<1>7. tries \in good
  BY <1>6
<1>8. s[tries].total \in Nat /\ t[tries].total \in Nat
  OBVIOUS
<1>9. QED
  BY <1>1, <1>2, <1>7, <1>8 DEF good

\* What BestFirst calls the merits of a model, and one model beating another.
Merits(m, req, feat) ==
  <<-EstimateCost(m, req, feat), -Entry[m].latency, Entry[m].pass, -Entry[m].failure>>
Outdoes(a, b, req, feat) ==
  /\ Merits(a, req, feat) # Merits(b, req, feat)
  /\ \A k \in 1..4 : Merits(b, req, feat)[k] <= Merits(a, req, feat)[k]

(* A model's cost is a natural number.                                       *)
LEMMA CostType ==
  ASSUME NEW req \in Requests, NEW m \in Models, NEW feat, feat.output \in Nat
  PROVE  EstimateCost(m, req, feat) \in Nat
<1>1. /\ req.input \in Nat /\ Entry[m].input_price \in Nat /\ Entry[m].output_price \in Nat
      /\ Entry[m].fee \in Nat
  BY RegistryAssumption, RequestAssumption
<1>2. req.input * Entry[m].input_price \in Nat /\ feat.output * Entry[m].output_price \in Nat
  BY <1>1, Products
<1>3. QED
  BY <1>1, <1>2 DEF EstimateCost

(* What is scored of a model is a natural number; of a model that outdoes
   another none is more, and one is less.                                   *)
LEMMA MeasuresOrdered ==
  ASSUME NEW req \in Requests, NEW feat, feat.output \in Nat, NEW tries \in Nat \ {0},
         NEW a \in Models, NEW b \in Models
  PROVE  LET x == Measures(a, req, feat, tries)
             y == Measures(b, req, feat, tries)
         IN  /\ \A c \in Criteria : x[c] \in Nat
             /\ Outdoes(a, b, req, feat) =>
                  /\ \A c \in Criteria : x[c] <= y[c]
                  /\ \E c \in Criteria : x[c] < y[c]
<1> DEFINE x == Measures(a, req, feat, tries)
           y == Measures(b, req, feat, tries)
           cost(m) == EstimateCost(m, req, feat)
           tried(m) == ExpectedAttempts(m, tries)
<1>1. \A m \in Models : /\ cost(m) \in Nat /\ Entry[m].latency \in Nat
                        /\ Entry[m].pass \in 0..Parts /\ Entry[m].failure \in 0..Parts
                        /\ Parts \in Nat
  BY CostType, RegistryAssumption
<1>2. \A m \in Models : tried(m) \in Nat \ {0}
  <2>1. SUFFICES ASSUME NEW m \in Models PROVE tried(m) \in Nat \ {0}
    OBVIOUS
  <2>2. Entry[m].pass <= Entry[m].pass
    BY <1>1
  <2>3. QED
    BY <2>2, AttemptsOrdered
<1>3. \A c \in Criteria : x[c] \in Nat
  <2>1. cost(a) * tried(a) \in Nat
    <3> HIDE DEF cost, tried
    <3>1. QED
      BY <1>1, <1>2, Products
  <2>2. x.cost = cost(a) * tried(a) /\ x.latency = Entry[a].latency
        /\ x.quality = Parts - Entry[a].pass /\ x.failure = Entry[a].failure
    BY DEF Measures
  <2> HIDE DEF cost, tried, x
  <2>3. QED
    BY <1>1, <2>1, <2>2 DEF Criteria
<1>4. ASSUME Outdoes(a, b, req, feat)
      PROVE  /\ \A c \in Criteria : x[c] <= y[c]
             /\ \E c \in Criteria : x[c] < y[c]
  <2>1. /\ cost(a) <= cost(b) /\ Entry[a].latency <= Entry[b].latency
        /\ Entry[b].pass <= Entry[a].pass /\ Entry[a].failure <= Entry[b].failure
        /\ \/ cost(a) < cost(b) \/ Entry[a].latency < Entry[b].latency
           \/ Entry[b].pass < Entry[a].pass \/ Entry[a].failure < Entry[b].failure
    <3> HIDE DEF cost
    <3> DEFINE p == Merits(a, req, feat)
               q == Merits(b, req, feat)
    <3>1. p = <<-cost(a), -Entry[a].latency, Entry[a].pass, -Entry[a].failure>>
          /\ q = <<-cost(b), -Entry[b].latency, Entry[b].pass, -Entry[b].failure>>
      BY DEF Merits, cost
    <3>2. p # q /\ \A k \in 1..4 : q[k] <= p[k]
      BY <1>4 DEF Outdoes
    <3>3. q[1] <= p[1] /\ q[2] <= p[2] /\ q[3] <= p[3] /\ q[4] <= p[4]
      BY <3>2
    <3> HIDE DEF p, q
    <3>4. \/ p[1] # q[1] \/ p[2] # q[2] \/ p[3] # q[3] \/ p[4] # q[4]
      BY <3>1, <3>2
    <3>5. QED
      BY <1>1, <3>1, <3>3, <3>4
  <2>2. tried(a) <= tried(b)
    BY <2>1, AttemptsOrdered
  <2>3. cost(a) * tried(a) <= cost(b) * tried(b)
        /\ (cost(a) < cost(b) => cost(a) * tried(a) < cost(b) * tried(b))
    <3> HIDE DEF cost, tried
    <3>1. QED
      BY <1>1, <1>2, <2>1, <2>2, Products
  <2>4. x.cost = cost(a) * tried(a) /\ x.latency = Entry[a].latency
        /\ x.quality = Parts - Entry[a].pass /\ x.failure = Entry[a].failure
    BY DEF Measures
  <2>5. y.cost = cost(b) * tried(b) /\ y.latency = Entry[b].latency
        /\ y.quality = Parts - Entry[b].pass /\ y.failure = Entry[b].failure
    BY DEF Measures
  <2> DEFINE s == cost(a) * tried(a)
             t == cost(b) * tried(b)
  <2> HIDE DEF x, y, s, t
  <2>6. /\ x.cost <= y.cost /\ x.latency <= y.latency
        /\ x.quality <= y.quality /\ x.failure <= y.failure
        /\ \/ x.cost < y.cost \/ x.latency < y.latency
           \/ x.quality < y.quality \/ x.failure < y.failure
    BY <1>1, <2>1, <2>3, <2>4, <2>5 DEF s, t
  <2>7. QED
    BY <2>6 DEF Criteria
<1>5. QED
  BY <1>3, <1>4

(* Scores are natural numbers, and a model that outdoes another scores less: each
   of its four parts is no more, and one is less, as every weight counts.    *)
LEMMA ScoresOrdered ==
  ASSUME NEW req \in Requests, NEW feat, feat.output \in Nat, NEW tries \in Nat \ {0},
         NEW models \in SUBSET Models, NEW weights,
         \A c \in Criteria : weights[c] \in Nat \ {0}
  PROVE  LET score == Scores(models, req, feat, weights, tries)
         IN  /\ \A m \in models : score[m] \in Nat
             /\ \A a, b \in models : Outdoes(a, b, req, feat) => score[a] < score[b]
<1> DEFINE measure == [m \in models |-> Measures(m, req, feat, tries)]
           low  == [c \in Criteria |-> Min({measure[m][c] : m \in models})]
           span == [c \in Criteria |-> Max({1} \cup {measure[m][c] - low[c] : m \in models})]
           rest == OtherSpans(span)
           part(m, c) == weights[c] * rest[c] * (measure[m][c] - low[c])
           score == Scores(models, req, feat, weights, tries)
<1>1. score = [m \in models |-> part(m, "cost") + part(m, "latency")
                                  + part(m, "quality") + part(m, "failure")]
  BY DEF Scores
<1>2. /\ \A m \in models : \A c \in Criteria : measure[m][c] \in Nat
      /\ \A a, b \in models : Outdoes(a, b, req, feat) =>
           /\ \A c \in Criteria : measure[a][c] <= measure[b][c]
           /\ \E c \in Criteria : measure[a][c] < measure[b][c]
  BY MeasuresOrdered
<1> HIDE DEF measure
<1>3. \A m \in models : \A c \in Criteria : low[c] \in Nat /\ low[c] <= measure[m][c]
  <2>1. SUFFICES ASSUME NEW m \in models, NEW c \in Criteria
                 PROVE  low[c] \in Nat /\ low[c] <= measure[m][c]
    OBVIOUS
  <2> DEFINE values == {measure[n][c] : n \in models}
  <2>2. values \in SUBSET Nat /\ values # {} /\ measure[m][c] \in values
    BY <1>2
  <2> HIDE DEF values
  <2>3. Min(values) \in values /\ \A v \in values : Min(values) <= v
    BY <2>2, MinOf
  <2>4. low[c] = Min(values)
    BY DEF values
  <2> HIDE DEF low
  <2>5. QED
    BY <2>2, <2>3, <2>4
<1> HIDE DEF low
<1>4. \A c \in Criteria : span[c] \in Nat \ {0}
  <2>1. SUFFICES ASSUME NEW c \in Criteria PROVE span[c] \in Nat \ {0}
    OBVIOUS
  <2> DEFINE gap == [m \in models |-> measure[m][c] - low[c]]
             gaps == {measure[m][c] - low[c] : m \in models}
             all == {1} \cup gaps
  <2>2. gaps \in SUBSET Nat
    BY <1>2, <1>3
  <2>3. IsFiniteSet(models)
    BY RegistryAssumption, FS_Subset
  <2>4. gap \in Surjection(models, gaps)
    BY DEF Surjection
  <2>5. IsFiniteSet(gaps)
    BY <2>3, <2>4, FS_Surjection
  <2>6. IsFiniteSet(gaps \cup {1})
    <3> HIDE DEF gaps
    <3>1. QED
      BY <2>5, FS_AddElement
  <2>7. gaps \cup {1} = all
    OBVIOUS
  <2>8. all \in SUBSET Nat /\ all # {} /\ 1 \in all
    BY <2>2
  <2>9. span[c] = Max(all)
    OBVIOUS
  <2> HIDE DEF all, span, gaps
  <2>10. Max(all) \in all /\ \A v \in all : v <= Max(all)
    BY <2>6, <2>7, <2>8, MaxOf
  <2>11. Max(all) \in Nat /\ 1 <= Max(all)
    BY <2>8, <2>10
  <2>12. QED
    BY <2>9, <2>11
<1> HIDE DEF span
<1>5. \A c \in Criteria : rest[c] \in Nat \ {0}
  <2>1. /\ span.cost \in Nat \ {0} /\ span.latency \in Nat \ {0}
        /\ span.quality \in Nat \ {0} /\ span.failure \in Nat \ {0}
    BY <1>4 DEF Criteria
  <2>2. \A x, y, z \in Nat \ {0} : x * y * z \in Nat \ {0}
    BY Products
  <2>3. /\ rest.cost \in Nat \ {0} /\ rest.latency \in Nat \ {0}
        /\ rest.quality \in Nat \ {0} /\ rest.failure \in Nat \ {0}
    BY <2>1, <2>2 DEF OtherSpans
  <2> HIDE DEF rest
  <2>4. QED
    BY <2>3 DEF Criteria
<1> HIDE DEF rest
<1>6. \A c \in Criteria : weights[c] * rest[c] \in Nat \ {0}
  BY <1>5, Products
<1>7. \A m \in models : \A c \in Criteria : part(m, c) \in Nat
  <2>1. SUFFICES ASSUME NEW m \in models, NEW c \in Criteria PROVE part(m, c) \in Nat
    OBVIOUS
  <2>2. measure[m][c] - low[c] \in Nat
    BY <1>2, <1>3
  <2>3. weights[c] * rest[c] \in Nat
    BY <1>6
  <2>4. QED
    BY <2>2, <2>3, Products
<1>8. ASSUME NEW a \in models, NEW b \in models, NEW c \in Criteria,
             measure[a][c] <= measure[b][c]
      PROVE  /\ part(a, c) <= part(b, c)
             /\ measure[a][c] < measure[b][c] => part(a, c) < part(b, c)
  <2> DEFINE w == weights[c] * rest[c]
             x == measure[a][c] - low[c]
             y == measure[b][c] - low[c]
  <2>1. /\ x \in Nat /\ y \in Nat /\ x <= y
        /\ measure[a][c] < measure[b][c] => x < y
    BY <1>2, <1>3, <1>8
  <2>2. w \in Nat \ {0}
    BY <1>6
  <2>3. part(a, c) = w * x /\ part(b, c) = w * y
    OBVIOUS
  <2>4. \A u \in Nat \ {0} : \A i, j \in Nat :
          (i <= j => u * i <= u * j) /\ (i < j => u * i < u * j)
    OBVIOUS
  <2> HIDE DEF w, x, y, part
  <2>5. QED
    BY <2>1, <2>2, <2>3, <2>4
<1> HIDE DEF part
<1>9. {"cost", "latency", "quality", "failure"} = Criteria
  BY DEF Criteria
<1>10. \A m \in models : score[m] \in Nat
  BY <1>1, <1>7, <1>9
<1>11. ASSUME NEW a \in models, NEW b \in models, Outdoes(a, b, req, feat)
       PROVE  score[a] < score[b]
  <2>1. PICK c \in Criteria : measure[a][c] < measure[b][c]
    BY <1>2, <1>11
  <2>2. \A d \in Criteria : part(a, d) <= part(b, d)
    BY <1>2, <1>8, <1>11
  <2>3. part(a, c) < part(b, c)
    BY <1>2, <1>8, <1>11, <2>1
  <2>4. /\ part(a, "cost") <= part(b, "cost") /\ part(a, "latency") <= part(b, "latency")
        /\ part(a, "quality") <= part(b, "quality") /\ part(a, "failure") <= part(b, "failure")
        /\ \/ part(a, "cost") < part(b, "cost") \/ part(a, "latency") < part(b, "latency")
           \/ part(a, "quality") < part(b, "quality")
           \/ part(a, "failure") < part(b, "failure")
    BY <1>9, <2>2, <2>3
  <2>5. \A m \in {a, b} : /\ part(m, "cost") \in Nat /\ part(m, "latency") \in Nat
                          /\ part(m, "quality") \in Nat /\ part(m, "failure") \in Nat
                          /\ score[m] = part(m, "cost") + part(m, "latency")
                                          + part(m, "quality") + part(m, "failure")
    BY <1>1, <1>7, <1>9
  <2> HIDE DEF score
  <2>6. QED
    BY <2>4, <2>5
<1>12. QED
  BY <1>10, <1>11

(* Ranking leaves nobody out and adds nobody, and nobody stands behind a model
   that it outdoes.                                                         *)
LEMMA RankOf ==
  ASSUME NEW req \in Requests, NEW feat, feat.output \in Nat, NEW tries \in Nat \ {0},
         NEW models \in SUBSET Models, NEW weights,
         \A c \in Criteria : weights[c] \in Nat \ {0}
  PROVE  LET ranked == Rank(models, req, feat, weights, tries)
         IN  /\ ranked \in Seq(models)
             /\ Range(ranked) = models
             /\ \A i, j \in DOMAIN ranked :
                  i < j => ~Outdoes(ranked[j], ranked[i], req, feat)
<1> DEFINE score == Scores(models, req, feat, weights, tries)
           cost(m) == EstimateCost(m, req, feat)
           Before(a, b) ==
             \/ score[a] < score[b]
             \/ score[a] = score[b] /\ cost(a) < cost(b)
             \/ score[a] = score[b] /\ cost(a) = cost(b) /\ Entry[a].id < Entry[b].id
           R == {p \in models \X models : Before(p[1], p[2])}
           ahead(m) == Cardinality({n \in models : Before(n, m)})
           ranked == Rank(models, req, feat, weights, tries)
<1>1. /\ \A m \in models : score[m] \in Nat
      /\ \A a, b \in models : Outdoes(a, b, req, feat) => score[a] < score[b]
  BY ScoresOrdered
<1>2. \A m \in models : cost(m) \in Nat /\ Entry[m].id \in Nat
  BY CostType, RegistryAssumption
<1>3. \A m, n \in models : Entry[m].id = Entry[n].id => m = n
  BY RegistryAssumption
<1>4. IsFiniteSet(models) /\ Cardinality(models) \in Nat
  BY RegistryAssumption, FS_Subset, FS_CardinalityType
<1>5. ranked = [k \in 1..Cardinality(models) |-> CHOOSE m \in models : ahead(m) = k - 1]
  BY DEF Rank
<1> HIDE DEF score, cost
<1>6. \A a, b \in models : <<a, b>> \in R <=> Before(a, b)
  OBVIOUS
<1>7. \A m \in models : Ahead(models, R, m) = ahead(m)
  <2>1. SUFFICES ASSUME NEW m \in models PROVE Ahead(models, R, m) = ahead(m)
    OBVIOUS
  <2>2. {n \in models : <<n, m>> \in R} = {n \in models : Before(n, m)}
    BY <1>6
  <2>3. QED
    BY <2>2 DEF Ahead
<1>8. \A k \in 1..Cardinality(models) : \A m \in models :
        Ahead(models, R, m) = k - 1 =>
          ranked[k] \in models /\ Ahead(models, R, ranked[k]) = k - 1
  <2> HIDE DEF ahead, R
  <2>1. QED
    BY <1>5, <1>7
<1>9. /\ \A a \in models : ~Before(a, a)
      /\ \A a, b, c \in models : Before(a, b) /\ Before(b, c) => Before(a, c)
      /\ \A a, b \in models : a = b \/ Before(a, b) \/ Before(b, a)
  BY <1>1, <1>2, <1>3
<1>10. \A a, b \in models : Outdoes(a, b, req, feat) => Before(a, b)
  BY <1>1
<1> HIDE DEF Before
<1>11. /\ \A a \in models : <<a, a>> \notin R
       /\ \A a, b, c \in models : <<a, b>> \in R /\ <<b, c>> \in R => <<a, c>> \in R
       /\ \A a, b \in models : a = b \/ <<a, b>> \in R \/ <<b, a>> \in R
  BY <1>6, <1>9
<1> HIDE DEF R
<1>12. /\ ranked \in [1..Cardinality(models) -> models]
       /\ \A m \in models : \E k \in 1..Cardinality(models) : ranked[k] = m
       /\ \A i, j \in 1..Cardinality(models) : i < j => <<ranked[j], ranked[i]>> \notin R
  <2>1. ranked = [k \in 1..Cardinality(models) |-> ranked[k]]
    BY <1>5
  <2> HIDE DEF ranked
  <2>2. QED
    BY <1>4, <1>8, <1>11, <2>1, Ranking
<1> HIDE DEF ranked
<1>13. ranked \in Seq(models) /\ DOMAIN ranked = 1..Cardinality(models)
  BY <1>4, <1>12
<1>14. Range(ranked) = models
  BY <1>12, <1>13 DEF Range
<1>15. ASSUME NEW i \in DOMAIN ranked, NEW j \in DOMAIN ranked, i < j,
              Outdoes(ranked[j], ranked[i], req, feat)
       PROVE  FALSE
  <2>1. ranked[i] \in models /\ ranked[j] \in models
    BY <1>12, <1>13
  <2>2. <<ranked[j], ranked[i]>> \in R
    BY <1>6, <1>10, <1>15, <2>1
  <2>3. QED
    BY <1>12, <1>13, <1>15, <2>2
<1>16. QED
  BY <1>13, <1>14, <1>15 DEF ranked

(* Of a ranking either all is kept, or one model: the named one where it is
   among them.                                                              *)
LEMMA ChosenOf ==
  ASSUME NEW models, NEW ranked \in Seq(models), NEW req, NEW ctl,
         ctl.allow_fallback \in BOOLEAN
  PROVE  LET chosen == Chosen(ranked, req, ctl)
         IN  /\ chosen \in Seq(models)
             /\ Range(chosen) \subseteq Range(ranked)
             /\ Range(chosen) = {} => Range(ranked) = {}
             /\ chosen = ranked \/ \A i, j \in DOMAIN chosen : ~(i < j)
             /\ req.model \in Selectors => chosen = ranked
             /\ req.model \in Range(ranked) \ Selectors => Range(chosen) = {req.model}
<1> DEFINE kept == IF req.model \in Range(ranked) THEN <<req.model>> ELSE ranked
           chosen == Chosen(ranked, req, ctl)
           best == SubSeq(kept, 1, Min({1, Len(kept)}))
<1>1. \A k \in DOMAIN ranked : ranked[k] \in models
  OBVIOUS
<1>2. CASE req.model \in Selectors
  BY <1>2 DEF Chosen, Range
<1>3. CASE req.model \notin Selectors /\ req.model \in Range(ranked)
  <2>1. kept = <<req.model>> /\ req.model \in models
    BY <1>1, <1>3 DEF Range
  <2>2. Len(kept) = 1
    BY <2>1
  <2>3. Min({1, Len(kept)}) = 1
    <3>1. {1, Len(kept)} = {1}
      BY <2>2
    <3>2. {1} \in SUBSET Nat /\ {1} # {}
      OBVIOUS
    <3>3. Min({1}) \in {1}
      BY <3>2, MinOf
    <3>4. QED
      BY <3>1, <3>3
  <2>4. best = <<req.model>>
    <3> DEFINE one == <<req.model>>
    <3>1. one \in Seq({req.model}) /\ Len(one) = 1 /\ one[1] = req.model
      OBVIOUS
    <3>2. best = SubSeq(one, 1, 1)
      BY <2>1, <2>3
    <3> HIDE DEF one
    <3>3. SubSeq(one, 1, 1) = [i \in 1..1 |-> one[i]]
      BY <3>1
    <3>4. one = [i \in 1..1 |-> one[i]]
      BY <3>1
    <3>5. QED
      BY <3>2, <3>3, <3>4 DEF one
  <2>5. chosen = <<req.model>>
    BY <1>3, <2>1, <2>4 DEF Chosen
  <2>6. chosen \in Seq(models) /\ DOMAIN chosen = {1} /\ chosen[1] = req.model
    BY <2>1, <2>5
  <2> HIDE DEF chosen
  <2>7. Range(chosen) = {req.model}
    BY <2>6 DEF Range
  <2>8. \A i, j \in DOMAIN chosen : ~(i < j)
    BY <2>6
  <2>9. QED
    BY <1>3, <2>6, <2>7, <2>8 DEF chosen
<1>4. CASE req.model \notin Selectors /\ req.model \notin Range(ranked)
  <2>1. kept = ranked
    BY <1>4
  <2>2. CASE ctl.allow_fallback
    <3>1. chosen = ranked
      BY <1>4, <2>1, <2>2 DEF Chosen
    <3> HIDE DEF chosen
    <3>2. QED
      BY <1>4, <3>1 DEF chosen
  <2>3. CASE ~ctl.allow_fallback
    <3>1. chosen = SubSeq(ranked, 1, Min({1, Len(ranked)}))
      BY <1>4, <2>1, <2>3 DEF Chosen
    <3>2. Len(ranked) \in Nat /\ DOMAIN ranked = 1..Len(ranked)
      OBVIOUS
    <3>3. /\ Min({1, Len(ranked)}) \in {1, Len(ranked)}
          /\ \A x \in {1, Len(ranked)} : Min({1, Len(ranked)}) <= x
      <4>1. {1, Len(ranked)} \in SUBSET Nat /\ {1, Len(ranked)} # {}
        BY <3>2
      <4>2. QED
        BY <4>1, MinOf
    <3> DEFINE n == Min({1, Len(ranked)})
    <3>4. n \in 0..1 /\ n <= Len(ranked) /\ (Len(ranked) # 0 => n = 1)
      BY <3>2, <3>3
    <3> HIDE DEF chosen, n
    <3>5. chosen \in Seq(models) /\ Len(chosen) = n /\ DOMAIN chosen = 1..n
          /\ \A k \in 1..n : chosen[k] = ranked[k]
      <4>1. chosen = SubSeq(ranked, 1, n) /\ n \in Nat
        BY <3>1, <3>4 DEF n
      <4>2. chosen = [k \in 1..n |-> ranked[k]]
        BY <4>1
      <4>3. chosen \in [1..n -> models]
        BY <1>1, <3>2, <3>4, <4>2
      <4>4. n \in Nat
        BY <4>1
      <4>5. chosen \in Seq(models) /\ Len(chosen) = n
        BY <4>3, <4>4
      <4>6. QED
        BY <4>2, <4>3, <4>5
    <3>6. Range(chosen) \subseteq Range(ranked)
      BY <3>2, <3>4, <3>5 DEF Range
    <3>7. Range(chosen) = {} => Range(ranked) = {}
      <4>1. CASE n = 1
        <5>1. 1 \in DOMAIN chosen
          BY <3>5, <4>1
        <5>2. chosen[1] \in Range(chosen)
          BY <5>1 DEF Range
        <5>3. QED
          BY <5>2
      <4>2. CASE n # 1
        <5>1. DOMAIN ranked = {}
          BY <3>2, <3>4, <4>2
        <5>2. QED
          BY <5>1 DEF Range
      <4>3. QED
        BY <4>1, <4>2
    <3>8. \A i, j \in DOMAIN chosen : ~(i < j)
      BY <3>4, <3>5
    <3>9. QED
      BY <1>4, <3>5, <3>6, <3>7, <3>8 DEF chosen
  <2>4. QED
    BY <2>2, <2>3
<1>5. QED
  BY <1>2, <1>3, <1>4

-----------------------------------------------------------------------------
(* What each step froze, and what a request must have been to be served as it
   is.  The code passes each of these on as an immutable value; that nothing
   later is read in its place is what the invariant says.                   *)
EarlyStages == {"received", "model_not_found"}

ControlsFrozen ==
  controls = IF stage \in EarlyStages THEN Nothing ELSE Canonical(request)

FeaturesFrozen ==
  features = IF stage \in EarlyStages \cup {"prepared"} THEN Nothing
             ELSE Features(request, controls)

SnapshotFrozen ==
  IF stage \in EarlyStages \cup {"prepared", "classified"} THEN snapshot = {}
  ELSE snapshot \in Registries

PlanFrozen ==
  Planned => \E active \in PolicySets :
               plan = PlanOf(snapshot, request, features, controls,
                             ActiveFor(active, features.task_class))

ServedAs ==
  /\ stage \in ServedStages => Routed
  /\ stage = "whole" => ~request.stream
  /\ stage \in {"buffered", "passthrough"} => request.stream
  /\ stage = "passthrough" => ~MustBuffer

Frozen == /\ stage \in Stages /\ request \in Requests
          /\ ControlsFrozen /\ FeaturesFrozen /\ SnapshotFrozen /\ PlanFrozen /\ ServedAs

(* No action changes what an earlier one froze.                              *)
THEOREM FrozenInvariant == Spec => []Frozen
<1> USE DEF EarlyStages, Stages, PlannedStages, ServedStages, Planned
<1>1. Init => Frozen
  BY DEF Init, Frozen, ControlsFrozen, FeaturesFrozen, SnapshotFrozen, PlanFrozen, ServedAs
<1>2. Frozen /\ [Next]_vars => Frozen'
  <2> SUFFICES ASSUME Frozen, [Next]_vars PROVE Frozen'
    OBVIOUS
  <2> USE DEF Frozen
  <2>1. CASE RejectUnknownModel
    BY <2>1 DEF RejectUnknownModel, ControlsFrozen, FeaturesFrozen, SnapshotFrozen, PlanFrozen,
                ServedAs
  <2>2. CASE Prepare
    BY <2>2 DEF Prepare, ControlsFrozen, FeaturesFrozen, SnapshotFrozen, PlanFrozen, ServedAs
  <2>3. CASE Classify
    BY <2>3 DEF Classify, ControlsFrozen, FeaturesFrozen, SnapshotFrozen, PlanFrozen, ServedAs
  <2>4. CASE TakeSnapshot
    BY <2>4 DEF TakeSnapshot, ControlsFrozen, FeaturesFrozen, SnapshotFrozen, PlanFrozen,
                ServedAs
  <2>5. CASE BuildPlan
    BY <2>5 DEF BuildPlan, ControlsFrozen, FeaturesFrozen, SnapshotFrozen, PlanFrozen, ServedAs
  <2>6. ASSUME NEW as \in {"requires_buffering", "no_route", "whole", "buffered", "passthrough"},
               NEW STATE when, Serve(as, when), as \in ServedStages => Routed,
               as = "whole" => ~request.stream,
               as \in {"buffered", "passthrough"} => request.stream,
               as = "passthrough" => ~MustBuffer
        PROVE  Frozen'
    <3>1. stage = "planned" /\ stage' = as
          /\ UNCHANGED <<request, controls, features, snapshot, plan>>
      BY <2>6 DEF Serve
    <3>2. ControlsFrozen' /\ FeaturesFrozen' /\ SnapshotFrozen'
      BY <3>1 DEF ControlsFrozen, FeaturesFrozen, SnapshotFrozen
    <3>3. PlanFrozen'
      BY <3>1 DEF PlanFrozen
    <3>4. ServedAs'
      BY <2>6, <3>1 DEF ServedAs, Routed, Judged, MustBuffer
    <3>5. QED
      BY <3>1, <3>2, <3>3, <3>4
  <2>7. CASE RejectStream
    BY <2>6, <2>7 DEF RejectStream
  <2>8. CASE NoRoute
    BY <2>6, <2>8 DEF NoRoute
  <2>9. CASE ServeWhole
    BY <2>6, <2>9 DEF ServeWhole, Serve
  <2>10. CASE ServeBuffered
    BY <2>6, <2>10 DEF ServeBuffered, Serve
  <2>11. CASE ServeStream
    BY <2>6, <2>11 DEF ServeStream, Serve
  <2>12. CASE UNCHANGED vars
    BY <2>12 DEF vars, ControlsFrozen, FeaturesFrozen, SnapshotFrozen, PlanFrozen, ServedAs,
                 Routed, Judged, MustBuffer
  <2>13. QED
    BY <2>1, <2>2, <2>3, <2>4, <2>5, <2>7, <2>8, <2>9, <2>10, <2>11, <2>12 DEF Next
<1>3. QED
  BY <1>1, <1>2, PTL DEF Spec

-----------------------------------------------------------------------------
(* The plan.                                                               *)

(* Whatever the policy and the mode, only validators there are get planned.   *)
LEMMA ValidatorsKnown ==
  ASSUME NEW req, NEW feat, NEW ctl, NEW policy,
         policy.validators \subseteq AvailableValidators,
         ctl.validation \in ValidationModes
  PROVE  ValidationPlan(req, feat, ctl, policy) \subseteq AvailableValidators
<1> DEFINE planned == policy.validators \cup (IF HasSchema(req) THEN {"schema_check"} ELSE {})
<1>1. planned \subseteq AvailableValidators
  BY DEF AvailableValidators
<1>2. "independent_review" \in AvailableValidators
  BY DEF AvailableValidators
<1> HIDE DEF planned
<1>3. ByMode(planned, ctl.validation) \subseteq AvailableValidators
  BY <1>1, <1>2 DEF ByMode, ValidationModes
<1>4. QED
  BY <1>2, <1>3 DEF ValidationPlan, planned

(* The fewer of the attempts the policy and the parties allow.               *)
LEMMA TriesOf ==
  ASSUME NEW policy, NEW ctl, policy.attempts \in 1..5, ctl.max_attempts \in 1..5
  PROVE  /\ Tries(policy, ctl) \in 1..5
         /\ Tries(policy, ctl) <= policy.attempts
         /\ Tries(policy, ctl) <= ctl.max_attempts
<1> DEFINE caps == {policy.attempts, ctl.max_attempts}
<1>1. caps \in SUBSET Nat /\ caps # {} /\ caps \subseteq 1..5
  OBVIOUS
<1>2. policy.attempts \in caps /\ ctl.max_attempts \in caps /\ Tries(policy, ctl) = Min(caps)
  BY DEF Tries
<1> HIDE DEF caps
<1>3. Min(caps) \in caps /\ \A c \in caps : Min(caps) <= c
  BY <1>1, MinOf
<1>4. QED
  BY <1>1, <1>2, <1>3

(* What a plan holds.                                                        *)
LEMMA PlanFacts ==
  ASSUME Frozen, Planned
  PROVE  /\ request \in Requests /\ snapshot \in SUBSET Models
         /\ controls = Canonical(request) /\ features = Features(request, controls)
         /\ plan.policy.floor \in DOMAIN QualityRank
         /\ plan.validators = ValidationPlan(request, features, controls, plan.policy)
         /\ plan.validators \subseteq AvailableValidators
         /\ plan.max_attempts \in 1..5
         /\ plan.max_attempts <= plan.policy.attempts
         /\ plan.max_attempts <= controls.max_attempts
         /\ \E ranked \in Seq(snapshot) :
              /\ plan.candidates = Chosen(ranked, request, controls)
              /\ Range(ranked) = Acceptable
              /\ \A i, j \in DOMAIN ranked :
                   i < j => ~Outdoes(ranked[j], ranked[i], request, features)
<1>1. /\ request \in Requests /\ snapshot \in SUBSET Models
      /\ controls = Canonical(request) /\ features = Features(request, controls)
  <2>1. stage \notin EarlyStages \cup {"prepared", "classified"}
    BY DEF Planned, PlannedStages, ServedStages, EarlyStages
  <2>2. QED
    BY <2>1, RegistryAssumption DEF Frozen, ControlsFrozen, FeaturesFrozen, SnapshotFrozen
<1>2. PICK active \in PolicySets :
        plan = PlanOf(snapshot, request, features, controls,
                      ActiveFor(active, features.task_class))
  BY DEF Frozen, PlanFrozen
<1> DEFINE policy == ActiveFor(active, features.task_class)
           tries == Tries(policy, controls)
           weights == WeightsFor(request.model, policy)
           eligible == Eligible(snapshot, request, features, controls, policy)
           ranked == Rank(eligible, request, features, weights, tries)
<1>3. /\ plan.policy = policy
      /\ plan.candidates = Chosen(ranked, request, controls)
      /\ plan.validators = ValidationPlan(request, features, controls, policy)
      /\ plan.max_attempts = tries
  BY <1>2 DEF PlanOf
<1>4. /\ policy.floor \in DOMAIN QualityRank /\ policy.attempts \in 1..5
      /\ policy.validators \subseteq AvailableValidators
      /\ \A c \in Criteria : weights[c] \in Nat \ {0}
  BY PolicyInForce
<1>5. controls.max_attempts \in 1..5 /\ controls.validation \in ValidationModes
  <2>1. controls.max_attempts = EffectiveCap(request.layers)
    BY <1>1, CanonicalFields
  <2>2. EffectiveCap(request.layers) \in 1..5
    BY <1>1, CeilingsResolved
  <2>3. controls.validation \in ValidationModes
    BY <1>1, FirstSetResolved
  <2>4. QED
    BY <2>1, <2>2, <2>3
<1>6. features.output \in Nat
  BY <1>1, FeaturesResolved
<1> HIDE DEF policy, weights
<1>7. tries \in 1..5 /\ tries <= policy.attempts /\ tries <= controls.max_attempts
  BY <1>4, <1>5, TriesOf
<1>8. ValidationPlan(request, features, controls, policy) \subseteq AvailableValidators
  BY <1>4, <1>5, ValidatorsKnown
<1>9. eligible = Acceptable
  <2>1. eligible = {m \in snapshot : Passes(m, request, features, controls,
                                            QualityFloor(features, controls, policy))}
    BY <1>8 DEF Eligible
  <2>2. \A m \in snapshot :
          Passes(m, request, features, controls, QualityFloor(features, controls, policy))
            <=> /\ \A i \in DOMAIN request.layers : Accepts(request.layers[i], m)
                /\ GatewayAccepts(m)
                /\ ListsMeet => Listed(m)
    <3>1. SUFFICES ASSUME NEW m \in snapshot
          PROVE  Passes(m, request, features, controls,
                        QualityFloor(features, controls, policy))
                   <=> /\ \A i \in DOMAIN request.layers : Accepts(request.layers[i], m)
                       /\ GatewayAccepts(m)
                       /\ ListsMeet => Listed(m)
      OBVIOUS
    <3>2. m \in Models /\ plan.policy.floor \in DOMAIN QualityRank
      BY <1>1, <1>3, <1>4
    <3>3. Passes(m, request, features, controls,
                 QualityFloor(features, controls, plan.policy))
            <=> /\ \A i \in DOMAIN request.layers : Accepts(request.layers[i], m)
                /\ GatewayAccepts(m)
                /\ ListsMeet => Listed(m)
      BY <1>1, <3>2, Gates
    <3>4. QED
      BY <1>3, <3>3, Zenon
  <2> HIDE DEF eligible
  <2>3. QED
    BY <2>1, <2>2, Zenon DEF Acceptable
<1>10. eligible \in SUBSET Models /\ eligible \subseteq snapshot
  BY <1>1 DEF Eligible
<1> HIDE DEF eligible
<1>11. /\ ranked \in Seq(eligible) /\ Range(ranked) = eligible
       /\ \A i, j \in DOMAIN ranked :
            i < j => ~Outdoes(ranked[j], ranked[i], request, features)
  <2>1. tries \in Nat \ {0}
    BY <1>7
  <2>2. request \in Requests
    BY <1>1
  <2>3. \A c \in Criteria : weights[c] \in Nat \ {0}
    BY <1>4
  <2>4. eligible \in SUBSET Models
    BY <1>10
  <2> HIDE DEF tries
  <2>5. QED
    BY <1>6, <2>1, <2>2, <2>3, <2>4, RankOf
<1> HIDE DEF ranked, tries
<1>12. ranked \in Seq(snapshot)
  BY <1>10, <1>11
<1>13. QED
  BY <1>1, <1>3, <1>4, <1>7, <1>8, <1>9, <1>11, <1>12

-----------------------------------------------------------------------------
(* The invariants.                                                         *)

(* Resolution, classification and planning yield values of the code's types.   *)
THEOREM PlanningTypes == Spec => []TypeOK
<1>1. Frozen => TypeOK
  <2> SUFFICES ASSUME Frozen PROVE TypeOK
    OBVIOUS
  <2>1. stage \in Stages /\ request \in Requests
    BY DEF Frozen
  <2>2. ASSUME controls # Nothing
        PROVE  /\ controls.quality \in DOMAIN QualityRank
               /\ controls.privacy \in DOMAIN PrivacyRank
               /\ controls.risk \in DOMAIN RiskRank \cup {Unset}
               /\ controls.max_cost \in Nat /\ controls.max_latency_ms \in Nat \ {0}
               /\ controls.max_attempts \in 1..5
               /\ controls.allow_fallback \in BOOLEAN
               /\ controls.validation \in ValidationModes
               /\ controls.task_class \in TaskClasses \cup {Unset}
    <3>1. controls = Canonical(request)
      BY <2>2 DEF Frozen, ControlsFrozen
    <3>2. /\ controls.quality = EffectiveQuality(request.layers)
          /\ controls.privacy = EffectivePrivacy(request.layers, request.model)
          /\ controls.risk = EffectiveRisk(request.layers)
          /\ controls.max_cost = Min(Said(request.layers, "max_cost") \cup {DefaultMaxCost})
          /\ controls.max_latency_ms
               = Min(Said(request.layers, "max_latency_ms") \cup {DefaultMaxLatency})
          /\ controls.max_attempts = EffectiveCap(request.layers)
      BY <2>1, <3>1, CanonicalFields
    <3>3. controls.risk \in DOMAIN RiskRank \cup {Unset}
      BY <2>1, <3>2, RiskResolved
    <3>4. /\ controls.max_cost \in Nat /\ controls.max_latency_ms \in Nat \ {0}
          /\ controls.max_attempts \in 1..5
      <4>1. /\ Min(Said(request.layers, "max_cost") \cup {DefaultMaxCost}) \in Nat
            /\ Min(Said(request.layers, "max_latency_ms") \cup {DefaultMaxLatency})
                 \in Nat \ {0}
            /\ EffectiveCap(request.layers) \in 1..5
        BY <2>1, CeilingsResolved
      <4>2. QED
        BY <3>2, <4>1
    <3>5. /\ controls.quality \in DOMAIN QualityRank /\ controls.privacy \in DOMAIN PrivacyRank
      BY <2>1, <3>2, QualityResolved, PrivacyResolved
    <3>6. QED
      BY <2>1, <3>1, <3>3, <3>4, <3>5, FirstSetResolved
  <2>3. ASSUME features # Nothing
        PROVE  /\ features.task_class \in TaskClasses
               /\ features.risk \in DOMAIN RiskRank
               /\ features.output \in Nat
    <3>1. features = Features(request, Canonical(request))
      BY <2>3 DEF Frozen, FeaturesFrozen, ControlsFrozen
    <3>2. QED
      BY <2>1, <3>1, FeaturesResolved
  <2>4. snapshot \in SUBSET Models
    BY RegistryAssumption DEF Frozen, SnapshotFrozen
  <2>5. ASSUME Planned
        PROVE  /\ plan.candidates \in Seq(snapshot)
               /\ plan.validators \subseteq AvailableValidators
               /\ plan.max_attempts \in 1..5
    <3>1. PICK ranked \in Seq(snapshot) : plan.candidates = Chosen(ranked, request, controls)
      BY <2>5, PlanFacts
    <3>2. controls = Canonical(request)
      BY <2>5, PlanFacts
    <3>3. controls.allow_fallback \in BOOLEAN
      BY <2>1, <3>2, FirstSetResolved
    <3>4. Chosen(ranked, request, controls) \in Seq(snapshot)
      BY <3>3, ChosenOf
    <3>5. QED
      BY <2>5, <3>1, <3>4, PlanFacts
  <2>6. QED
    BY <2>1, <2>2, <2>3, <2>4, <2>5 DEF TypeOK
<1>2. QED
  BY <1>1, FrozenInvariant, PTL

(* Layering neither loosens nor tightens: the candidates are the models that every
   layer accepts on its own and the gateway accepts, and nobody's cap is exceeded. *)
THEOREM Admitted == Spec => []CandidatesAreAdmitted
<1>1. Frozen => CandidatesAreAdmitted
  <2> SUFFICES ASSUME Frozen, Planned
               PROVE  LET candidates == Range(plan.candidates)
                      IN  /\ candidates \subseteq Acceptable
                          /\ (request.model \in Selectors \/ controls.allow_fallback)
                               /\ candidates = {} => Acceptable = {}
                          /\ request.model \in Selectors => candidates = Acceptable
                          /\ request.model \in Acceptable => candidates = {request.model}
                          /\ plan.max_attempts <= plan.policy.attempts
                          /\ \A cap \in Said(request.layers, "max_attempts") :
                               plan.max_attempts <= cap
    BY DEF CandidatesAreAdmitted
  <2>1. PICK ranked \in Seq(snapshot) : /\ plan.candidates = Chosen(ranked, request, controls)
                                        /\ Range(ranked) = Acceptable
    BY PlanFacts
  <2>2. /\ request \in Requests /\ controls = Canonical(request)
        /\ snapshot \in SUBSET Models
        /\ plan.max_attempts <= plan.policy.attempts
        /\ plan.max_attempts \in 1..5 /\ plan.max_attempts <= controls.max_attempts
    BY PlanFacts
  <2>3. controls.allow_fallback \in BOOLEAN
    BY <2>2, FirstSetResolved
  <2>4. /\ Range(plan.candidates) \subseteq Acceptable
        /\ Range(plan.candidates) = {} => Acceptable = {}
        /\ request.model \in Selectors => plan.candidates = ranked
        /\ request.model \in Acceptable \ Selectors => Range(plan.candidates) = {request.model}
    BY <2>1, <2>3, ChosenOf
  <2>5. request.model \in Acceptable => request.model \notin Selectors
    BY <2>2, RegistryAssumption DEF Acceptable
  <2>6. \A cap \in Said(request.layers, "max_attempts") : plan.max_attempts <= cap
    <3>1. controls.max_attempts = EffectiveCap(request.layers)
      BY <2>2, CanonicalFields
    <3>2. \A cap \in Said(request.layers, "max_attempts") : controls.max_attempts <= cap
      BY <2>2, <3>1, CeilingsResolved
    <3>3. controls.max_attempts \in 1..5
      BY <2>2, <3>1, CeilingsResolved
    <3>4. Said(request.layers, "max_attempts") \subseteq 1..5
      BY <2>2, SaidTypes
    <3>5. QED
      BY <2>2, <3>2, <3>3, <3>4
  <2>7. QED
    BY <2>1, <2>2, <2>4, <2>5, <2>6
<1>2. QED
  BY <1>1, FrozenInvariant, PTL

(* Nobody stands behind a model it beats, whatever is weighed most.          *)
THEOREM BestStandFirst == Spec => []BestFirst
<1>1. Frozen => BestFirst
  <2> SUFFICES ASSUME Frozen, Planned,
                      NEW i \in DOMAIN plan.candidates, NEW j \in DOMAIN plan.candidates,
                      i < j
               PROVE  ~Outdoes(plan.candidates[j], plan.candidates[i], request, features)
    BY DEF BestFirst, Outdoes, Merits
  <2>1. PICK ranked \in Seq(snapshot) :
          /\ plan.candidates = Chosen(ranked, request, controls)
          /\ \A k, l \in DOMAIN ranked :
               k < l => ~Outdoes(ranked[l], ranked[k], request, features)
    BY PlanFacts
  <2>2. controls.allow_fallback \in BOOLEAN
    BY PlanFacts, FirstSetResolved
  <2>3. plan.candidates = ranked \/ \A k, l \in DOMAIN plan.candidates : ~(k < l)
    BY <2>1, <2>2, ChosenOf
  <2>4. QED
    BY <2>1, <2>3
<1>2. QED
  BY <1>1, FrozenInvariant, PTL

(* Nothing that somebody wants to see whole first is passed through, and a request
   of a risk called high is served under independent review, whole, unless a layer
   asked for less.                                                          *)
THEOREM NothingStreamedUnchecked == Spec => []NothingUncheckedIsStreamed
<1>1. Frozen => NothingUncheckedIsStreamed
  <2> SUFFICES ASSUME Frozen, stage \in ServedStages PROVE NothingUncheckedIsStreamed
    BY DEF NothingUncheckedIsStreamed, ServedStages
  <2>1. Planned
    BY DEF Planned, PlannedStages
  <2>2. /\ request \in Requests /\ controls = Canonical(request)
        /\ features = Features(request, controls)
        /\ plan.validators = ValidationPlan(request, features, controls, plan.policy)
    BY <2>1, PlanFacts
  <2>3. /\ RisksNamed \subseteq DOMAIN RiskRank /\ features.risk \in RisksNamed
        /\ \A r \in RisksNamed : RiskRank[r] <= RiskRank[features.risk]
    BY <2>2, FeaturesResolved DEF RisksNamed
  <2>4. /\ controls.validation \in ValidationModes
        /\ controls.validation # "auto" => controls.validation \in ModesNamed
    BY <2>2, FirstSetResolved DEF ModesNamed
  <2>5. /\ Routed /\ (stage = "whole" => ~request.stream)
        /\ stage \in {"buffered", "passthrough"} => request.stream
        /\ stage = "passthrough" => ~MustBuffer
    BY DEF Frozen, ServedAs
  <2>6. RisksNamed \cap HighRisk # {} => features.risk \in HighRisk
    <3>1. \A r, t \in DOMAIN RiskRank :
            r \in HighRisk /\ RiskRank[r] <= RiskRank[t] => t \in HighRisk
      BY DEF RiskRank, HighRisk
    <3>2. QED
      BY <2>3, <3>1
  <2>7. ASSUME stage = "passthrough"
        PROVE  /\ RisksNamed \cap HighRisk = {}
               /\ ~HasSchema(request)
               /\ plan.policy.validators \cap FullOutputValidators # {}
                    => "none" \in ModesNamed
    <3>1. /\ plan.validators \cap FullOutputValidators = {} /\ features.risk \notin HighRisk
          /\ plan.validators \cap JudgeValidators = {}
      BY <2>5, <2>7 DEF MustBuffer, Routed, Judged
    <3> DEFINE planned == plan.policy.validators
                            \cup (IF HasSchema(request) THEN {"schema_check"} ELSE {})
    <3>2. ByMode(planned, controls.validation) \subseteq plan.validators
      BY <2>2 DEF ValidationPlan
    <3>3. "schema_check" \in FullOutputValidators /\ "schema_check" \notin JudgeValidators
          /\ FullOutputValidators \cap JudgeValidators = {}
      BY DEF FullOutputValidators, JudgeValidators
    <3>4. ~HasSchema(request)
      <4>1. HasSchema(request) => "schema_check" \in planned
        OBVIOUS
      <4> HIDE DEF planned
      <4>2. HasSchema(request) => "schema_check" \in ByMode(planned, controls.validation)
        BY <2>4, <3>3, <4>1 DEF ByMode, ValidationModes
      <4>3. QED
        BY <3>1, <3>2, <3>3, <4>2
    <3>5. plan.policy.validators \cap FullOutputValidators # {} => controls.validation = "none"
      <4>1. plan.policy.validators \subseteq planned
        OBVIOUS
      <4> HIDE DEF planned
      <4>2. controls.validation # "none" =>
              planned \cap FullOutputValidators \subseteq ByMode(planned, controls.validation)
        BY <2>4, <3>3 DEF ByMode, ValidationModes
      <4>3. QED
        BY <3>1, <3>2, <4>1, <4>2
    <3>6. QED
      BY <2>4, <2>6, <3>1, <3>4, <3>5
  <2>8. ASSUME RisksNamed \cap HighRisk # {}, ModesNamed \cap {"none", "deterministic"} = {}
        PROVE  "independent_review" \in plan.validators /\ stage = "whole"
    <3>1. controls.validation \in {"auto", "independent"}
      BY <2>4, <2>8 DEF ValidationModes
    <3>2. "independent_review" \in plan.validators
      BY <2>2, <2>6, <2>8, <3>1 DEF ValidationPlan
    <3>3. ~request.stream
      BY <2>5, <3>2 DEF Routed, Judged, JudgeValidators
    <3>4. QED
      BY <2>5, <3>2, <3>3 DEF ServedStages
  <2>9. QED
    BY <2>7, <2>8 DEF NothingUncheckedIsStreamed
<1>2. QED
  BY <1>1, FrozenInvariant, PTL
=============================================================================
