-------------------------- MODULE MCRoutePlanning --------------------------
(***************************************************************************)
(* Four models of two providers, layers that agree and disagree on every   *)
(* field, and payloads that need more or less of a model.                  *)
(***************************************************************************)
EXTENDS RoutePlanning

MCModels == {"m/general", "m/open", "m/private", "m/strong"}

Row(id, provider, tier, quality, capabilities, window, price, fee, latency, pass, failure) ==
  [id |-> id, provider |-> provider, tier |-> tier, quality |-> quality,
   capabilities |-> capabilities, endpoints |-> {"chat_completions", "responses"},
   window |-> window, max_output |-> 6, input_price |-> price, output_price |-> 2 * price,
   fee |-> fee, latency |-> latency, pass |-> pass, failure |-> failure]

MCEntry ==
  ("m/general" :> [Row(1, "p", "standard", "standard", {"streaming", "tools"},
                       10, 1, 0, 2, 2, 2) EXCEPT !.endpoints = {"chat_completions"}])
  @@ ("m/open" :> Row(2, "p", "public_only", "high", {"streaming", "tools", "json_schema"},
                      16, 1, 0, 1, 3, 1))
  @@ ("m/private" :> Row(3, "q", "zdr", "critical", {"streaming", "tools", "json_schema"},
                         16, 3, 1, 4, 3, 1))
  @@ ("m/strong" :> Row(4, "q", "standard", "high", {"streaming", "json_schema"},
                        12, 2, 0, 3, 4, 0))

MCRegistries ==
  {MCModels, MCModels \ {"m/private"}, {"m/open", "m/strong"}, {"m/general"}}

Policy(version, class, floor, validators, attempts, weights) ==
  [version |-> version, task_class |-> class, floor |-> floor,
   validators |-> validators, attempts |-> attempts, weights |-> weights]

Default1 == Policy(1, AnyClass, "standard", {"schema_check"}, 3, <<>>)
Default2 == Policy(2, AnyClass, "economy", {"citation_check"}, 2, [latency |-> 60])
Sql      == Policy(1, "sql_review", "critical", {"sql_parser", "independent_review"}, 3,
                   [cost |-> 15, latency |-> 10, quality |-> 60, failure |-> 15])
Creative == Policy(1, "creative_writing", "economy", {"length_check"}, 1, <<>>)

MCPolicySets == {{}, {Default1, Sql}, {Default1, Default2, Creative}}

-----------------------------------------------------------------------------
Layer(said) == said @@ Silent

Deployments == {Silent, Layer([privacy |-> "deployment_strict"])}

Clients ==
  {Silent,
   Layer([provider_allow |-> {"p"}, max_attempts |-> 2, quality |-> "economy"]),
   Layer([privacy |-> "public", risk |-> "low", validation |-> "independent",
          max_cost |-> 14, allow_fallback |-> FALSE])}

Headers ==
  {Silent,
   Layer([risk |-> "critical", validation |-> "deterministic", max_latency_ms |-> 3]),
   Layer([quality |-> "high", privacy |-> "confidential", validation |-> "none"])}

Bodies ==
  {Silent,
   Layer([provider_allow |-> {"q"}, max_attempts |-> 5, risk |-> "high"]),
   Layer([provider_deny |-> {"q"}, provider_allow |-> {"p", "r"}, max_cost |-> 9,
          task_class |-> "creative_writing"]),
   Layer([privacy |-> "public", allow_fallback |-> FALSE, max_attempts |-> 1,
          required_capabilities |-> {"tools"}]),
   Layer([risk |-> "low", task_class |-> "sql_review", validation |-> "auto"])}

Payloads ==
  {[model |-> model, endpoint |-> endpoint, uses |-> {}, format |-> "text",
    schema |-> FALSE, stream |-> stream, reads |-> "general_reasoning", input |-> 2,
    max_output |-> Unset] :
     model \in {"auto", "auto-quality", "auto-private", "m/open", "m/strong", "m/gone"},
     endpoint \in {"chat_completions", "responses"}, stream \in BOOLEAN}
  \cup
  {[model |-> "auto", endpoint |-> "responses", uses |-> {"tools"},
    format |-> "json_schema", schema |-> schema, stream |-> TRUE, reads |-> reads,
    input |-> 6, max_output |-> max_output] :
     schema \in BOOLEAN, reads \in {"sql_review", "creative_writing"},
     max_output \in {Unset, 5}}

MCRequests ==
  {payload @@ [layers |-> <<deployment, client, headers, body>>] :
     payload \in Payloads, deployment \in Deployments, client \in Clients,
     headers \in Headers, body \in Bodies}
=============================================================================
