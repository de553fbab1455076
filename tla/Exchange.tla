------------------------------ MODULE Exchange ------------------------------
(***************************************************************************)
(* One request for a whole response, from its bytes to its answer: the     *)
(* endpoints (api/generation.py) with what runs before them                *)
(* (api/dependencies.py, api/auth.py), normalisation, one provider call    *)
(* (ProviderCall), the judgement of its output (OutputValidation) and the  *)
(* answer (api/serializers.py, api/errors.py, domain/errors.py).           *)
(*                                                                         *)
(* The plan has one candidate and one attempt: what the loop does between  *)
(* attempts is RequestLoop's, who gets the money BudgetLedger's, which     *)
(* model RoutePlanning's, and the key's record IdempotentRequests'.  Their *)
(* answers are choices here, made in the step that asks them.              *)
(***************************************************************************)
EXTENDS OutputValidation, ProviderCall

CONSTANTS Words,   \* what texts are made of
          Asks,    \* what clients may want said
          Classes, \* the task classes they are put in
          Modes    \* the validation modes their controls resolve to

VARIABLES
  ask,       \* what the client wants
  body,      \* the body that says so; Absent once it is normalised
  canonical, \* the canonical request, or Absent
  plan,      \* validation_plan
  stage,     \* how far the handler is
  answer     \* what the client is told

wants == <<ask, body, canonical, plan>>
vars  == <<wants, stage, answer, callVars>>

-----------------------------------------------------------------------------
\* The client.  An ask has instructions, turns, of which the first may come with a
\* picture, tools, a format and a limit; each endpoint has several ways to say it.

Whole(words) == <<[type |-> "text", words |-> words]>>
Split(words) == [i \in DOMAIN words |-> [type |-> "text", words |-> <<words[i]>>]]
Picture      == <<[type |-> "image_url", words |-> <<>>]>>

Said(a, Form(_)) ==
  [i \in DOMAIN a.turns |->
     [role |-> a.turns[i].role,
      content |-> Form(a.turns[i].words) \o (IF i = 1 /\ a.picture THEN Picture ELSE <<>>)]]

Instruct(a, role) ==
  IF a.instructions = <<>> THEN <<>> ELSE <<[role |-> role, content |-> Whole(a.instructions)]>>

ChatBody(a, messages, limits) ==
  [endpoint |-> "chat_completions", messages |-> messages, tools |-> a.tools,
   format |-> a.format, max_tokens |-> limits[1], max_completion_tokens |-> limits[2],
   n |-> Absent, gateway |-> Absent]

\* The instructions may stand anywhere among the turns.
ChatBodies(a) ==
  {ChatBody(a, SubSeq(said, 1, k) \o Instruct(a, role) \o SubSeq(said, k + 1, Len(said)), limits) :
     said \in {Said(a, Whole), Said(a, Split)}, role \in InstructionRoles,
     k \in {0, Len(a.turns)}, limits \in {<<a.limit, Absent>>, <<Absent, a.limit>>}}

ResponsesBody(a, instructions, input) ==
  [endpoint |-> "responses", instructions |-> instructions, input |-> input,
   tools |-> a.tools, format |-> a.format, max_output_tokens |-> a.limit,
   reasoning |-> a.reasoning, stored |-> FALSE, gateway |-> Absent]

\* The instructions may be an item of the input; a user's item needs no role.
ResponsesBodies(a) ==
  {ResponsesBody(a, a.instructions, Said(a, Whole)),
   ResponsesBody(a, <<>>, Instruct(a, "system") \o Said(a, Split)),
   ResponsesBody(a, a.instructions,
                 [i \in DOMAIN a.turns |->
                    [Said(a, Split)[i] EXCEPT !.role = IF @ = "user" THEN Absent ELSE @]])}

BadControls == [max_attempts |-> 6, max_cost |-> Absent, allow |-> Absent, deny |-> Absent]

\* A body with one thing wrong with it.
Spoilt(b) ==
  {[b EXCEPT !.gateway = BadControls]} \cup
  (IF b.endpoint = "responses"
   THEN {[b EXCEPT !.stored = TRUE], [b EXCEPT !.input = <<>>], [b EXCEPT !.max_output_tokens = 0]}
   ELSE {[b EXCEPT !.n = 2], [b EXCEPT !.messages = <<>>],
         [b EXCEPT !.max_tokens = 1, !.max_completion_tokens = 1]})

Bodies(a) == LET good == ChatBodies(a) \cup ResponsesBodies(a)
             IN  good \cup UNION {Spoilt(b) : b \in good}

\* Nothing is Absent but what is left out, and a json_schema format has its schema.
ASSUME ExchangeAssumption ==
  /\ Absent \notin Int \cup ChatRoles \cup {BadControls}
  /\ \A text \in Texts : text.json \in JsonValues \cup {Absent}
  /\ \A a \in Asks :
       /\ a.instructions \in Seq(Words)
       /\ a.turns \in Seq([role : ChatRoles \ InstructionRoles, words : Seq(Words)])
       /\ a.format \in [kind : {"text", "json_object"}, schema : {Absent}]
                         \cup [kind : {"json_schema"}, schema : Schemas]
       /\ a.limit \in Int \cup {Absent}
       /\ a.picture \in BOOLEAN /\ a.reasoning \in BOOLEAN
  /\ Classes \subseteq DOMAIN PolicyValidators

Init ==
  /\ CallInit
  /\ ask \in Asks
  /\ body \in Bodies(ask)
  /\ canonical = Absent /\ plan = <<>>
  /\ stage = "received"
  /\ answer = [code |-> "none", status |-> 0, retryable |-> FALSE, text |-> NoText]

-----------------------------------------------------------------------------
\* Answers.

\* The status of each code: those that lay it to the request, ...
RefusalStatus ==
  [invalid_request |-> 400, invalid_gateway_control |-> 400, invalid_api_key |-> 401,
   policy_denied |-> 403, model_not_found |-> 404, idempotency_conflict |-> 409,
   request_in_progress |-> 409, request_too_large |-> 413, unsupported_media_type |-> 415,
   no_eligible_route |-> 422]

\* ... and those of capacity, the gateway and its providers.
FailureStatus ==
  [budget_exceeded |-> 429, internal_error |-> 500, provider_error |-> 502,
   no_provider_available |-> 503, deadline_exceeded |-> 504]

Refusals == DOMAIN RefusalStatus
RetryableCodes == {"request_in_progress", "no_provider_available"}

\* Slip: a request that found no provider willing is told to come back.
ErrorForExhausted(state) ==
  CASE state = "REJECTED_BUDGET"   -> "budget_exceeded"
    [] state = "REJECTED_NO_ROUTE" -> "no_eligible_route"
    [] state = "EXPIRED"           -> "deadline_exceeded"
    [] state = "FAILED_EXHAUSTED"  -> "no_provider_available"
    [] OTHER -> "provider_error"

\* The error of a terminal state that is no success.
ErrorFor(state) ==
  CASE state = "REJECTED_BUDGET"   -> "budget_exceeded"
    [] state = "REJECTED_NO_ROUTE" -> "no_eligible_route"
    [] state = "EXPIRED"           -> "deadline_exceeded"
    [] state \in {"FAILED_EXHAUSTED", "FAILED_PARTIAL", "FAILED"} -> "provider_error"
    [] OTHER -> "internal_error"

Error(code) ==
  /\ stage' = "answered"
  /\ answer' = [code |-> code,
                status |-> IF code \in Refusals THEN RefusalStatus[code] ELSE FailureStatus[code],
                retryable |-> code \in RetryableCodes, text |-> NoText]

Deliver(text) ==
  /\ stage' = "answered"
  /\ answer' = [code |-> "ok", status |-> 200, retryable |-> FALSE, text |-> text]

Go(next) == stage' = next /\ UNCHANGED answer

-----------------------------------------------------------------------------
\* The dependencies of an endpoint, in the order it declares them.

\* The content type, then the size, then the parse: before anyone is asked who.
ReadBody ==
  /\ stage = "received"
  /\ \/ \E code \in {"unsupported_media_type", "request_too_large", "invalid_request"} : Error(code)
     \/ Go("read")
  /\ UNCHANGED <<wants, callVars>>

\* A missing header or token, and a key that is unknown, disabled or has expired,
\* are told alike.
Authenticate ==
  /\ stage = "read"
  /\ Error("invalid_api_key") \/ Go("known")
  /\ UNCHANGED <<wants, callVars>>

ValidateBody ==
  /\ stage = "known"
  /\ IF BodyError(body) = "none" THEN Go("valid") ELSE Error(BodyError(body))
  /\ UNCHANGED <<wants, callVars>>

\* An unknown model, a header that is no control, debug without its scope.
Prepare ==
  /\ stage = "valid"
  /\ \/ \E code \in {"model_not_found", "invalid_gateway_control", "policy_denied"} : Error(code)
     \/ Go("prepared")
  /\ UNCHANGED <<wants, callVars>>

NormalizeBody ==
  /\ stage = "prepared"
  /\ IF Unsupported(body) THEN Error("invalid_request") /\ UNCHANGED canonical
     ELSE Go("normal") /\ canonical' = Normalize(body)
  /\ body' = Absent
  /\ UNCHANGED <<ask, plan, callVars>>

\* dry_run: the plan is described and nothing is called.
DryRun ==
  /\ stage = "normal"
  /\ Deliver(NoText)
  /\ UNCHANGED <<wants, callVars>>

\* _run up to its commit: no orchestrator, the key is another's or has been used, or
\* the request is planned.
Admit ==
  /\ stage = "normal"
  /\ \/ /\ \E code \in {"no_provider_available", "request_in_progress", "idempotency_conflict"} :
             Error(code)
        /\ UNCHANGED plan
     \/ /\ Go("planned")
        /\ \E class \in Classes, mode \in Modes, reviewed \in BOOLEAN :
             plan' = PlanFor(canonical, class, mode, reviewed)
  /\ UNCHANGED <<ask, body, canonical, callVars>>

\* The loop ends before a call: no candidate, no time, no adapter or closed circuit,
\* no money.
Turned ==
  /\ stage = "planned"
  /\ \E state \in {"REJECTED_NO_ROUTE", "EXPIRED", "FAILED_EXHAUSTED", "REJECTED_BUDGET"} :
       Error(ErrorFor(state))
  /\ UNCHANGED <<wants, callVars>>

BeginCall ==
  /\ stage = "planned"
  /\ Go("calling")
  /\ Post \/ Spawn \/ Pretend
  /\ UNCHANGED wants

Calling ==
  /\ stage = "calling"
  /\ \/ ReadOn \/ Responds \/ PostTimesOut \/ TransportFails
     \/ Collect \/ CallTimesOut \/ Reap \/ Escalate
  /\ UNCHANGED <<wants, stage, answer>>

\* What the provider and the tool's processes do meanwhile.
Others == (Receives \/ ProcessStep) /\ UNCHANGED <<wants, stage, answer>>

Sent == CASE adapter = "openai_compatible" -> HttpPayload(canonical)
          [] adapter = "commandcode"       -> StdinPayload(canonical)
          [] OTHER                         -> Absent

\* The call has failed; an exception that is no ProviderFailure counts as one.
CallFailed ==
  /\ stage = "calling" /\ phase = "over"
  /\ reply.kind \in {"failure", "fault"}
  /\ Error(ErrorFor(IF reply.outcome = "PARTIAL" THEN "FAILED_PARTIAL" ELSE "FAILED_EXHAUSTED"))
  /\ UNCHANGED <<wants, callVars>>

\* The output is judged; a validator that raises takes the handler with it.
Judge ==
  /\ stage = "calling" /\ phase = "over"
  /\ reply.kind = "result"
  /\ \/ PlanRaises(plan, reply.text, canonical) /\ Error("internal_error")
     \/ /\ ~PlanRaises(plan, reply.text, canonical)
        /\ IF Decision(Aggregate(RunPlan(plan, reply.text, canonical))) = "accept"
           THEN Deliver(reply.text) ELSE Error(ErrorFor("FAILED_EXHAUSTED"))
  /\ UNCHANGED <<wants, callVars>>

\* The task is cancelled at its call; nobody is told anything.
Cancel ==
  /\ stage = "calling"
  /\ CallCancelled
  /\ Go("cancelled")
  /\ UNCHANGED wants

Handler == \/ ReadBody \/ Authenticate \/ ValidateBody \/ Prepare \/ NormalizeBody
           \/ DryRun \/ Admit \/ Turned \/ BeginCall \/ Calling \/ CallFailed \/ Judge

Next == Handler \/ Others \/ Cancel

Spec == Init /\ [][Next]_vars

\* The event loop runs the handler, and every wait of an adapter has a timeout: the
\* tool's for the whole call, httpx's for one read, after which the next starts anew.
\* Providers need not answer, nor processes exit or heed SIGTERM.
FairSpec == Spec /\ WF_vars(Handler)
-----------------------------------------------------------------------------
(* Every variable has its type; a request is normalised once, and a call is made
   for a normalised request only.                                             *)
TypeOK ==
  /\ CallTypeOK
  /\ ask \in Asks
  /\ plan \in Seq(UNION {ToSet(PolicyValidators[c]) : c \in DOMAIN PolicyValidators})
  /\ stage \in {"received", "read", "known", "valid", "prepared", "normal", "planned",
                "calling", "answered", "cancelled"}
  /\ answer.text \in Texts \cup {NoText}
  /\ phase # "idle" => canonical # Absent /\ body = Absent

\* What a provider should be told of an ask.
Wanted(a) ==
  [messages |-> (IF a.instructions = <<>> THEN <<>>
                 ELSE <<[role |-> "system", words |-> a.instructions]>>) \o a.turns,
   max_tokens |-> a.limit, tools |-> a.tools, response_format |-> a.format]

(* Whichever endpoint and spelling the client chose, the provider is told every
   word of it, each under its role, instructions first and the turns in their
   order, with the limit; over HTTP with the tools and the format too.  And the
   request was gated on what is sent: tools and schemas go only to a model that
   was asked to take them.  (Pictures are not sent: see the README.)          *)
CallSaysWhatWasAsked ==
  phase # "idle" /\ adapter \in {"openai_compatible", "commandcode"} =>
    /\ Sent.messages = Wanted(ask).messages
    /\ Sent.max_tokens = Wanted(ask).max_tokens
    /\ adapter = "openai_compatible" => Sent = Wanted(ask)
    /\ Sent.tools # {} => "tools" \in canonical.capabilities
    /\ Sent.response_format.kind = "json_schema" => "json_schema" \in canonical.capabilities

\* JSON Schema's own reading, keyword by keyword, of the keywords schema_check knows.
TypesOf == [object |-> {"object"}, array |-> {"array"}, string |-> {"string"},
            boolean |-> {"boolean"}, integer |-> {"integer"}, number |-> {"integer", "number"}]

\* Its equality: numbers go by their value, at any depth, and a boolean is no number.
Equal[p \in JsonValues \X JsonValues] ==
  IF \E kind \in {{"integer", "number"}, {"boolean"}} : {p[1].t, p[2].t} \subseteq kind
  THEN p[1].n = p[2].n ELSE Alike(p[1], p[2], Equal)

\* In no list and no object of v is a boolean, or a number that stands for one.
Unmistakable[v \in JsonValues] ==
  \A w \in Within(v) :
    /\ w.t \in Numeric => \A b \in JsonValues : b.t = "boolean" => b.n # w.n
    /\ Unmistakable[w]

Fits[p \in JsonValues \X Schemas] ==
  LET v == p[1]
      schema == p[2]
  IN  /\ schema.type \in DOMAIN TypesOf => v.t \in TypesOf[schema.type]
      /\ v.t = "object" =>
           /\ schema.required \subseteq DOMAIN v.fields
           /\ \A name \in DOMAIN v.fields \cap DOMAIN schema.properties :
                Fits[<<v.fields[name], schema.properties[name]>>]
      /\ v.t = "array" /\ schema.items # Absent =>
           \A i \in DOMAIN v.items : Fits[<<v.items[i], schema.items>>]
      /\ schema.enum # Absent => \E w \in schema.enum : Equal[<<v, w>>]

\* The schema and every schema in it name one of the types schema_check knows, and
\* list no values but of that type and such as Python takes for no other.
NamesItsTypes[schema \in Schemas] ==
  /\ schema.type \in DOMAIN TypesOf
  /\ schema.enum # Absent =>
       \A w \in schema.enum : w.t \in TypesOf[schema.type] /\ Unmistakable[w]
  /\ \A s \in Subschemas(schema) : NamesItsTypes[s]

(* A client that asked for a schema is answered 200 only with an output whose JSON
   is an instance of it, whatever the task class and the validation mode,
   validation=none included -- if the schema names its types, and the values it
   lists are none that Python confuses (see ListedMeansListed).               *)
AcceptedFits ==
  answer.code = "ok" /\ phase # "idle" /\ RequiresSchema(ask) =>
    /\ NamesItsTypes[ask.format.schema] => /\ answer.text.json # Absent
                                           /\ Fits[<<answer.text.json, ask.format.schema>>]
    /\ answer.text = reply.text

(* The docstring of SchemaCheckValidator (validators/deterministic.py lines 94-95):
   the check "implements the structural subset of JSON Schema the gateway needs --
   type, required, properties, enum": what is accepted is one of the values an
   enum lists.                                                                *)
ListedMeansListed ==
  answer.code = "ok" /\ phase # "idle" /\ RequiresSchema(ask) /\ ask.format.schema.enum # Absent =>
    \E w \in ask.format.schema.enum : Equal[<<answer.text.json, w>>]

(* Ending the plan at the first failure of grounding or capability never changes
   what is done with an output (the docstring of run_plan, validators/base.py lines
   153-156): it is accepted, repaired or dropped as all verdicts together say, in
   whatever order the plan names its validators.                              *)
StopChangesNoDecision ==
  reply.kind = "result" /\ ~PlanRaises(plan, reply.text, canonical) =>
    Decision(Aggregate(RunPlan(plan, reply.text, canonical)))
      = Decision(Aggregate(Verdicts(plan, reply.text, canonical)))

(* An answer that invites a retry, or lays the failure to the request, was given
   before any provider was called: repeating the request pays for nothing twice. *)
RefusedBeforeWork ==
  answer.retryable \/ answer.code \in Refusals => phase = "idle"

Ended == stage \in {"answered", "cancelled"}

(* Every request is answered unless its task is cancelled, whatever the processes
   do, and whatever the provider does but send a little more for ever: nothing else
   keeps a handler.                                                           *)
EveryExchangeEnds == <>Ended \/ []<>(phase = "receiving")

(* The comment at orchestrator.py:75-76: time is reserved for validation "so a
   request does not spend its entire deadline generating output it then cannot
   check": no provider keeps a request for ever.                              *)
NoProviderKeepsARequest == <>Ended

(* commandcode_cli.py:15-17: "Killing only the direct child can orphan its
   grandchildren, which keeps holding the resources the timeout was meant to
   release, so the whole process group is signalled": after a timeout nothing of
   the group runs on.                                                         *)
TimeoutEndsTheGroup ==
  phase = "over" /\ adapter = "commandcode" /\ reply.outcome = "TIMEOUT" =>
    ~Alive(leader) /\ ~Alive(child)
=============================================================================
