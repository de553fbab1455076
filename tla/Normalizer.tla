----------------------------- MODULE Normalizer -----------------------------
(***************************************************************************)
(* From the body of either endpoint (api/schemas.py) to the one canonical  *)
(* request (services/normalizer.py), and from there to what an adapter     *)
(* sends (providers/openai_http.py, providers/commandcode_cli.py).         *)
(*                                                                         *)
(* A text is a sequence of words; the separators that joining puts between *)
(* parts are layout.  A content is the sequence of its parts: none at all  *)
(* for null, one text part for a plain string.  A part has words if it has *)
(* a text, and a type.                                                     *)
(***************************************************************************)
EXTENDS Integers, Sequences, FiniteSets, SequencesExt

CONSTANT Absent  \* the value of a field that is not there

\* "stored" stands for any of the fields of
\* REJECTED_RESPONSES_FIELDS being set.
InstructionRoles == {"system", "developer"}
ChatRoles  == InstructionRoles \cup {"user", "assistant", "tool"}
ImageTypes == {"image_url", "input_image", "image"}

-----------------------------------------------------------------------------
\* Validation of a body: the code of its error, or "none".  Errors of fields come
\* before those of the model's own validator.

Positive(limit) == limit # Absent => limit > 0

ControlsValid(gateway) ==
  gateway # Absent =>
    /\ gateway.max_attempts # Absent => gateway.max_attempts \in 1..5
    /\ gateway.max_cost # Absent => gateway.max_cost >= 0
    /\ gateway.allow # Absent /\ gateway.deny # Absent => gateway.allow \cap gateway.deny = {}

ChatError(body) ==
  LET fields == /\ body.messages # <<>>
                /\ \A i \in DOMAIN body.messages : body.messages[i].role \in ChatRoles
                /\ Positive(body.max_tokens) /\ Positive(body.max_completion_tokens)
      one == /\ body.max_tokens = Absent \/ body.max_completion_tokens = Absent
             /\ body.n # Absent => body.n = 1
  IN  CASE ~fields -> "invalid_request"
        [] fields /\ ~ControlsValid(body.gateway) -> "invalid_gateway_control"
        [] OTHER -> IF one THEN "none" ELSE "invalid_request"

ResponsesError(body) ==
  CASE ~Positive(body.max_output_tokens) -> "invalid_request"
    [] Positive(body.max_output_tokens) /\ ~ControlsValid(body.gateway) -> "invalid_gateway_control"
    [] OTHER -> "none"

BodyError(body) ==
  IF body.endpoint = "chat_completions" THEN ChatError(body) ELSE ResponsesError(body)

-----------------------------------------------------------------------------
\* Slip: a content is its first part.
FlattenFirst(content) == IF content = <<>> THEN <<>> ELSE content[1].words

\* Only the texts of a content's parts.
Flatten(content) == FlattenSeq([i \in DOMAIN content |-> content[i].words])

HasImage(messages) ==
  \E i \in DOMAIN messages : \E j \in DOMAIN messages[i].content :
    messages[i].content[j].type \in ImageTypes

Capabilities(body, messages) ==
  {c \in {"tools", "json_schema", "vision"} :
     CASE c = "tools"       -> body.tools # {}
       [] c = "json_schema" -> body.format.kind = "json_schema"
       [] c = "vision"      -> HasImage(messages)}

\* The elements of s at the places in kept, in their order.
Picked(s, kept) ==
  [k \in 1..Cardinality(kept) |->
     s[CHOOSE i \in kept : Cardinality({j \in kept : j < i}) = k - 1]]

\* An empty system text is none at all.
Instructing(messages) ==
  Picked(messages, {i \in DOMAIN messages : messages[i].role \in InstructionRoles})
Conversing(messages) ==
  Picked(messages, {i \in DOMAIN messages : messages[i].role \notin InstructionRoles})

Turns(messages) ==
  [i \in DOMAIN messages |-> [role |-> messages[i].role, words |-> Flatten(messages[i].content)]]

ChatLimit(body) ==
  IF body.max_completion_tokens # Absent THEN body.max_completion_tokens ELSE body.max_tokens

Build(body, conversation, system, capabilities, limit) ==
  [endpoint |-> body.endpoint, conversation |-> conversation, system |-> system,
   capabilities |-> capabilities, tools |-> body.tools, format |-> body.format,
   max_output_tokens |-> limit]

NormalizeChat(body) ==
  Build(body, Turns(Conversing(body.messages)),
        FlattenSeq([i \in DOMAIN Instructing(body.messages) |->
                      Flatten(Instructing(body.messages)[i].content)]),
        Capabilities(body, body.messages), ChatLimit(body))

\* item.get("role", "user"); the roles of items are kept, "system" included.
Items(input) ==
  [i \in DOMAIN input |-> [input[i] EXCEPT !.role = IF @ = Absent THEN "user" ELSE @]]

NormalizeResponses(body) ==
  Build(body, Turns(Items(body.input)), body.instructions,
        Capabilities(body, body.input)
          \cup (IF body.reasoning THEN {"reasoning"} ELSE {}),
        body.max_output_tokens)

Normalize(body) ==
  IF body.endpoint = "chat_completions" THEN NormalizeChat(body) ELSE NormalizeResponses(body)

\* What normalisation refuses: a body that says nothing, or asks to be stored.
Unsupported(body) ==
  \/ body.endpoint = "responses" /\ body.stored
  \/ Normalize(body).conversation = <<>>

-----------------------------------------------------------------------------
Messages(request) ==
  (IF request.system = <<>> THEN <<>>
   ELSE <<[role |-> "system", words |-> request.system]>>) \o request.conversation

RequiresSchema(request) ==
  request.format.kind = "json_schema" /\ request.format.schema # Absent

ResponseFormat(request) ==
  CASE request.format.kind = "json_object" -> request.format
    [] RequiresSchema(request) -> request.format
    [] OTHER -> [kind |-> "text", schema |-> Absent]

HttpPayload(request) ==
  [messages |-> Messages(request), max_tokens |-> request.max_output_tokens,
   tools |-> request.tools, response_format |-> ResponseFormat(request)]

\* The command-line tool is told neither the tools nor the format.
StdinPayload(request) ==
  [messages |-> Messages(request), max_tokens |-> request.max_output_tokens,
   tools |-> {}, response_format |-> [kind |-> "text", schema |-> Absent]]
=============================================================================
