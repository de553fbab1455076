-------------------------- MODULE OutputValidation --------------------------
(***************************************************************************)
(* The judgement of one output: the deterministic validators               *)
(* (validators/deterministic.py), the order they run in and the aggregate  *)
(* of their verdicts (validators/base.py), and which of them a request     *)
(* gets (planning._validation_plan_for over the seeded policies).          *)
(*                                                                         *)
(* A text is the record of what the validators can tell about it:          *)
(*   json    the value _extract_json finds in it, in a fence or bare, or   *)
(*           Absent                                                        *)
(*   label   the string it is once white space and quotes are stripped, as *)
(*           a JSON value, or Absent                                       *)
(*   sql     "none", "read", "unbalanced", "write" (bounded by a WHERE) or *)
(*           "unbounded"                                                   *)
(*   cites, compiles, length                                               *)
(* A JSON value is [t, n, fields, items]: its type, the number it is or    *)
(* stands for (a boolean is 0 or 1, a string the code of its characters),  *)
(* its members and its elements.  A schema is [type, required, properties, *)
(* items, enum]; one that names several types has type "union", one that   *)
(* names none has Absent.                                                  *)
(***************************************************************************)
EXTENDS Normalizer, FiniteSets, FiniteSetsExt

CONSTANTS JsonValues, \* the values texts hold, and the values in them
          Schemas,    \* the schemas clients ask for, and the schemas in them
          Height(_)   \* how deep a value or a schema is nested

Within(v) ==
  {v.fields[name] : name \in DOMAIN v.fields} \cup {v.items[i] : i \in DOMAIN v.items}
Subschemas(s) ==
  {s.properties[name] : name \in DOMAIN s.properties} \cup ({s.items} \ {Absent})

\* Both come out of a JSON parser: they are finite trees.
ASSUME JsonAssumption ==
  /\ Absent \notin JsonValues \cup Schemas
  /\ \A v \in JsonValues :
       Height(v) \in Nat /\ \A w \in Within(v) : w \in JsonValues /\ Height(w) < Height(v)
  /\ \A s \in Schemas :
       /\ Height(s) \in Nat /\ \A u \in Subschemas(s) : u \in Schemas /\ Height(u) < Height(s)
       /\ s.enum # Absent => s.enum \subseteq JsonValues

Severity == <<"FAIL_GROUNDING", "FAIL_CAPABILITY", "FAIL_QUALITY", "FAIL_REPAIRABLE",
              "INDETERMINATE", "PASS">>

PassUnless(failed, verdict) == IF failed THEN verdict ELSE "PASS"

-----------------------------------------------------------------------------
\* schema_check.

Checkers == {"object", "array", "string", "boolean", "number", "integer"}
Numeric  == {"integer", "number", "boolean"}

\* Slip: a boolean is an integer, as Python has it.
HasTypeOfPython(v, type) == v.t = type \/ (type = "integer" /\ v.t = "boolean")
                                       \/ (type = "number" /\ v.t \in Numeric)

HasType(v, type) == v.t = type \/ (type = "number" /\ v.t = "integer")

\* The same but for what is in them, of which same tells.
Alike(v, w, same) ==
  /\ v.t = w.t /\ v.n = w.n
  /\ DOMAIN v.fields = DOMAIN w.fields /\ DOMAIN v.items = DOMAIN w.items
  /\ \A name \in DOMAIN v.fields : same[<<v.fields[name], w.fields[name]>>]
  /\ \A i \in DOMAIN v.items : same[<<v.items[i], w.items[i]>>]

\* Python's ==: 1, 1.0 and True are equal, at any depth of a list or a dict.
PyEqual[p \in JsonValues \X JsonValues] ==
  IF {p[1].t, p[2].t} \subseteq Numeric THEN p[1].n = p[2].n ELSE Alike(p[1], p[2], PyEqual)

\* Python's in.
InEnum(v, enum) == \E a \in enum : PyEqual[<<v, a>>]

Mistyped(v, schema) == schema.type \in Checkers /\ ~HasType(v, schema.type)

\* The parts of v that are checked with a schema of their own.
Parts(v, schema) ==
  (IF schema.type = "object"
   THEN {<<v.fields[name], schema.properties[name]>> :
           name \in DOMAIN schema.properties \cap DOMAIN v.fields}
   ELSE {})
  \cup
  (IF schema.type = "array" /\ schema.items # Absent
   THEN {<<v.items[i], schema.items>> : i \in DOMAIN v.items}
   ELSE {})

\* What the check finds in v itself.
OwnCodes(v, schema) ==
  (IF schema.type = "object" /\ ~(schema.required \subseteq DOMAIN v.fields)
   THEN {"missing_required"} ELSE {})
  \cup
  (IF schema.enum # Absent /\ ~InEnum(v, schema.enum) THEN {"not_in_enum"} ELSE {})

Codes[p \in JsonValues \X Schemas] ==
  IF Mistyped(p[1], p[2]) THEN {"type_mismatch"}
  ELSE (UNION {Codes[part] : part \in Parts(p[1], p[2])}) \cup OwnCodes(p[1], p[2])

\* A list of types cannot be looked up in a dict: the check raises TypeError.
Raises[p \in JsonValues \X Schemas] ==
  \/ p[2].type = "union"
  \/ ~Mistyped(p[1], p[2]) /\ \E part \in Parts(p[1], p[2]) : Raises[part]

-----------------------------------------------------------------------------
\* The verdicts.

JsonParse(text) == PassUnless(text.json = Absent, "FAIL_REPAIRABLE")

SchemaCheck(text, schema) ==
  PassUnless(schema # Absent /\ (text.json = Absent \/ Codes[<<text.json, schema>>] # {}),
             "FAIL_REPAIRABLE")

SqlParser(text) == PassUnless(text.length = 0 \/ text.sql \in {"none", "unbalanced"}, "FAIL_REPAIRABLE")
SqlSafety(text) == PassUnless(text.sql \in {"write", "unbounded"}, "FAIL_CAPABILITY")

MaxRatio == 4
LengthCheck(text, limit) ==
  PassUnless(text.length = 0 \/ (limit # Absent /\ text.length > limit * MaxRatio), "FAIL_REPAIRABLE")

LabelCheck(text, schema) ==
  PassUnless(/\ schema # Absent /\ schema.enum # Absent /\ schema.enum # {}
             /\ text.label \notin schema.enum, "FAIL_REPAIRABLE")

CitationCheck(text) == PassUnless(~text.cites, "FAIL_GROUNDING")
CodeCompile(text)   == PassUnless(text.length = 0 \/ ~text.compiles, "FAIL_REPAIRABLE")
FakeJudge(text)     == PassUnless(text.length = 0, "FAIL_QUALITY")

\* INDETERMINATE for a name that is not in the registry.
Verdict(name, text, request) ==
  CASE name = "json_parse"     -> JsonParse(text)
    [] name = "schema_check"   -> SchemaCheck(text, request.format.schema)
    [] name = "sql_parser"     -> SqlParser(text)
    [] name = "sql_safety"     -> SqlSafety(text)
    [] name = "length_check"   -> LengthCheck(text, request.max_output_tokens)
    [] name = "label_check"    -> LabelCheck(text, request.format.schema)
    [] name = "citation_check" -> CitationCheck(text)
    [] name = "code_compile"   -> CodeCompile(text)
    [] name \in {"independent_review", "rubric_judge"} -> FakeJudge(text)
    [] OTHER -> "INDETERMINATE"

-----------------------------------------------------------------------------
\* Slip: any failure ends the plan.
StopsAtAnyFailure(verdict) == verdict \notin {"PASS", "INDETERMINATE"}

Stops(verdict) == verdict \in {"FAIL_GROUNDING", "FAIL_CAPABILITY"}

Verdicts(plan, text, request) == [i \in DOMAIN plan |-> Verdict(plan[i], text, request)]

\* How many of the plan's validators run.
RunLength(plan, text, request) ==
  Min({i \in DOMAIN plan : Stops(Verdict(plan[i], text, request))} \cup {Len(plan)})

RunPlan(plan, text, request) ==
  SubSeq(Verdicts(plan, text, request), 1, RunLength(plan, text, request))

PlanRaises(plan, text, request) ==
  \E i \in 1..RunLength(plan, text, request) :
    /\ plan[i] = "schema_check"
    /\ request.format.schema # Absent /\ text.json # Absent
    /\ Raises[<<text.json, request.format.schema>>]

Aggregate(verdicts) ==
  Severity[Min({k \in DOMAIN Severity : Severity[k] \in ToSet(verdicts) \cup {"PASS"}})]

\* What the loop does with an aggregate (RequestLoop's CallSucceeds).
Decision(aggregate) ==
  CASE aggregate = "PASS"            -> "accept"
    [] aggregate = "FAIL_REPAIRABLE" -> "repair"
    [] OTHER                         -> "move on"

-----------------------------------------------------------------------------
\* The seeded policies' validators, for the classes whose plans differ.
PolicyValidators ==
  [sql_review         |-> <<"sql_parser", "sql_safety", "independent_review">>,
   code_generation    |-> <<"code_compile", "schema_check">>,
   code_review        |-> <<"independent_review">>,
   structured_data    |-> <<"schema_check", "json_parse">>,
   extraction         |-> <<"schema_check">>,
   grounded_qa        |-> <<"citation_check", "independent_review">>,
   factual_qa         |-> <<"citation_check">>,
   summarization      |-> <<"length_check">>,
   classification     |-> <<"label_check">>,
   tool_selection     |-> <<"schema_check", "independent_review">>,
   general_reasoning  |-> <<"rubric_judge">>]

ByMode(planned, mode) ==
  Picked(planned,
         {i \in DOMAIN planned :
            CASE mode = "none"          -> planned[i] = "schema_check"
              [] mode = "deterministic" -> planned[i] \notin {"independent_review", "rubric_judge"}
              [] OTHER                  -> TRUE})

\* reviewed: the mode is "independent", or the risk is high and the mode allows it.
PlanFor(request, class, mode, reviewed) ==
  LET policy == PolicyValidators[class]
      gated  == IF RequiresSchema(request) /\ "schema_check" \notin ToSet(policy)
                THEN <<"schema_check">> \o policy ELSE policy
      kept   == ByMode(gated, mode)
  IN  IF reviewed /\ "independent_review" \notin ToSet(kept)
      THEN Append(kept, "independent_review") ELSE kept
=============================================================================
