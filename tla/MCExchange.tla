---------------------------- MODULE MCExchange ----------------------------
(* Every format the schema check tells apart, each with the outputs that fit it,
   that just miss it and that are no JSON; every spelling of a few asks; one HTTP
   status of each class; all four adapters.                                   *)
EXTENDS Exchange

Nobody == [x \in {} |-> 0]

Scalar(t, n) == [t |-> t, n |-> n, fields |-> Nobody, items |-> <<>>]
Object(f)    == [t |-> "object", n |-> 0, fields |-> f, items |-> <<>>]
Array(s)     == [t |-> "array", n |-> 0, fields |-> Nobody, items |-> s]
With(v)      == Object([x \in {"a"} |-> v])

one == Scalar("integer", 10)      \* numbers in tenths
half == Scalar("number", 5)
true == Scalar("boolean", 10)
yes == Scalar("string", 1)
no == Scalar("string", 2)
null == Scalar("null", 0)

MCValues == {one, half, true, yes, no, null, Object(Nobody), With(one), With(true), With(yes),
             Array(<<>>), Array(<<one>>), Array(<<true>>), Array(<<one, true>>), Array(<<With(one)>>),
             Array(<<yes>>),
             Array(<<With(one), Object(Nobody)>>), With(Array(<<one>>)), With(Array(<<yes>>))}

Schema(t) == [type |-> t, required |-> {}, properties |-> Nobody, items |-> Absent, enum |-> Absent]
HasA(s)   == [Schema("object") EXCEPT !.required = {"a"}, !.properties = [x \in {"a"} |-> s]]
ListOf(s) == [Schema("array") EXCEPT !.items = s]

MCSchemas ==
  {HasA(Schema("integer")), HasA(ListOf(Schema("integer"))),
   [HasA(Schema("number")) EXCEPT !.required = {}],
   ListOf(HasA(Schema("integer"))), ListOf(Schema("number")),
   [Schema("string") EXCEPT !.enum = {yes}], [Schema("integer") EXCEPT !.enum = {one}],
   [Schema(Absent) EXCEPT !.enum = {one, yes}],
   [ListOf(Schema("integer")) EXCEPT !.enum = {Array(<<true>>)}],
   [HasA(Schema("string")) EXCEPT !.enum = {With(yes)}],
   HasA(Schema("union"))}

MCAllSchemas ==
  MCSchemas \cup {Schema(t) : t \in {"integer", "number", "string", "union"}}
            \cup {ListOf(Schema("integer")), HasA(Schema("integer"))}

RECURSIVE MCHeight(_)
MCHeight(x) ==
  LET inside == IF "t" \in DOMAIN x THEN Within(x) ELSE Subschemas(x)
  IN  IF inside = {} THEN 0 ELSE 1 + Max({MCHeight(y) : y \in inside})

Text(json, label, sql, cites, compiles, length) ==
  [json |-> json, label |-> label, sql |-> sql, cites |-> cites, compiles |-> compiles,
   length |-> length]

MCTexts ==
  {Text(v, IF v.t = "string" THEN v ELSE Absent, "none", v.t = "array", TRUE, 4) : v \in MCValues}
  \cup {Text(Absent, yes, "none", FALSE, TRUE, 3),             \* a bare label
        Text(Absent, Absent, "none", FALSE, FALSE, 0),         \* nothing
        Text(Absent, Absent, "none", FALSE, FALSE, 9),         \* prose
        Text(Absent, Absent, "none", TRUE, FALSE, 9),          \* with a source
        Text(Absent, Absent, "read", FALSE, FALSE, 6),
        Text(Absent, Absent, "unbalanced", FALSE, FALSE, 6),
        Text(Absent, Absent, "write", FALSE, FALSE, 6)}

TextFormat == [kind |-> "text", schema |-> Absent]
Turn(role, words) == [role |-> role, words |-> words]

\* The least one can ask.
Plain == [instructions |-> <<>>, turns |-> <<Turn("user", <<"hello">>)>>, picture |-> FALSE,
          tools |-> {}, format |-> TextFormat, limit |-> Absent, reasoning |-> FALSE]

MCAsks ==
  {[Plain EXCEPT !.format = [kind |-> "json_schema", schema |-> s]] : s \in MCSchemas} \cup
  {[Plain EXCEPT !.instructions = <<"be", "brief">>, !.limit = 2,
                 !.turns = <<Turn("user", <<"hello", "you">>), Turn("assistant", <<"yes">>),
                             Turn("user", <<"go", "on">>)>>],
   [Plain EXCEPT !.picture = TRUE, !.tools = {"search"}, !.reasoning = TRUE,
                 !.format = [kind |-> "json_object", schema |-> Absent]]}

MCWords == {"hello", "be", "brief", "you", "yes", "go", "on"}

MCClasses == {"sql_review", "structured_data", "code_generation", "grounded_qa", "summarization",
              "classification", "general_reasoning"}
=============================================================================
