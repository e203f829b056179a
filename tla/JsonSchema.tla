----------------------------- MODULE JsonSchema -----------------------------
(***************************************************************************)
(* The part of JSON Schema by which a program states what a decision or a  *)
(* model's answer must look like (stone_json_schema.rs).  A schema is      *)
(* checked once, validate_schema_definition, and then judges answers,      *)
(* validate_instance: no issue means that the answer is taken, and what is *)
(* reported goes back to the model for another try.                        *)
(*                                                                         *)
(* JSON is a pair of a type and what it holds; an object is a function on  *)
(* its names, visited in the order of its map.  The wording of issues is   *)
(* left out: an issue is where and of which keyword.                       *)
(***************************************************************************)
EXTENDS Integers, Sequences, SequencesExt, FiniteSetsExt

CONSTANTS
    MAX_SCHEMA_DEPTH, MAX_SCHEMA_BRANCHES, MAX_VALIDATION_ISSUES,
    LongNames        \* the names of more than MAX_SCHEMA_KEY_BYTES bytes

JNull == <<"null", 0>>
JBool(b) == <<"bool", b>>
JInt(n) == <<"int", n>>
JFloat(n, d) == <<"float", n, d>>      \* n / d, also where that is whole
JStr(s) == <<"str", s>>
JList(s) == <<"list", s>>
JObj(f) == <<"obj", f>>

Is(v, type) == v[1] = type
IsNumber(v) == Is(v, "int") \/ Is(v, "float")
Items(v) == v[2]
NoSchemaMap == [name \in {} |-> JNull]

\* object.get(keyword), where it may be anything.
Has(schema, keyword) == keyword \in DOMAIN schema[2]
Get(schema, keyword) == schema[2][keyword]
HasOf(schema, keyword, type) == Has(schema, keyword) /\ Is(Get(schema, keyword), type)

Over(v) == IF Is(v, "int") THEN 1 ELSE v[3]
Less(v, w) == v[2] * Over(w) < w[2] * Over(v)
IsWhole(v) == IsNumber(v) /\ v[2] % Over(v) = 0

-----------------------------------------------------------------------------
(* validate_schema_definition *)

Keywords ==
    {"$schema", "$id", "title", "description", "type", "properties", "required",
     "additionalProperties", "items", "minItems", "maxItems", "minLength", "maxLength",
     "minimum", "maximum", "enum", "const", "oneOf", "anyOf"}
Types == {"object", "array", "string", "integer", "number", "boolean", "null"}

\* Bounds of a kind each have their type, and the lower is not above the upper.
BoundsFit(schema, minimum, maximum, Fits(_)) ==
    /\ \A keyword \in {minimum, maximum} :
          Has(schema, keyword) => Fits(Get(schema, keyword))
    /\ Has(schema, minimum) /\ Has(schema, maximum) =>
          ~Less(Get(schema, maximum), Get(schema, minimum))
optional_usize(v) == Is(v, "int") /\ v[2] >= 0
validate_non_negative_integer_pair(schema, minimum, maximum) ==
    BoundsFit(schema, minimum, maximum, optional_usize)
validate_number_pair(schema, minimum, maximum) ==
    BoundsFit(schema, minimum, maximum, IsNumber)

\* What of a schema can be judged without looking into the schemas it holds.
NodeFits(schema) ==
    /\ DOMAIN schema[2] \subseteq Keywords
    /\ Has(schema, "type") =>
          Is(Get(schema, "type"), "str") /\ Get(schema, "type")[2] \in Types
    /\ Has(schema, "properties") =>
          /\ Is(Get(schema, "properties"), "obj")
          /\ DOMAIN Items(Get(schema, "properties")) \cap LongNames = {}
    /\ Has(schema, "required") =>
          /\ Is(Get(schema, "required"), "list")
          /\ LET names == Items(Get(schema, "required"))
             IN  /\ \A i \in DOMAIN names : Is(names[i], "str") /\ names[i][2] \notin LongNames
                 /\ IsInjective(names)
    /\ Has(schema, "additionalProperties") => Is(Get(schema, "additionalProperties"), "bool")
    /\ validate_non_negative_integer_pair(schema, "minItems", "maxItems")
    /\ validate_non_negative_integer_pair(schema, "minLength", "maxLength")
    /\ validate_number_pair(schema, "minimum", "maximum")
    /\ Has(schema, "enum") => Is(Get(schema, "enum"), "list") /\ Items(Get(schema, "enum")) # <<>>
    /\ \A keyword \in {"oneOf", "anyOf"} \cap DOMAIN schema[2] :
          /\ Is(Get(schema, keyword), "list")
          /\ Len(Items(Get(schema, keyword))) \in 1 .. MAX_SCHEMA_BRANCHES

\* The schemas a schema holds.
Inner(schema) ==
    (IF Has(schema, "properties") THEN Range(Items(Get(schema, "properties"))) ELSE {})
      \cup (IF Has(schema, "items") THEN {Get(schema, "items")} ELSE {})
      \cup UNION {ToSet(Items(Get(schema, keyword))) :
                     keyword \in {"oneOf", "anyOf"} \cap DOMAIN schema[2]}

RECURSIVE validate_schema_node(_, _)
validate_schema_node(schema, depth) ==
    /\ depth <= MAX_SCHEMA_DEPTH
    /\ Is(schema, "obj")
    /\ NodeFits(schema)
    /\ \A inner \in Inner(schema) : validate_schema_node(inner, depth + 1)

validate_schema_definition(schema) == validate_schema_node(schema, 0)

-----------------------------------------------------------------------------
(* validate_instance: the issues so far go through every check. *)

Issue(path, keyword) == [path |-> path, keyword |-> keyword]
push_issue(issues, path, keyword) ==
    IF Len(issues) < MAX_VALIDATION_ISSUES THEN Append(issues, Issue(path, keyword)) ELSE issues
PushIf(wrong, issues, path, keyword) ==
    IF wrong THEN push_issue(issues, path, keyword) ELSE issues

instance_has_type(v, kind) ==
    CASE kind = "object" -> Is(v, "obj")
      [] kind = "array" -> Is(v, "list")
      [] kind = "string" -> Is(v, "str")
      [] kind = "integer" -> IsWhole(v)
      [] kind = "number" -> IsNumber(v)
      [] kind = "boolean" -> Is(v, "bool")
      [] kind = "null" -> Is(v, "null")
      [] OTHER -> FALSE

\* const and enum compare JSON: 1 and 1.0 differ.
ValueIssues(schema, v, path, issues) ==
    LET first == PushIf(Has(schema, "const") /\ v # Get(schema, "const"), issues, path, "const")
    IN  PushIf(HasOf(schema, "enum", "list") /\ v \notin ToSet(Items(Get(schema, "enum"))),
               first, path, "enum")
HasWrongType(schema, v) ==
    HasOf(schema, "type", "str") /\ ~instance_has_type(v, Get(schema, "type")[2])

SizeIssues(schema, size, minimum, maximum, path, issues) ==
    LET first == PushIf(HasOf(schema, minimum, "int") /\ size < Get(schema, minimum)[2],
                        issues, path, minimum)
    IN  PushIf(HasOf(schema, maximum, "int") /\ size > Get(schema, maximum)[2],
               first, path, maximum)
StringIssues(schema, v, path, issues) ==
    SizeIssues(schema, Len(v[2]), "minLength", "maxLength", path, issues)
NumberIssues(schema, v, path, issues) ==
    LET first == PushIf(Has(schema, "minimum") /\ Less(v, Get(schema, "minimum")),
                        issues, path, "minimum")
    IN  PushIf(Has(schema, "maximum") /\ Less(Get(schema, "maximum"), v), first, path, "maximum")

RECURSIVE validate_instance_node(_, _, _, _, _)

validate_instance(schema, v) == validate_instance_node(schema, v, <<>>, 0, <<>>)

\* How many branches take the value, each judged on its own.
Takers(schema, keyword, v) ==
    LET branches == Items(Get(schema, keyword))
    IN  {i \in DOMAIN branches : validate_instance(branches[i], v) = <<>>}
OneTakes(takers) == Cardinality(takers) = 1
BranchIssues(schema, v, path, issues) ==
    LET first == PushIf(/\ HasOf(schema, "oneOf", "list")
                        /\ ~OneTakes(Takers(schema, "oneOf", v)), issues, path, "oneOf")
    IN  PushIf(HasOf(schema, "anyOf", "list") /\ Takers(schema, "anyOf", v) = {},
               first, path, "anyOf")

\* The branch a mismatch of oneOf is explained by: the first of those with the
\* fewest issues.
one_of_mismatch_message(schema, v) ==
    LET branches == Items(Get(schema, "oneOf"))
        count == [i \in DOMAIN branches |-> Len(validate_instance(branches[i], v))]
    IN  Min({i \in DOMAIN branches : \A j \in DOMAIN branches : count[i] <= count[j]})

ObjectIssues(schema, v, path, depth, issues) ==
    LET names == Items(v)
        required == IF HasOf(schema, "required", "list")
                    THEN SelectSeq(Items(Get(schema, "required")), LAMBDA n : Is(n, "str"))
                    ELSE <<>>
        properties == IF HasOf(schema, "properties", "obj")
                      THEN Items(Get(schema, "properties")) ELSE NoSchemaMap
        missing == FoldLeft(LAMBDA found, name :
                              PushIf(name[2] \notin DOMAIN names, found,
                                     Append(path, name[2]), "required"),
                            issues, required)
        Visit(found, name) ==
            IF name \in DOMAIN properties
            THEN validate_instance_node(properties[name], names[name],
                                        Append(path, name), depth + 1, found)
            ELSE PushIf(Has(schema, "additionalProperties")
                          /\ Get(schema, "additionalProperties") = JBool(FALSE),
                        found, Append(path, name), "additionalProperties")
    IN  FoldLeft(Visit, missing, SetToSeq(DOMAIN names))

ArrayIssues(schema, v, path, depth, issues) ==
    LET sized == SizeIssues(schema, Len(Items(v)), "minItems", "maxItems", path, issues)
        Visit(found, i) ==
            validate_instance_node(Get(schema, "items"), Items(v)[i], Append(path, i),
                                   depth + 1, found)
    IN  IF Has(schema, "items")
        THEN FoldLeft(Visit, sized, [i \in DOMAIN Items(v) |-> i])
        ELSE sized

validate_instance_node(schema, v, path, depth, issues) ==
    LET valued == ValueIssues(schema, v, path, issues)
        branched == BranchIssues(schema, v, path, valued)
    IN  CASE \/ Len(issues) >= MAX_VALIDATION_ISSUES
             \/ depth > MAX_SCHEMA_DEPTH
             \/ ~Is(schema, "obj") -> issues
          [] HasWrongType(schema, v) -> push_issue(valued, path, "type")
          [] Is(v, "obj") -> ObjectIssues(schema, v, path, depth, branched)
          [] Is(v, "list") -> ArrayIssues(schema, v, path, depth, branched)
          [] Is(v, "str") -> StringIssues(schema, v, path, branched)
          [] IsNumber(v) -> NumberIssues(schema, v, path, branched)
          [] OTHER -> branched

-----------------------------------------------------------------------------
(* Laws *)

\* What a schema says of a value, by the meaning of its keywords.
RECURSIVE Conforms(_, _)
Conforms(schema, v) ==
    LET s == Items(schema)
        Of(keyword) == keyword \in DOMAIN s
    IN  /\ Of("type") => instance_has_type(v, s["type"][2])
        /\ Of("const") => v = s["const"]
        /\ Of("enum") => v \in ToSet(Items(s["enum"]))
        /\ Of("oneOf") => \E i \in DOMAIN Items(s["oneOf"]) :
                             \A j \in DOMAIN Items(s["oneOf"]) :
                                Conforms(Items(s["oneOf"])[j], v) <=> i = j
        /\ Of("anyOf") => \E branch \in ToSet(Items(s["anyOf"])) : Conforms(branch, v)
        /\ Is(v, "str") => /\ Of("minLength") => Len(v[2]) >= s["minLength"][2]
                           /\ Of("maxLength") => Len(v[2]) <= s["maxLength"][2]
        /\ IsNumber(v) => /\ Of("minimum") => ~Less(v, s["minimum"])
                          /\ Of("maximum") => ~Less(s["maximum"], v)
        /\ Is(v, "list") => /\ Of("minItems") => Len(Items(v)) >= s["minItems"][2]
                            /\ Of("maxItems") => Len(Items(v)) <= s["maxItems"][2]
                            /\ Of("items") => \A w \in ToSet(Items(v)) : Conforms(s["items"], w)
        /\ Is(v, "obj") =>
              /\ Of("required") => \A name \in ToSet(Items(s["required"])) :
                                      name[2] \in DOMAIN Items(v)
              /\ \A name \in DOMAIN Items(v) :
                    IF Of("properties") /\ name \in DOMAIN Items(s["properties"])
                    THEN Conforms(Items(s["properties"])[name], Items(v)[name])
                    ELSE Of("additionalProperties") => s["additionalProperties"] = JBool(TRUE)

\* A schema and a value below them along a path, if there are such.
RECURSIVE Below(_, _, _)
Below(schema, v, path) ==
    IF path = <<>> THEN <<schema, v>>
    ELSE LET step == Head(path)
         IN  IF Is(v, "list")
             THEN Below(Get(schema, "items"), Items(v)[step], Tail(path))
             ELSE Below(Items(Get(schema, "properties"))[step], Items(v)[step], Tail(path))

\* A value is taken by an admitted schema exactly when it conforms to it, however
\* deep the schema is and however many issues there are; an issue is there where
\* the value does not conform; and a mismatch of oneOf is explained by a branch
\* that has something to say.
AnswersConform(schema, v) ==
    LET issues == validate_instance(schema, v)
    IN  validate_schema_definition(schema) =>
          /\ issues = <<>> <=> Conforms(schema, v)
          /\ Len(issues) <= MAX_VALIDATION_ISSUES
          /\ \A issue \in ToSet(issues) :
                IF issue.keyword \in {"required", "additionalProperties"}
                THEN ~Conforms(Below(schema, v, Front(issue.path))[1],
                               Below(schema, v, Front(issue.path))[2])
                ELSE LET at == Below(schema, v, issue.path)
                     IN  /\ ~Conforms(at[1], at[2])
                         /\ issue.keyword = "oneOf" /\ Takers(at[1], "oneOf", at[2]) = {} =>
                              LET nearest == Items(Get(at[1], "oneOf"))
                                                [one_of_mismatch_message(at[1], at[2])]
                              IN  validate_instance(nearest, at[2]) # <<>>
=============================================================================
