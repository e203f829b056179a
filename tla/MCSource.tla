------------------------------ MODULE MCSource ------------------------------
(***************************************************************************)
(* The inputs on which the laws of programs' texts (Admission, Correction),*)
(* of the evidence of stages (Evidence) and of the documents that are read *)
(* (AssetImage, JsonSchema, JsonView) are checked.  A behaviour begins     *)
(* with a seed, and Grown are the subjects that one step makes of it.      *)
(***************************************************************************)
EXTENDS Integers, Sequences, SequencesExt, FiniteSetsExt, TLC

VARIABLE subject

About(kind) == subject.kind = kind
Strings(S, n) == UNION {[1 .. k -> S] : k \in 0 .. n}
Seed(of, it) == [kind |-> "seed", of |-> of, it |-> it]

-----------------------------------------------------------------------------
(* Programs: two statements of every kind around calls, awaits, lambdas    *)
(* and comprehensions of and by the same few names, in a session without   *)
(* names, with a closure, with a function by another name, and with a      *)
(* function called like a built-in.                                        *)

Program == INSTANCE Admission WITH
    Builtins <- {"run", "stage"}, Schema <- [n \in {"run", "stage"} |-> {"k"}],
    Accepts <- ("run" :> {"k"} @@ "stage" :> {"k", "goal"}), MaxCalls <- 2, MaxRounds <- 1
\* The built-ins whose schema has every keyword they read.
Complete == {"run"}

Leaf == Program!Expr("leaf", "", <<>>)
Name(n) == Program!Expr("name", n, <<>>)
Call(n, args) == Program!Expr("call", n, args)
Keyed(n, k) == [Call(n, <<Leaf>>) EXCEPT !.named = <<k>>]
Await(e) == Program!Expr("await", "", <<e>>)
Lambda(x, e) == [Program!Expr("lambda", "", <<e>>) EXCEPT !.binds = <<x>>]
Comprehension(x, e) == [Program!Expr("comp", "", <<Leaf, e>>) EXCEPT !.binds = <<x>>]
Exprs ==
  {Call("f", <<>>), Call("f", <<Leaf>>), Call("f", <<Name("f")>>), Keyed("f", "x"), Keyed("run", "k"), Keyed("run", "goal"),
   Keyed("stage", "goal"), Call("get", <<>>), Call("get", <<Leaf>>), Call("x", <<Leaf>>), Name("f"),
   Await(Call("run", <<>>)), Await(Call("f", <<>>)), Await(Name("f")),
   Await(Program!Expr("method", "accept", <<Name("f")>>)),
   Lambda("x", Call("f", <<>>)), Lambda("x", Call("x", <<>>)), Lambda("x", Await(Name("x"))),
   Comprehension("x", Call("f", <<>>)), Comprehension("f", Leaf),
   Comprehension("x", Call("x", <<Leaf>>))}

Stmt(kind, binds, exprs, blocks) == Program!Stmt(kind, binds, exprs, blocks)
Evaluate(e) == Stmt("expr", <<>>, <<e>>, <<>>)
Def(f, params, async, body) ==
    [Stmt("def", <<f>>, <<>>, <<body>>) EXCEPT !.params = params, !.async = async]
Param(x, default) == [name |-> x, default |-> default]
Stmts ==
  UNION {{ Evaluate(e), Stmt("assign", <<"f">>, <<e>>, <<>>),
           Def("f", <<>>, FALSE, <<Evaluate(e)>>), Def("f", <<>>, TRUE, <<Evaluate(e)>>),
           Def("f", <<Param("x", <<>>)>>, FALSE, <<Stmt("return", <<>>, <<e>>, <<>>)>>),
           Def("f", <<Param("x", <<e>>)>>, FALSE, <<>>),
           [Stmt("assign", <<"f">>, <<Leaf>>, <<>>) EXCEPT !.hidden = <<e>>],
           Stmt("for", <<"x">>, <<Leaf>>, <<<<Evaluate(e)>>>>),
           Stmt("if", <<>>, <<Leaf>>, <<<<Evaluate(e)>>, <<Stmt("raise", <<>>, <<e>>, <<>>)>>>>),
           Stmt("try", <<"x">>, <<>>, <<<<Evaluate(Call("f", <<>>))>>, <<Evaluate(e)>>>>),
           [Stmt("with", <<"x">>, <<Leaf>>, <<<<Evaluate(e)>>>>) EXCEPT !.async = TRUE],
           Stmt("with", <<"x">>, <<Leaf>>, <<<<Evaluate(e)>>>>) } : e \in Exprs}

Closure == [closure |-> TRUE, params |-> <<"x">>, body |-> Name("x"), captures |-> <<>>]
Sessions == { [locals |-> <<>>, functions |-> <<>>],
              [locals |-> [f |-> Closure], functions |-> <<>>],
              [locals |-> [run |-> Closure], functions |-> <<>>],
              [locals |-> [f |-> Program!Named(Def("run", <<>>, FALSE, <<>>))], functions |-> <<>>],
              [locals |-> <<>>, functions |-> [run |-> Def("run", <<Param("x", <<>>)>>, FALSE, <<>>)]] }
ProgramSeeds == {Seed("program", [first |-> s, session |-> n]) : s \in Stmts, n \in Sessions}
\* In a session that has names, the second statement is a bare expression.
GrownPrograms(it) ==
  {[kind |-> "program", stmts |-> <<it.first, s>>, session |-> it.session] :
     s \in IF it.session.locals = <<>> /\ it.session.functions = <<>> THEN Stmts
           ELSE {Evaluate(e) : e \in Exprs}}

-----------------------------------------------------------------------------
(* Corrections: texts of words and signs, every error about a name, and    *)
(* records that come back changed or for another text.                     *)

Correct == INSTANCE Correction WITH
    Letter <- {"a", "b", "g", "_"}, Digit <- {"0"}, Space <- {" ", "\n"}, Line <- {"\n"},
    Tail2 <- {"T"}, CharRank <- ("0" :> 1 @@ "_" :> 2 @@ "a" :> 3 @@ "b" :> 4 @@ "g" :> 5),
    Callable <- {<<"a", "b">>, <<"b", "_", "a">>, <<"b", "a">>, <<"b", "b">>},
    MaxCandidates <- 2, MaxExpected <- 2, MaxSourceBytes <- 8, MaxNameBytes <- 4,
    ShortName <- 2, MediumName <- 3

Words == {<<"a">>, <<"a", "b">>, <<"b", "a">>, <<"a", "a", "b">>, <<"0">>}
Signs == {<<"(">>, <<"=">>, <<".">>, <<"def ">>, <<"\n">>, <<" ">>, <<"L", "T">>}
Sources == {FlattenSeq(tokens) : tokens \in Strings(Words \cup Signs, 3)
                                   \cup [1 .. 4 -> {<<"a", "b">>, <<"a">>, <<"(">>, <<"=">>}]}
Errors ==
  [code : {"admission"}, about : {"call", "keyword", "attribute"}, received : Words,
   expected : {{<<"a", "b">>, <<"a", "0">>, <<"b", "0">>}}]
  \cup [code : {"unsupported"}, about : {"handler", "role", "acceptance"}, received : {<<"a">>},
        expected : {{}}]
Corrections(source) ==
  [kind : {"correction"}, source : {source}, error : Errors, other : {source},
   change : {[start |-> 0, end |-> 0]}]
  \cup [kind : {"correction"}, source : {source}, error : Errors, other : {<<"a", "b">> \o source},
        change : {[start |-> 0, end |-> 0], [start |-> 1, end |-> 1], [start |-> 2, end |-> 2]}]

-----------------------------------------------------------------------------
(* Images of up to two files, and devices that hold one with a byte        *)
(* changed and the end cut off, with the contents said to begin earlier    *)
(* or not.                                                                 *)

Image == INSTANCE AssetImage WITH
    Base <- 8, Wide <- 2, BlockAlign <- 4, DataAlign <- 16, Magic <- 5, Version <- 1,
    Slash <- 2, Dot <- 1, LabelByte <- {3, 4}, BrokenByte <- {7}

ImagePaths == {<<2, 3>>, <<2, 4>>, <<2, 3, 2, 4>>, <<2, 3, 1>>, <<2, 1>>, <<2>>, <<3>>}
Entries == [path : ImagePaths, content : {<<>>, <<3>>, <<3, 4, 0>>}]
Images == [metadata : [uuid : {4}, label : {<<>>, <<3, 4>>, <<2>>}],
           entries : UNION {[1 .. n -> Entries] : n \in 0 .. 2}]
\* The data offset one alignment lower than it is (it ends the header).
Earlier(image, bytes) ==
  LET at == 5 + Len(image.metadata.label)
      lower == Image!Put(Image!DataStart(image) - 16, 2)
  IN  [i \in DOMAIN bytes |-> IF i \in at + 1 .. at + 2 THEN lower[i - at] ELSE bytes[i]]
Devices(image) ==
  LET bytes == Image!encode(image).value
      few == \/ Len(image.entries) < 2
             \/ /\ image.metadata.label = <<>>
                /\ image.entries[1] = [path |-> <<2, 3>>, content |-> <<3, 4, 0>>]
  IN  IF ~few \/ ~Image!encode(image).ok THEN {}
      ELSE {[kind |-> "device", bytes |-> SubSeq([start EXCEPT ![at] = b], 1, Len(bytes) - cut)] :
              start \in {bytes, Earlier(image, bytes)},
              at \in 1 .. Image!DataStart(image), b \in 0 .. 7, cut \in {0, 4}}

-----------------------------------------------------------------------------
(* Schemas, well formed and not, of up to three levels, and JSON to judge. *)

Schema == INSTANCE JsonSchema WITH
    MAX_SCHEMA_DEPTH <- 1, MAX_SCHEMA_BRANCHES <- 2, MAX_VALIDATION_ISSUES <- 2,
    LongNames <- {"long"}

One == Schema!JInt(1)
Type(t) == "type" :> Schema!JStr(t)
Obj(f) == Schema!JObj(f)
Plain ==
  { <<>>, Type("integer"), Type("string"), Type("object"), "const" :> One,
    "enum" :> Schema!JList(<<One, Schema!JNull>>), "enum" :> Schema!JList(<<>>), "format" :> One,
    "type" :> One, "minimum" :> Schema!JFloat(3, 2), "minimum" :> One @@ "maximum" :> Schema!JInt(0),
    "maximum" :> Schema!JInt(2) @@ Type("number"), "minLength" :> One, "maxItems" :> One,
    "minItems" :> Schema!JFloat(1, 1),
    "required" :> Schema!JList(<<Schema!JStr("a")>>) @@ "additionalProperties" :> Schema!JBool(FALSE) }
Objects(S) ==
  {Obj("properties" :> Obj(n :> s) @@ more) : n \in {"a", "long"}, s \in S,
     more \in { <<>>, "additionalProperties" :> Schema!JBool(FALSE),
                "required" :> Schema!JList(<<Schema!JStr("a"), Schema!JStr("b")>>) }}
Lists(S) == {Obj("items" :> s @@ more) : s \in S, more \in {<<>>, "minItems" :> Schema!JInt(2)}}
Branches(S, T) ==
  {Obj(k :> Schema!JList(<<s, t>>)) : k \in {"oneOf", "anyOf"}, s \in S, t \in T}
Leaves == {Obj(f) : f \in Plain} \cup {One}
Few == {Obj(<<>>), Obj(Type("integer")), Obj("const" :> One)}
Schemas == Leaves \cup Objects(Leaves) \cup Lists(Leaves) \cup Branches(Leaves, Leaves)
             \cup Lists(Lists(Few)) \cup Objects(Lists(Few)) \cup Branches(Objects(Few), Lists(Few))
             \cup Lists(Lists(Lists(Few)))
Scalars == {Schema!JNull, One, Schema!JFloat(1, 1), Schema!JInt(2), Schema!JStr(<<>>),
            Schema!JStr(<<"x">>)}
Judged ==
  Scalars \cup {Schema!JList(<<>>), Schema!JList(<<Schema!JNull, One>>), Obj(<<>>), Obj("b" :> One),
                Obj("a" :> Schema!JList(<<Schema!JNull>>))}
    \cup UNION {{Schema!JList(<<s>>), Schema!JList(<<Schema!JList(<<s>>)>>), Obj("a" :> s),
                 Obj("a" :> s @@ "b" :> One)} : s \in Scalars}

-----------------------------------------------------------------------------
(* Rows of one field with a byte changed or lost, rows of two, and files   *)
(* of lines.                                                               *)

Rows == INSTANCE JsonView

Quoted(s) == <<"\"">> \o s \o <<"\"">>
Keys == {<<"a">>, <<"b">>, <<>>, <<"\"">>}
KeyTexts == {Quoted(<<"a">>), Quoted(<<"\\", "u">>), Quoted(<<"\\", "\"">>), Quoted(<<"b">>)}
ValueTexts ==
  { <<"1">>, <<"T">>, Quoted(<<"a">>), Quoted(<<"\\", "\\">>), Quoted(<<"}", "\\", "\"", ",">>),
    Quoted(<<"\\", "u">>), <<"[", "]">>,
    <<"[", "1", " ", ",", "[", "T", "]", ",">> \o Quoted(<<"]">>) \o <<"]">>,
    <<"[", "{", "}", ",", " ", "T", "]">>,
    <<"{">> \o Quoted(<<"a">>) \o <<":", "[", "1", ",", "1", "]", ",">> \o Quoted(<<"b">>)
      \o <<":">> \o Quoted(<<",">>) \o <<"}">> }
Member(k, v, space) == k \o <<":">> \o space \o v
OneField == {<<"{">> \o Member(k, v, space) \o space \o <<"}">> :
               k \in KeyTexts, v \in ValueTexts, space \in {<<>>, <<" ">>}}
TwoFields == {<<"{">> \o Member(k, v, <<>>) \o <<",", " ">> \o Member(Quoted(<<"a">>), w, <<>>) \o <<"}">> :
                k \in KeyTexts, v \in ValueTexts, w \in ValueTexts}
Edited(row) ==
  {row} \cup {[row EXCEPT ![i] = c] : i \in DOMAIN row, c \in {"\"", "\\", "}", "]", ",", " "}}
    \cup {RemoveAt(row, i) : i \in DOMAIN row}
RowsOf(bytes) == [kind : {"line"}, bytes : IF bytes \in OneField THEN Edited(bytes) ELSE {bytes}]
Files == Strings({"\n", " ", "a"}, 5)

-----------------------------------------------------------------------------
(* Evidence: calls of every contract with arguments that fit or do not, in *)
(* workspaces and after outcomes that suit them or do not; claims; probes. *)

Stage == INSTANCE Evidence WITH
    MaxSummary <- 7, MaxReferences <- 2, MaxReference <- 2, MaxPath <- 2, MaxArgv <- 2,
    MaxContracts <- 2, MaxFields <- 2, MaxName <- 2, MaxQuestion <- 2, MaxNeedles <- 1,
    MaxNeedle <- 1, MaxState <- 1, MaxCode <- 1, MaxTail <- 2, Identifier <- {"a", "b"},
    ToolPlane <- <<"t">>, Machine <- (<<"mips">> :> 1 @@ <<"riscv64">> :> 2), Digits <- 3

Text(s) == Stage!Str(s)
ListOf(s) == Stage!List([i \in DOMAIN s |-> Text(s[i])])
Optional(field, values) == {<<>>} \cup {field :> v : v \in values}
Contract(name, positional, named) == [name |-> name, positional |-> positional, named |-> named]
On(name, S, named) == {Contract(name, <<v>>, named) : v \in S}
PathTexts == {Text(p) : p \in {<<" ">>, <<"t">>, <<"a", "a">>, <<"t", "a", "a">>}} \cup {Stage!IntV(1)}
Named(name, v) == <<name, Text(<<v>>)>>
Elf == Named("format", "elf")
Bmp == Named("format", "bmp")
FileCalls ==
  On("file_nonempty", PathTexts, <<>>)
    \cup UNION {On("artifact", PathTexts, named) : named \in
           { <<>>, <<Elf>>, <<Bmp>>, <<Elf, Named("arch", "mips")>>, <<Named("arch", "mips")>>,
             <<Elf, Named("arch", "riscv64")>>, <<Elf, Named("arch", "z80")>>, <<Elf, Elf>> }}
    \cup UNION {On("file_valid", PathTexts, named) : named \in
           { <<>>, <<Bmp>>, <<Elf>>, <<Bmp, <<"nonempty", Stage!Flag(FALSE)>>>>,
             <<<<"nonempty", Stage!Flag(FALSE)>>>>, <<<<"nonempty", Text(<<>>)>>>> }}
Described(order, d) == <<"resolved", Stage!Rec([n \in ToSet(order) |-> d]), order>>
Predicate(fields) == Stage!Rec("evidence" :> Stage!Rec(fields))
DecisionCalls ==
  {Contract("decision_recorded", <<>>, <<>>)}
    \cup {Contract("decision_recorded", <<>>, <<<<how, ListOf(names)>>>>) : how \in {"fields", "resolved"},
            names \in Strings({<<"a">>, <<"b", "b">>}, 2) \cup {<<<<"c">>>>, <<<<"a">>, <<"b">>, <<"a", "b">>>>}}
    \cup {Contract("decision_recorded", <<>>, <<Described(<<<<"a">>, <<"b", "b">>>>, d)>>) : d \in
            { Text(<<"a">>), Text(<<" ">>), Stage!Rec(<<>>), Predicate("success" :> Stage!Flag(TRUE)),
              Predicate(<<>>) }}
Returned(satisfied, references) ==
  Stage!workflow_evidence_value([satisfied |-> satisfied, summary |-> <<"a">>, references |-> references])
OutcomeCalls ==
  On("command_succeeded", {ListOf(s) : s \in Strings({<<"a">>}, 3)} \cup {Text(<<"a">>)}, <<>>)
    \cup {Contract("stdout_nonempty", <<>>, <<>>)} \cup DecisionCalls
    \cup On("handler", {Returned(TRUE, <<<<"a">>>>), Returned(FALSE, <<>>), Returned(TRUE, <<>>),
                        Stage!Rec("kind" :> Text(<<"a">>))}, <<>>)
Parts == {c \in FileCalls : c.positional[1] = Text(<<"t">>) /\ Len(c.named) < 2}
           \cup On("command_succeeded", {ListOf(<<<<"a">>>>)}, <<>>)
           \cup {Contract("stdout_nonempty", <<>>, <<>>)} \cup On("handler", {Returned(TRUE, <<<<"a">>>>)}, <<>>)
AllCalls ==
  {Contract("all_evidence", <<>>, <<>>)}
    \cup {Contract("all_evidence", <<c, d>>, <<>>) : c \in Parts, d \in Parts}
    \cup {Contract("all_evidence", <<Contract("all_evidence", <<c, c>>, <<>>), c>>, <<>>) : c \in Parts}

AFile(kind, bytes) == [kind |-> kind, bytes |-> bytes]
WorkFiles ==
  {AFile("missing", <<>>), AFile("link", <<1, 2>>), AFile("unreadable", <<>>)}
    \cup {AFile("file", b) : b \in {<<>>, <<1, 2>>, <<3, 1, 1>>, <<3, 0, 1, 0>>, <<3, 1, 1, 0>>,
                                    <<3, 2, 0, 1>>, <<3, 2, 1, 0>>, <<3, 1, 2, 0>>}}
Run(kind, stderr) == [kind |-> kind, stderr |-> stderr]
World(file, outcome) ==
  [file |-> file, tool |-> AFile("missing", <<>>), gateway |-> FALSE, run |-> Run("answers", <<>>),
   outcome |-> outcome, findings |-> <<>>]
FileWorlds ==
  {World(f, Stage!Nothing) : f \in WorkFiles}
    \cup {[World(f, Stage!Nothing) EXCEPT !.gateway = TRUE, !.tool = t, !.run = r] :
            f \in {AFile("missing", <<>>), AFile("file", <<1, 2>>), AFile("unreadable", <<>>)},
            t \in WorkFiles,
            r \in {Run("answers", <<>>), Run("lost", <<>>), Run("stopped", <<" ">>), Run("stopped", <<"x", "x">>)}}
Outcomes ==
  {a @@ ok @@ exit : a \in Optional("argv", {ListOf(<<<<"a">>>>), ListOf(<<<<"a">>, <<"a">>>>), Text(<<>>)}),
     ok \in Optional("ok", {Stage!Flag(TRUE), Stage!Flag(FALSE), Text(<<>>)}),
     exit \in Optional("exit_code", {Stage!IntV(0), Stage!IntV(1), Stage!Nothing})}
    \cup {"stdout" :> v : v \in {Text(<<>>), Text(<<"a">>), Stage!IntV(1)}}
Decisions ==
  {k @@ m @@ f :
     k \in Optional("kind", {Text(<<"decision_recorded">>), Text(<<"finish_requested">>),
                             Text(<<"still_running">>), Stage!IntV(1)}),
     m \in Optional("message", {Text(<<" ">>), Text(<<"x">>)}),
     f \in Optional("findings", {Stage!Rec(<<"a">> :> Text(<<"x">>)),
                                 Stage!Rec(<<"a">> :> Text(<<"x">>) @@ <<"b", "b">> :> Text(<<"x">>))})}
Finding(state) ==
  Stage!Rec([state |-> Text(<<state>>), value |-> Text(<<"x">>), basis |-> Text(<<"x">>)])
Findings ==
  {<<>>, <<"a">> :> Finding("resolved"), <<"a">> :> Finding("resolved") @@ <<"b", "b">> :> Finding("unknown"),
   <<"a">> :> Finding("resolved") @@ <<"b", "b">> :> Finding("resolved"),
   <<"a">> :> Text(<<"x">>) @@ <<"b", "b">> :> Stage!Rec("state" :> Text(<<"resolved">>))}
OutcomeWorlds ==
  {World(AFile("missing", <<>>), Stage!Nothing)}
    \cup {World(AFile("file", <<1, 2>>), Stage!Rec(o)) : o \in Outcomes}
    \cup {[World(AFile("file", <<>>), Stage!Rec(o)) EXCEPT !.findings = f] : o \in Decisions, f \in Findings}
FewWorlds ==
  {w \in OutcomeWorlds : w.findings = <<>> /\ w.file.bytes # <<>>}
    \cup {w \in FileWorlds : w.gateway /\ w.tool.bytes \in {<<>>, <<1, 2>>}}
WorldsFor(call) ==
  CASE call \in FileCalls -> FileWorlds [] call \in OutcomeCalls -> OutcomeWorlds [] OTHER -> FewWorlds

Claims ==
  {Stage!Flag(TRUE), Stage!Flag(FALSE), Text(<<>>)}
    \cup {Stage!Rec(ok @@ exit @@ code @@ err @@ why) :
            ok \in Optional("ok", {Stage!Flag(TRUE), Stage!Flag(FALSE)}),
            exit \in Optional("exit_code", {Stage!IntV(1)}),
            code \in Optional("code", {Text(<<>>), Text(<<"c", "c">>)}),
            err \in Optional("stderr", {Text(<<" ">>), Text(<<" ", "e", "e", "e">>)}),
            why \in Optional("message", {Text(<<"m">>)})
                   \cup Optional("explanation", {Stage!Rec("summary" :> Text(<<"s">>))})}
Statements(claim) ==
  [kind : {"claim"}, claim : {claim},
   summary : {Text(s) : s \in {<<>>, <<" ">>, <<"a">>, [i \in 1 .. 7 |-> "a"], [i \in 1 .. 8 |-> "a"]}}
             \cup {Stage!IntV(1)},
   given : {ListOf(r) : r \in {<<>>, <<<<"a">>>>, <<<<"a">>, <<"b">>, <<"a">>>>, <<<<" ">>>>,
                               <<<<"a", "a", "a">>>>}} \cup {Text(<<>>)}]

Descriptors ==
  {Stage!Nothing} \cup
  {Stage!Rec(t @@ c @@ ok) :
     t \in Optional("tool", {Stage!Str("read"), Stage!Str("run_linux"), Stage!Str("write")}),
     c \in Optional("contains", {Text(<<"a">>), ListOf(<<<<"a">>>>), ListOf(<<<<"a">>, <<"b">>>>),
                                Text(<<" ">>)}),
     ok \in Optional("success", {Stage!Flag(TRUE), Stage!Flag(FALSE)})}
Observed ==
  {c @@ ok @@ cut @@ more :
     c \in Optional("content", {Text(<<" ">>), Text(<<"x", "a">>)}),
     ok \in Optional("ok", {Stage!Flag(TRUE)}),
     cut \in Optional("content_truncated", {Stage!Flag(TRUE)}),
     more \in Optional("argv", {ListOf(<<<<"echo">>, <<"a">>>>), ListOf(<<<<"echo">>>>)})
              \cup {"regex" :> Stage!Flag(b) @@ "needle" :> Text(<<"a", "|">>) : b \in BOOLEAN}}
Probes(descriptor) ==
  [kind : {"probe"}, descriptor : {descriptor}, tool : {"read", "search", "run_linux", "write"},
   outcome : {Stage!Rec(o) : o \in Observed}, revision : {0, 3}]

-----------------------------------------------------------------------------
Seeds == ProgramSeeds
  \cup {Seed("correction", s) : s \in Sources}
  \cup {Seed("image", i) : i \in Images}
  \cup {Seed("schema", s) : s \in Schemas}
  \cup {Seed("row", r) : r \in OneField \cup TwoFields}
  \cup {Seed("file", f) : f \in Files}
  \cup {Seed("contract", c) : c \in FileCalls \cup OutcomeCalls \cup AllCalls}
  \cup {Seed("claim", c) : c \in Claims}
  \cup {Seed("descriptor", d) : d \in Descriptors}

Grown(seed) ==
  CASE seed.of = "program" -> GrownPrograms(seed.it)
    [] seed.of = "correction" -> Corrections(seed.it)
    [] seed.of = "image" -> {[kind |-> "image", image |-> seed.it]} \cup Devices(seed.it)
    [] seed.of = "schema" -> [kind : {"schema"}, schema : {seed.it}, value : Judged]
    [] seed.of = "row" -> RowsOf(seed.it)
    [] seed.of = "file" -> [kind : {"jsonl file"}, bytes : {seed.it}, limit : 0 .. 4]
    [] seed.of = "contract" -> [kind : {"contract"}, call : {seed.it}, world : WorldsFor(seed.it)]
    [] seed.of = "claim" -> Statements(seed.it)
    [] seed.of = "descriptor" -> Probes(seed.it)

Judges ==
  /\ About("program") =>
       Program!AdmissionIsRight(subject.stmts, subject.session.locals, subject.session.functions,
                                Complete)
  /\ About("correction") =>
       /\ Correct!CorrectionsAreSafe(subject.error, subject.source, subject.other, subject.change)
       /\ Len(subject.source) <= 3 =>
            Correct!DistanceIsOfEdits(subject.source, subject.error.received)
  /\ About("contract") => Stage!EvidenceIsEarned(subject.call, subject.world)
  /\ About("claim") => Stage!ClaimsAreRead(subject.claim, subject.summary, subject.given)
  /\ About("probe") =>
       Stage!AdviceHelps(subject.descriptor, subject.tool, subject.outcome, subject.revision)

Documents ==
  /\ About("image") => Image!ImageSurvives(subject.image, ImagePaths)
  /\ About("device") => Image!ViewIsSound(subject.bytes)
  /\ About("schema") => Schema!AnswersConform(subject.schema, subject.value)
  /\ About("line") => Rows!RowReadsAlike(subject.bytes, Keys)
  /\ About("jsonl file") => Rows!RowsAreLines(subject.bytes, subject.limit)
=============================================================================
