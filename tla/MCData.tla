------------------------------- MODULE MCData -------------------------------
(***************************************************************************)
(* What a program computes with its data, for TLC.  A behaviour is about   *)
(* one subject: a loop that the VM may take over (LoopVm), a loop over     *)
(* JSONL rows that the kernel does (JsonlKernel), a workspace that the     *)
(* tools and the file built-ins work on (Files), or one input of the       *)
(* functions on texts (Text) or on values (Values), of admission,          *)
(* correction and evidence, or of the readers of documents (MCSource).     *)
(* The parts that are not the subject stand still.                         *)
(***************************************************************************)
EXTENDS LoopVm, JsonlKernel, Files

CONSTANTS WordBits, Significand, Wide, Blank, MaxRange, CharRank
ASSUME ValuesAssumption == /\ {WordBits, Significand} \subseteq Nat \ {0}
                           /\ MaxRange \in Nat
                           /\ Wide \cup Blank \subseteq DOMAIN CharRank

VARIABLE subject
V == INSTANCE MCValues
Source == INSTANCE MCSource

allVars == <<vars, kernelVars, filesVars, subject>>

About(kind) == subject.kind = kind

-----------------------------------------------------------------------------
(* Loops: every body the VM lowers, over all short lists of items of every *)
(* type, from an entry that does or does not suit the body.                *)

Body == [kind |-> "expr", acc |-> "s", key |-> "k", unique |-> FALSE, stmts |-> <<>>]
Var(l) == [local |-> l, n |-> 0]
Lit(n) == [local |-> NoLocal, n |-> n]
Assign(dst, a, op, b) == [dst |-> dst, a |-> a, op |-> op, b |-> b]
Expr(stmts) == [Body EXCEPT !.stmts = stmts]

PlainBodies ==
  {[Body EXCEPT !.kind = "add"], [Body EXCEPT !.kind = "append"],
   [Body EXCEPT !.kind = "append", !.unique = TRUE], [Body EXCEPT !.kind = "count"],
   Expr(<<Assign("s", Var("s"), "add", Var("x"))>>),
   Expr(<<Assign("k", Var("x"), "mul", Var("x")), Assign("s", Var("k"), "mod", Lit(-3))>>),
   Expr(<<Assign("s", Var("x"), "shl", Var("s"))>>),
   Expr(<<Assign("k", Var("s"), "other", Lit(0)), Assign("s", Var("x"), "div", Var("k"))>>)}

Tally == [Body EXCEPT !.kind = "tally"]
Items == {Integer(-1), Integer(3), Integer(-4), Float(3), Str(1), Rec(1), Bare}
ItemLists == UNION {[1..n -> Items] : n \in 0..3}

NoLocals == [l \in Local |-> Unset]
Entries ==
  {NoLocals} \cup
  {[NoLocals EXCEPT !["s"] = v] : v \in
     {Integer(1), Float(1), Str(2), List(<<>>), List(<<<<"int", 3>>>>), Map(NoMap),
      Map([NoMap EXCEPT ![1] = <<"int", 2>>]), Map([NoMap EXCEPT ![1] = <<"float", 3>>])}}

AllPrograms == [body: PlainBodies \cup {Tally}, items: ItemLists, entry: Entries]

NoLoop == /\ program = "none" /\ phase = "idle" /\ row = 0
          /\ env = "none" /\ copy = "none"

-----------------------------------------------------------------------------
(* Loops over JSONL rows: the six shapes with every list and counter, over *)
(* two files of rows that are good, lack a field, repeat one, hold a tag   *)
(* that is none, or overflow a total; entered with empty totals, with      *)
(* totals under way, with maps that disagree, and without a variable; of   *)
(* three shapes also with a value without a path after the files.          *)

JRow(user, amount, items, tags) ==
  << <<"user", <<"str", user>>>>, <<"amount", <<"num", amount>>>>,
     <<"items", <<"num", items>>>>, <<"tags", <<"list", tags>>>> >>
JTag == <<"str", "t">>
JRows == { JRow("u", 5, 2, <<JTag, JTag>>), Tail(JRow("u", 1, 1, <<JTag>>)),
           << <<"amount", <<"num", -2>>>> >> \o JRow("v", 1, 1, <<<<"null", 0>>>>),
           BlankLine }
JFiles == {<<a, b>> : a \in UNION {[1 .. n -> JRows] : n \in 0 .. 2},
                      b \in {<<>>} \cup [1 .. 1 -> JRows]}

\* Of the loops over files that come to a value without a path.
PathRows == { JRow("u", 2, 1, <<JTag>>), JRow("v", 1, 1, <<>>),
              Tail(JRow("u", 1, 1, <<JTag>>)) }
PathFiles == {<<a, b>> : a \in UNION {[1 .. n -> PathRows] : n \in 0 .. 2},
                         b \in {<<>>} \cup [1 .. 1 -> PathRows]}
MCLines == JRows \cup PathRows

NoTotals == [u \in User |-> NoValue]
Fresh == [declared |-> TRUE, amounts |-> NoTotals, items |-> NoTotals, users |-> <<>>,
          counts |-> [t \in Tag |-> NoValue], tags |-> <<>>, total |-> <<0>>,
          user |-> NoValue, row |-> NoValue]
JEntries == { Fresh,
              [Fresh EXCEPT !.amounts["u"] = <<2>>, !.items["u"] = <<1>>, !.users = <<"u">>,
                            !.counts["t"] = <<7>>, !.tags = <<"t">>, !.total = NoValue],
              [Fresh EXCEPT !.amounts["v"] = <<2>>],
              [Fresh EXCEPT !.declared = FALSE] }

AllLoops ==
  [shape : {"direct", "nested", "required", "init_then_add", "prefixed", "prefixed_count"},
   users : BOOLEAN, tags : BOOLEAN, count : BOOLEAN, text : BOOLEAN, vm : BOOLEAN,
   odd : {FALSE}, files : JFiles, entry : JEntries, default : {"u"}]
  \cup
  [shape : {"direct", "required", "nested"},
   users : {TRUE}, tags : BOOLEAN, count : BOOLEAN, text : {FALSE}, vm : BOOLEAN,
   odd : {TRUE}, files : PathFiles, entry : JEntries, default : {"u"}]

NoKernel == /\ loop = "none" /\ step = "idle" /\ again = FALSE /\ file = 0 /\ next = 0
            /\ bindings = "none" /\ acc = "none"

-----------------------------------------------------------------------------
(* Workspaces: files in every root, reached by direct, by winding and by   *)
(* refused paths, with limits that the calls run into.                     *)

Names == {"a", "app", "b", "result", "task", "tmp", "work"}
MCRank == [n \in Names |->
             CASE n = "a" -> 1 [] n = "app" -> 2 [] n = "b" -> 3 [] n = "result" -> 4
               [] n = "task" -> 5 [] n = "tmp" -> 6 [] n = "work" -> 7]
MCSuffix == [n \in Names |-> IF n \in {"a", "b"} THEN ".c" ELSE ""]
MCSpelling == [n \in Names |-> CASE n = "a" -> <<"x">> [] n = "b" -> <<"y">>
                                 [] OTHER -> <<"z", "z">>]
MCAssets == << [path |-> <<"a">>, bytes |-> <<"x", "\n", "x">>],
               [path |-> <<"b", "a">>, bytes |-> <<"L">>] >>
MCRaw == { <<"work">>, <<"work", "a">>, <<"work", "b", "a">>, <<"tmp", "..", "app", "a">>,
           <<"app", "a">>, <<"task">>, <<"..", "work", "b">>, <<"tmp">> }
MCScript == { [absolute |-> FALSE, parts |-> <<"a">>],
              [absolute |-> FALSE, parts |-> <<"b", "a">>],
              [absolute |-> TRUE, parts |-> <<"work", "b">>] }
MCTexts == { <<>>, <<"x">>, <<"\n">> }
MCPatterns == { <<"x">> }
Anchored(start, end, text) == [start |-> start, end |-> end, text |-> text]
MCMatchers == {Anchored(FALSE, FALSE, text) : text \in MCTexts}
              \cup {Anchored(TRUE, FALSE, <<"x">>), Anchored(FALSE, TRUE, <<"x">>),
                    Anchored(TRUE, TRUE, <<>>)}

NoAnswer == [op |-> "none", args |-> "", result |-> Failure]

AWorkspace ==
  /\ tree = [p \in {<<n>> : n \in Roots} \cup {<<"app", "a">>, <<"work", "a">>} |->
               CASE Len(p) = 1 -> Dir
                 [] p = <<"app", "a">> -> File(<<"x", "\n">>)
                 [] p = <<"work", "a">> -> File(<<"x", "L">>)]
  /\ cwd = <<"work">>
  /\ attached \in BOOLEAN
  /\ answer = NoAnswer
NoWorkspace == tree = <<>> /\ cwd = <<>> /\ attached = FALSE /\ answer = NoAnswer

\* Workspaces beyond these bounds are looked at but not worked on.
Kept == About("files") =>
          /\ \A p \in DOMAIN tree : Len(p) <= 3
          /\ Cardinality(FilesOf(tree)) <= 2
          /\ Cardinality(DOMAIN tree) <= Cardinality(Roots) + 3
          /\ SumFunction([p \in DOMAIN tree |-> Len(tree[p].bytes)]) <= 4

\* The last answer is told apart only in the properties of steps.
Seen == <<vars, kernelVars, tree, cwd, attached, subject>>

-----------------------------------------------------------------------------
(* Texts: all short ones. *)

Strings(S, n) == UNION {[1 .. k -> S] : k \in 0 .. n}
NoEnd == 99

LineSubjects == [kind : {"lines"}, bytes : Strings({"x", "L", "T", "\n"}, 4),
                 lo : 1 .. 3, hi : {1, 2, NoEnd}, max : 0 .. 4]
DiffSubjects == [kind : {"diff"}, left : Strings({"x", "y", "\n"}, 4),
                 right : Strings({"x", "y", "\n"}, 4)]
GlobSubjects == [kind : {"glob"}, pattern : Strings({"x", "y", "*", "?"}, 4),
                 text : Strings({"x", "y"}, 4)]
Syntax == {"x", Comma, Quote, Newline, Return}
TableSubjects == [kind : {"table"},
                  rows : [1 .. 2 -> [1 .. 2 -> Strings(Syntax, 1)]]
                         \cup [1 .. 1 -> [1 .. 2 -> Strings(Syntax \ {Comma}, 2)]]
                         \cup [1 .. 2 -> [1 .. 1 -> Strings(Syntax, 2)]]]

\* What is read, compared, cut and written of a text can be put together again:
\* both adapters read a range of lines as cutting the text into lines does, the
\* hunks of a difference turn the one text into the other, a wildcard matches
\* when the text can be cut to fit it, a table that is written is read back, but
\* for blank rows, and so for split(), slices, find(), replace() and format().
TextsSurvive ==
  /\ About("lines") => LinesRead(subject.bytes, subject.lo, subject.hi, subject.max)
  /\ About("glob") => wildcard_match(subject.pattern, subject.text)
                       = FitsPattern(subject.pattern, subject.text)
  /\ About("diff") => HunksRebuild(TextLines(subject.left), TextLines(subject.right))
  /\ About("table") => TableSurvives(subject.rows)
  /\ V!Textual

-----------------------------------------------------------------------------
(* Values: MCValues says which. *)

VChar == {"x", "y", " ", "w"}
MCCharRank == [c \in VChar |-> CASE c = " " -> 1 [] c = "x" -> 2 [] c = "y" -> 3 [] c = "w" -> 4]

\* Quotients and remainders belong together, no sum wraps around, a range is
\* whole, and numbers read from texts are the numbers they spell.  There is one
\* order: comparison, sorting, min() and max(), unique(), count() and where() agree
\* on it.  An assignment through a path changes that item and no other, an unpacking
\* binds all its names or none, and a comprehension gives its targets back.
ValuesKeepTheirLaws == V!Numeric /\ V!Ordered /\ V!Assigned

-----------------------------------------------------------------------------
(* Programs and documents: MCSource says which. *)

\* Admission, correction and evidence tell the truth about a program.  What admission
\* refuses no run gets through, what it admits comes to no unknown name but by an
\* order of events it does not look at; a correction that is applied changes the one
\* use of the name that was misspelt, in the text it was made for; a stage's contract
\* is satisfied exactly when the world is as it says, with a reference to what was
\* seen, and a probe that is not enough is answered with advice that can help.
ProgramsAreJudged == Source!Judges

\* Documents are read as they were written.  An image is read back whole, and a view
\* of any bytes is sound; a schema takes the values it describes and no others; a
\* field of a row that is still bytes is what the parsed row has.
DocumentsAreRead == Source!Documents

-----------------------------------------------------------------------------
DataInit ==
  \/ Init /\ NoKernel /\ NoWorkspace /\ subject = [kind |-> "loop"]
  \/ NoLoop /\ KernelInit /\ NoWorkspace /\ subject = [kind |-> "jsonl"]
  \/ NoLoop /\ NoKernel /\ AWorkspace /\ subject = [kind |-> "files"]
  \/ /\ NoLoop /\ NoKernel /\ NoWorkspace
     /\ subject \in LineSubjects \cup DiffSubjects \cup GlobSubjects \cup TableSubjects
                    \cup V!Subjects \cup Source!Seeds

DataNext ==
  \/ About("loop") /\ Next /\ UNCHANGED <<kernelVars, filesVars, subject>>
  \/ About("jsonl") /\ KernelNext /\ UNCHANGED <<vars, filesVars, subject>>
  \/ About("files") /\ FilesNext /\ UNCHANGED <<vars, kernelVars, subject>>
  \/ About("seed") /\ subject' \in Source!Grown(subject) /\ UNCHANGED <<vars, kernelVars, filesVars>>

DataSpec == DataInit /\ [][DataNext]_allVars
=============================================================================
