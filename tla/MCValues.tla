------------------------------ MODULE MCValues ------------------------------
(***************************************************************************)
(* The inputs on which the laws of Values are checked: one subject, an     *)
(* input of one kind, for each initial state of MCData.                    *)
(***************************************************************************)
EXTENDS Values

VARIABLE subject

About(kind) == subject.kind = kind
Strings(S, n) == UNION {[1 .. k -> S] : k \in 0 .. n}

-----------------------------------------------------------------------------
(* Numbers: every integer, halves, and NaN. *)

Word == LowestInt .. HighestInt
Halves == {VFloat(n, 2) : n \in {-7, -3, 0, 1, 4, 5}}
Numbers == {VInt(n) : n \in Word} \cup Halves \cup {VNaN}
PairSubjects == [kind : {"numbers"}, left : Numbers, right : Numbers]

Addends == {VInt(n) : n \in {LowestInt, -1, 3, HighestInt}}
             \cup {VFloat(1, 2), VStr(<<"7">>), VStr(<<" ", "-", "1", ".", "5">>), VStr(<<"x">>)}
SumSubjects == [kind : {"sums"}, values : Strings(Addends, 3)]
RangeSubjects ==
  [kind : {"range"}, start : Word, stop : {-8, -7, -1, 0, 5, 6, 7}, step : {-5, -1, 1, 2, 7}]

Written == {VStr(s) : s \in Strings({"-", "7", "0", ".", " ", "N"}, 4)}
ReadSubjects ==
  [kind : {"read"}, value : Written \cup {VFloat(n, d) : n \in -9 .. 9, d \in {2, 3, 20}},
   width : 0 .. 6]

-----------------------------------------------------------------------------
(* Values of every type, lists to sort, and rows to choose from. *)

VX == VStr(<<"x">>)
Field(key, v) == <<<<key>>, v>>
Samples ==
  {VNone, VBool(TRUE), VInt(0), VInt(1), VFloat(1, 1), VFloat(3, 2), VNaN,
   VX, VStr(<<"x", "y">>), VStr(<<"w">>),
   VList(<<>>), VList(<<VInt(1)>>), VList(<<VFloat(1, 1), VX>>), VList(<<VX>>),
   VRec(<<Field("x", VInt(1))>>), VRec(<<Field("x", VInt(1)), Field("y", VNaN)>>),
   VRec(<<Field("y", VFloat(2, 1)), Field("x", VFloat(1, 1))>>),
   VRec(<<Field("x", VInt(1)), Field("y", VInt(2))>>),
   VInt(4), VInt(5), VFloat(4, 1), VList(<<VInt(5)>>), VList(<<VFloat(4, 1)>>)}
OrderSubjects == [kind : {"order"}, a : Samples, b : Samples, c : Samples]

Sortable ==
  {VInt(0), VInt(1), VFloat(1, 1), VInt(2), VNaN, VX, VStr(<<"w">>), VList(<<>>),
   VList(<<VInt(1)>>), VList(<<VFloat(1, 1)>>), VList(<<VX>>)}
SortSubjects == [kind : {"sort"}, values : Strings(Sortable, 3), reverse : BOOLEAN]

Rows ==
  {VRec(<<Field("x", v)>>) : v \in {VInt(0), VInt(1), VFloat(1, 1), VNaN, VX}}
    \cup {VRec(<<Field("y", VInt(1)), Field("x", VInt(2))>>), VRec(<<>>), VInt(1)}
RowSubjects ==
  [kind : {"rows"}, rows : Strings(Rows, 3), key : {VX},
   expected : {VInt(1), VFloat(3, 2), VX, VNaN}]

-----------------------------------------------------------------------------
(* Texts of one and two bytes a character, and templates. *)

CutSubjects ==
  [kind : {"cut"}, text : Strings({"x", " ", "w"}, 4),
   separator : {VNone, VX, VStr(<<>>), VStr(<<"x", "x">>), VStr(<<" ">>), VStr(<<"w">>), VInt(1)},
   limit : -1 .. 3]

Pieces == [kind : {"char", "auto", "brace"}, n : {0}] \cup [kind : {"number"}, n : 0 .. 2]
TemplateSubjects ==
  [kind : {"template"}, template : Strings(Pieces, 4), args : {<<>>, <<VX>>, <<VX, VX>>}]

-----------------------------------------------------------------------------
(* Variables: a record of lists and records, a list of pairs, and one      *)
(* without a value; every path into them; and comprehensions over them.    *)

Nested == VRec(<<Field("x", VList(<<VInt(1), VInt(1), VX>>)),
                 Field("y", VRec(<<Field("x", VList(<<>>))>>)), Field("w", VX)>>)
Pairs == VList(<<VList(<<VInt(1), VInt(2)>>), VList(<<VInt(0), VX>>)>>)
Env == [n \in {"v", "w", "u"} |->
          CASE n = "v" -> Nested [] n = "w" -> Pairs [] n = "u" -> VUnset]

Indices == {VInt(n) : n \in {-3, -1, 0, 1, 2, 3}} \cup {VX, VStr(<<"y">>), VStr(<<"x", "x">>), VNone}
Paths == Strings(Indices, 2)
AssignSubjects ==
  [kind : {"assign"}, name : DOMAIN Env, path : Paths,
   item : {VInt(2), VX, VList(<<VX, VInt(1)>>), VList(<<VInt(1), VFloat(1, 1), VInt(0)>>)}]

Named(n) == <<"name", n>>
Clauses == [targets : {<<"u">>, <<"v">>, <<"u", "v">>, <<"v", "v">>},
            iter : {Named("w"), Named("v"), Named("u"), VInt(1)},
            filters : {<<>>, <<Named("u")>>, <<Named("v"), Named("u")>>}]
NameSubjects ==
  [kind : {"names"}, targets : {<<"u">>, <<"u", "v">>, <<"v", "v">>, <<"u", "v", "w">>},
   item : {VInt(1), VList(<<VX, VInt(1)>>), VList(<<VX>>)},
   elt : {Named("u")}, clauses : {<<c>> : c \in Clauses}]
  \cup [kind : {"names"}, targets : {<<"u">>}, item : {VInt(1)},
        elt : {Named("u"), Named("v"), VInt(0)},
        clauses : {<<c, d>> : c \in Clauses, d \in {e \in Clauses : e.filters = <<>>}}]

-----------------------------------------------------------------------------
Subjects == PairSubjects \cup SumSubjects \cup RangeSubjects \cup ReadSubjects
              \cup OrderSubjects \cup SortSubjects \cup RowSubjects
              \cup CutSubjects \cup TemplateSubjects \cup AssignSubjects \cup NameSubjects

Numeric ==
  /\ About("numbers") => /\ DivisionFits(subject.left, subject.right)
                         /\ NothingWraps(subject.left, subject.right, <<>>)
  /\ About("sums") => NothingWraps(VNone, VNone, subject.values)
  /\ About("range") => RangeIsWhole(subject.start, subject.stop, subject.step)
  /\ About("read") => NumbersRead(subject.value, subject.width)

Ordered ==
  /\ About("order") => OrderIsOne(subject.a, subject.b, subject.c)
  /\ About("sort") => SortIsStable(subject.values, subject.reverse)
  /\ About("rows") => RowsAreChosen(subject.rows, subject.key, subject.expected)

Textual ==
  /\ About("cut") => TextsAreCut(subject.text, subject.separator, subject.limit)
  /\ About("template") => TemplateIsFilled(subject.template, subject.args)

Assigned ==
  /\ About("assign") => AssignedThere(Env, subject.name, subject.path, subject.item, Paths)
  /\ About("names") =>
       NamesComeBack(Env, subject.targets, subject.item, subject.elt, subject.clauses)
=============================================================================
