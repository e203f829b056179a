----------------------------- MODULE JsonlKernel -----------------------------
(***************************************************************************)
(* The native kernel for loops over JSONL rows that total two numbers per  *)
(* user and count tags, which the hot-loop VM puts in the place of six     *)
(* shapes of body.  It totals in maps of its own, stores them after the    *)
(* last row of a file, and an error in any row is the program's.  A loop   *)
(* over files that comes to a value without a path goes back to the        *)
(* interpreter, which begins with the first file again: what was totalled  *)
(* of the files before that value is totalled twice.  RowsBaseline is the  *)
(* loop over rows as the interpreter runs it.                              *)
(*                                                                         *)
(* A row is the sequence of its fields <<key, value>>, of which the first  *)
(* of a key counts.  The types of numbers and the order of the keys of a   *)
(* record are left out, floats are exact.                                  *)
(***************************************************************************)
EXTENDS Integers, Sequences

CONSTANTS
  Half,     \* of the integers there are (2^63 in the code)
  User, Tag, Lines,
  Loops     \* the loops considered: [shape, users, tags, count, text, vm, odd, files, entry]

NoValue == <<>>                                   \* an absent field, key or variable
Maybe(S) == {NoValue} \cup {<<x>> : x \in S}
Fitting == -Half .. Half - 1
IntFits(n) == n \in Fitting
Wrap(n) == ((n + Half) % (2 * Half)) - Half

\* The variables of the program around the loop; it is declared when all of them are.
Variables ==
  [declared : BOOLEAN, amounts : [User -> Maybe(Fitting)], items : [User -> Maybe(Fitting)],
   users : Seq(User), counts : [Tag -> Maybe(Fitting)], tags : Seq(Tag),
   total : Maybe(Fitting), user : Maybe(User), row : Lines \cup {NoValue}]

\* Of the type it is read as, a field has a value of that type.
FieldAssumption(key, v) ==
  /\ v # NoValue
  /\ key = "user" /\ v[1] = "str" => v[2] \in User
  /\ key \in {"amount", "items"} /\ v[1] = "num" => IntFits(v[2])
  /\ key = "tags" /\ v[1] = "list" =>
       /\ Len(v[2]) \in Nat /\ DOMAIN v[2] = 1 .. Len(v[2])
       /\ \A i \in DOMAIN v[2] : v[2][i][1] = "str" => v[2][i][2] \in Tag

Shapes == {"direct", "nested", "required", "init_then_add", "prefixed", "prefixed_count"}

ASSUME NumbersAssumption == Half \in Nat /\ 1 \in Fitting
ASSUME LinesAssumption ==
  \A row \in Lines : /\ Len(row) \in Nat /\ DOMAIN row = 1 .. Len(row)
                     /\ \A i \in DOMAIN row : FieldAssumption(row[i][1], row[i][2])
ASSUME LoopsAssumption ==
  \A l \in Loops : /\ l.shape \in Shapes /\ l.entry \in Variables /\ l.default \in User
                   /\ {l.users, l.tags, l.count, l.text, l.vm, l.odd} \subseteq BOOLEAN
                   /\ l.odd => ~l.text          \* after its files comes a value without a path
                   /\ l.files \in Seq(Seq(Lines)) /\ l.files # <<>>

\* What is done with the first n items one after the other, up to one that fails.
WhileOk(Do(_, _), start, items, n) ==
  LET After[k \in 0 .. n] ==
        IF k = 0 THEN start
        ELSE IF After[k - 1].ok THEN Do(After[k - 1], items[k]) ELSE After[k - 1]
  IN After[n]

-----------------------------------------------------------------------------
(* What a matcher takes from the body it knows *)

\* Where a field that is absent has a default, and whether the items are
\* counted rather than read; a nested body keeps both totals in one record.
HotJsonlAggregationBody(shape) ==
  [defaults |-> shape \in {"prefixed", "prefixed_count"},
   counted |-> shape = "prefixed_count",
   nested |-> shape = "nested"]

\* The lists and the counter a body of each shape may have; the kernel of
\* nested totals has no VM.
MatchedBody(loop) ==
  /\ loop.users => loop.shape \notin {"nested", "init_then_add"}
  /\ loop.tags => loop.shape # "init_then_add"
  /\ loop.count => loop.shape \in {"required", "init_then_add"}
  /\ loop.vm => loop.shape # "nested"

\* The statements of a body of each shape; the counter is before the tags.
Counting(loop, body) ==
  IF loop.count THEN <<body[1], body[2], body[3], body[4], "count", body[5]>> ELSE body
match_direct == <<"user", "amount", "items", "update", "each_tag">>
match_nested_totals == <<"user", "zero", "add_amount", "add_items", "each_tag">>
match_required_prefixed(loop) ==
  Counting(loop, <<"user", "amount", "items", "update", "each_tag">>)
match_init_then_add(loop) ==
  Counting(loop, <<"user", "zero", "add_amount", "add_items", "each_tag">>)
match_prefixed == <<"user", "amount", "items", "update", "each_tag">>
match_prefixed_count == <<"user", "amount", "one", "update", "each_tag">>

BodyOf(loop) ==
  CASE loop.shape = "direct" -> match_direct
    [] loop.shape = "nested" -> match_nested_totals
    [] loop.shape = "required" -> match_required_prefixed(loop)
    [] loop.shape = "init_then_add" -> match_init_then_add(loop)
    [] loop.shape = "prefixed" -> match_prefixed
    [] loop.shape = "prefixed_count" -> match_prefixed_count

-----------------------------------------------------------------------------
(* Fields *)

Fail == [ok |-> FALSE]
Value(v) == [ok |-> TRUE, value |-> v]

find_top_level_json_field(row, key) ==
  LET at == {i \in DOMAIN row : row[i][1] = key}
  IN IF at = {} THEN NoValue ELSE row[CHOOSE i \in at : \A j \in at : i <= j][2]

\* A field of the type it is read as; the default is in the body.
get(loop, row, key, type, default) ==
  LET found == find_top_level_json_field(row, key)
  IN IF found = NoValue
     THEN IF HotJsonlAggregationBody(loop.shape).defaults THEN Value(default) ELSE Fail
     ELSE IF found[1] = type THEN Value(found[2]) ELSE Fail

get_user(loop, row) == get(loop, row, "user", "str", loop.default)
get_amount(loop, row) == get(loop, row, "amount", "num", 0)
get_items(loop, row) ==
  IF HotJsonlAggregationBody(loop.shape).counted THEN Value(1)
  ELSE get(loop, row, "items", "num", 0)
get_tags(loop, row) == get(loop, row, "tags", "list", <<>>)

-----------------------------------------------------------------------------
(* The interpreter *)

Started(env) == [ok |-> TRUE, env |-> env, amount |-> 0, items |-> 0]
Stopped(s) == [s EXCEPT !.ok = FALSE]

\* x[key] += n
Plus(s, map, key, n) ==
  LET old == s.env[map][key]
  IN IF old = NoValue \/ ~IntFits(old[1] + n) THEN Stopped(s)
     ELSE [s EXCEPT !.env[map][key] = <<old[1] + n>>]

\* A map update as the interpreter fuses it: the keys of the first map decide
\* for both, and for the list.
execute_fused_map_update_if(s, loop) ==
  LET user == s.env.user[1]
      added == Plus(s, "amounts", user, s.amount)
  IN IF s.env.amounts[user] # NoValue
     THEN IF added.ok THEN Plus(added, "items", user, s.items) ELSE added
     ELSE [s EXCEPT !.env.amounts[user] = <<s.amount>>,
                    !.env.items[user] = <<s.items>>,
                    !.env.users = IF loop.users THEN Append(@, user) ELSE @]

CountTag(s, loop, tag) ==
  IF tag[1] # "str" THEN Stopped(s)
  ELSE IF s.env.counts[tag[2]] # NoValue THEN Plus(s, "counts", tag[2], 1)
  ELSE [s EXCEPT !.env.counts[tag[2]] = <<1>>,
                 !.env.tags = IF loop.tags THEN Append(@, tag[2]) ELSE @]

\* What a statement reads, and what it does with it.
Read(loop, row, stmt) ==
  CASE stmt = "user" -> get_user(loop, row)
    [] stmt \in {"amount", "add_amount"} -> get_amount(loop, row)
    [] stmt \in {"items", "add_items"} -> get_items(loop, row)
    [] stmt = "each_tag" -> get_tags(loop, row)
    [] OTHER -> Value(1)

Execute(loop, s, stmt, read) ==
  LET user == s.env.user[1] IN
  CASE stmt = "user" -> [s EXCEPT !.env.user = <<read>>]
    [] stmt = "amount" -> [s EXCEPT !.amount = read]
    [] stmt \in {"items", "one"} -> [s EXCEPT !.items = read]
    [] stmt = "update" -> execute_fused_map_update_if(s, loop)
    [] stmt = "zero" ->
         IF s.env.amounts[user] # NoValue THEN s
         ELSE [s EXCEPT !.env.amounts[user] = <<0>>, !.env.items[user] = <<0>>]
    [] stmt = "add_amount" -> Plus(s, "amounts", user, read)
    [] stmt = "add_items" -> Plus(s, "items", user, read)
    [] stmt = "count" ->
         IF s.env.total = NoValue \/ ~IntFits(s.env.total[1] + 1) THEN Stopped(s)
         ELSE [s EXCEPT !.env.total = <<@[1] + 1>>]
    [] stmt = "each_tag" ->
         WhileOk(LAMBDA t, tag : CountTag(t, loop, tag), s, read, Len(read))

Perform(loop, row, s, stmt) ==
  LET read == Read(loop, row, stmt)
  IN IF read.ok /\ s.env.declared THEN Execute(loop, s, stmt, read.value) ELSE Stopped(s)

RunBody(loop, env, row) ==
  WhileOk(LAMBDA s, stmt : Perform(loop, row, s, stmt),
          Started([env EXCEPT !.row = row]), BodyOf(loop), Len(BodyOf(loop)))

\* The first n rows of a file.  A blank line of a text is passed over by the
\* body's first statement.
BlankLine == <<>>
RowsBaseline(loop, env, rows, n) ==
  WhileOk(LAMBDA s, row : IF loop.text /\ row = BlankLine THEN s ELSE RunBody(loop, s.env, row),
          Started(env), rows, n)

\* The first n files, by a program with these variables.
FilesBaseline(loop, env, n) ==
  WhileOk(LAMBDA s, rows : RowsBaseline(loop, s.env, rows, Len(rows)),
          Started(env), loop.files, n)
AllFiles(loop) == FilesBaseline(loop, loop.entry, Len(loop.files))

-----------------------------------------------------------------------------
(* The kernel *)

\* Its maps, and its own order of the keys.
load_hot_jsonl_native_accumulators(loop, env) ==
  IF ~env.declared \/ (loop.text /\ loop.shape = "nested") THEN Fail
  ELSE Value([amounts |-> env.amounts, items |-> env.items,
              users |-> IF loop.users THEN env.users ELSE <<>>,
              counts |-> env.counts,
              tags |-> IF loop.tags THEN env.tags ELSE <<>>])

\* Totals here wrap around.
AddTo(map, key, n) ==
  [map EXCEPT ![key] = IF @ = NoValue THEN <<n>> ELSE <<Wrap(@[1] + n)>>]

AddTag(acc, tag) ==
  IF tag[1] # "str" THEN Fail
  ELSE Value([acc EXCEPT
                !.counts = AddTo(@, tag[2], 1),
                !.tags = IF acc.counts[tag[2]] = NoValue THEN Append(@, tag[2]) ELSE @])

AddTags(acc, tags) ==
  WhileOk(LAMBDA r, tag : AddTag(r.value, tag), Value(acc), tags, Len(tags))

\* Every field is read before anything is added.
FieldsRead(loop, row) ==
  /\ get_user(loop, row).ok /\ get_amount(loop, row).ok
  /\ get_items(loop, row).ok /\ get_tags(loop, row).ok

\* The fused kernel: a user of the first map must be in the second, one that
\* is new to the first starts both.
execute_hot_jsonl_native_trace_body(loop, acc, row) ==
  LET user == get_user(loop, row).value
      amount == get_amount(loop, row).value
      items == get_items(loop, row).value
      known == acc.amounts[user] # NoValue
      tallied == [acc EXCEPT
                    !.amounts = AddTo(@, user, amount),
                    !.items = IF known THEN AddTo(@, user, items)
                              ELSE [@ EXCEPT ![user] = <<items>>],
                    !.users = IF known THEN @ ELSE Append(@, user)]
  IN IF ~FieldsRead(loop, row) \/ (known /\ acc.items[user] = NoValue) THEN Fail
     ELSE AddTags(tallied, get_tags(loop, row).value)

\* The VM's interpreter of the same loop adds to each map what is in it.
execute_hot_jsonl_vm_ops(loop, acc, row) ==
  LET user == get_user(loop, row).value
      added == [acc EXCEPT
                  !.amounts = AddTo(@, user, get_amount(loop, row).value),
                  !.items = AddTo(@, user, get_items(loop, row).value),
                  !.users = IF loop.users /\ acc.amounts[user] = NoValue
                            THEN Append(@, user) ELSE @]
  IN IF ~FieldsRead(loop, row) THEN Fail ELSE AddTags(added, get_tags(loop, row).value)

\* The kernel of nested totals, which has no VM.
NestedTotals(loop, acc, row) ==
  LET user == get_user(loop, row).value
      added == [acc EXCEPT
                  !.amounts = AddTo(@, user, get_amount(loop, row).value),
                  !.items = AddTo(@, user, get_items(loop, row).value),
                  !.users = IF acc.amounts[user] = NoValue THEN Append(@, user) ELSE @]
  IN IF ~FieldsRead(loop, row) THEN Fail ELSE AddTags(added, get_tags(loop, row).value)

-----------------------------------------------------------------------------
VARIABLES
  loop,      \* the loop, with vm: whether the VM's interpreter runs it
  step,      \* "load", "rows", "store", "count", "done", "failed" or "no_path"
  again,     \* whether the interpreter has begun with the first file again
  file,      \* the file it is at
  next,      \* the next row of it
  bindings,  \* the program's variables
  acc        \* the kernel's own totals

kernelVars == <<loop, step, again, file, next, bindings, acc>>

Rows == loop.files[file]
Here(row) == ~(loop.text /\ row = BlankLine)
LastRow ==
  LET there == {i \in DOMAIN Rows : Here(Rows[i])}
  IN IF there = {} THEN NoValue ELSE <<Rows[CHOOSE i \in there : \A j \in there : j <= i]>>

KernelInit ==
  /\ loop \in {l \in Loops : MatchedBody(l)}
  /\ step = "load" /\ again = FALSE /\ file = 1 /\ next = 1
  /\ bindings = loop.entry /\ acc = <<>>

\* Faulty variant: the lists start empty and are stored as if they were whole.
LoadWithoutLists ==
  LET loaded == load_hot_jsonl_native_accumulators(loop, bindings) IN
  /\ step = "load"
  /\ IF loaded.ok THEN acc' = [loaded.value EXCEPT !.users = <<>>, !.tags = <<>>] /\ step' = "rows"
     ELSE step' = "failed" /\ UNCHANGED acc
  /\ UNCHANGED <<loop, again, file, next, bindings>>

LoadTotals ==
  LET loaded == load_hot_jsonl_native_accumulators(loop, bindings) IN
  /\ step = "load"
  /\ IF loaded.ok THEN acc' = loaded.value /\ step' = "rows"
     ELSE step' = "failed" /\ UNCHANGED acc
  /\ UNCHANGED <<loop, again, file, next, bindings>>

Added(row) ==
  IF loop.shape = "nested" THEN NestedTotals(loop, acc, row)
  ELSE IF loop.vm THEN execute_hot_jsonl_vm_ops(loop, acc, row)
  ELSE execute_hot_jsonl_native_trace_body(loop, acc, row)

Total(row) ==
  IF Added(row).ok THEN acc' = Added(row).value /\ next' = next + 1 /\ UNCHANGED step
  ELSE step' = "failed" /\ UNCHANGED <<acc, next>>

Row ==
  /\ step = "rows" /\ next <= Len(Rows) /\ ~loop.text
  /\ Total(Rows[next])
  /\ UNCHANGED <<loop, again, file, bindings>>

\* A blank line of a text is no row.
Line ==
  /\ step = "rows" /\ next <= Len(Rows) /\ loop.text
  /\ IF Here(Rows[next]) THEN Total(Rows[next])
     ELSE next' = next + 1 /\ UNCHANGED <<step, acc>>
  /\ UNCHANGED <<loop, again, file, bindings>>

Bound(values) ==
  /\ step = "rows" /\ next > Len(Rows)
  /\ bindings' = IF LastRow = NoValue THEN bindings ELSE values
  /\ step' = "store"
  /\ UNCHANGED <<loop, again, file, next, acc>>

\* The target is the last row, and the user's name is bound too.
BindRow ==
  /\ ~loop.text
  /\ Bound([bindings EXCEPT !.row = LastRow[1],
                            !.user = <<get_user(loop, LastRow[1]).value>>])

\* Of a text's loop only the line is bound.
BindLine == loop.text /\ Bound([bindings EXCEPT !.row = LastRow[1]])

Store ==
  /\ step = "store"
  /\ bindings' = [bindings EXCEPT !.amounts = acc.amounts, !.items = acc.items,
                                  !.counts = acc.counts,
                                  !.users = IF loop.users THEN acc.users ELSE @,
                                  !.tags = IF loop.tags THEN acc.tags ELSE @]
  /\ step' = "count"
  /\ UNCHANGED <<loop, again, file, next, acc>>

\* The value after the last file has no path.  The loop over files then leaves
\* the loop to the interpreter, with all its values, which gives every file to
\* the kernel for the second time and fails at that value.
HandBack ==
  IF again THEN step' = "no_path" /\ UNCHANGED <<again, file, next>>
  ELSE step' = "load" /\ again' = TRUE /\ file' = 1 /\ next' = 1

\* The rows of a file are counted together, those of a text not at all.  A loop
\* over files starts again with the next.
Count ==
  LET total == bindings.total
      counts == loop.count /\ ~loop.text
  IN /\ step = "count"
     /\ IF counts /\ (total = NoValue \/ ~IntFits(total[1] + Len(Rows)))
        THEN step' = "failed" /\ UNCHANGED <<again, bindings, file, next>>
        ELSE /\ bindings' = IF counts THEN [bindings EXCEPT !.total = <<@[1] + Len(Rows)>>]
                            ELSE bindings
             /\ IF file < Len(loop.files)
                THEN step' = "load" /\ file' = file + 1 /\ next' = 1 /\ UNCHANGED again
                ELSE IF loop.odd THEN HandBack
                ELSE step' = "done" /\ UNCHANGED <<again, file, next>>
     /\ UNCHANGED <<loop, acc>>

KernelNext == LoadTotals \/ Row \/ Line \/ BindRow \/ BindLine \/ Store \/ Count

-----------------------------------------------------------------------------
(* Loops the kernel treats as the interpreter does: the variables are there, *)
(* both maps have the same users, no sum overflows, and a text is neither    *)
(* counted nor totalled in records.                                          *)
Overflows(l, env) ==
  \E f \in DOMAIN l.files : \E k \in DOMAIN l.files[f] :
    LET start == FilesBaseline(l, env, f - 1)
        tags == get_tags(l, l.files[f][k])
    IN /\ start.ok
       /\ RowsBaseline(l, start.env, l.files[f], k - 1).ok
       /\ ~RowsBaseline(l, start.env, l.files[f], k).ok
       /\ FieldsRead(l, l.files[f][k])
       /\ \A i \in DOMAIN tags.value : tags.value[i][1] = "str"

Tame(l) ==
  /\ l.entry.declared
  /\ \A u \in User : (l.entry.amounts[u] = NoValue) <=> (l.entry.items[u] = NoValue)
  /\ l.count => l.entry.total # NoValue
  /\ l.text => ~l.count /\ l.shape # "nested"
  /\ ~Overflows(l, l.entry)
  /\ l.odd => ~Overflows(l, AllFiles(l).env)

\* The interpreter's run of the first n files that this one has to agree with:
\* from the entry or, the second time, from what all the files left.
PassEntry == IF again THEN AllFiles(loop).env ELSE loop.entry
Uninterrupted(n) == FilesBaseline(loop, PassEntry, n)
Totals(env) == [env EXCEPT !.user = NoValue]

RowsEndAlike ==
  /\ Uninterrupted(file).ok
  /\ Totals(bindings) = Totals(Uninterrupted(file).env)
  /\ ~loop.text => bindings.user = Uninterrupted(file).env.user

RowsFailAlike ==
  LET before == Uninterrupted(file - 1).env
  IN /\ ~Uninterrupted(file).ok
     /\ RowsBaseline(loop, before, Rows, next - 1).ok
     /\ ~RowsBaseline(loop, before, Rows, next).ok
     /\ Totals(bindings) = Totals(before)

\* A tame loop ends with the totals, lists, counters and target the interpreter
\* ends with, in the order the interpreter would have found users and tags,
\* whichever way its rows were run; it fails only where the interpreter does,
\* and then leaves what it had after the last file it finished, bar the name
\* of the last user of a text (eval_for_jsonl_rows_generic_native_body).  A loop
\* over files that comes to a value without a path has gone through the files
\* before it twice, where the interpreter alone would have once, and leaves
\* what the interpreter makes of doing so (try_eval_outer_jsonl_file_loop).
JsonlParity ==
  /\ step = "done" /\ Tame(loop) => RowsEndAlike /\ ~again
  /\ step = "failed" /\ Tame(loop) => RowsFailAlike
  /\ step = "no_path" /\ Tame(loop) => RowsEndAlike /\ again /\ file = Len(loop.files)
=============================================================================
