----------------------------- MODULE Admission -----------------------------
(***************************************************************************)
(* What a program may call.  Before anything runs, validate_program        *)
(* (stone_admission.rs) refuses calls of names that nothing binds,         *)
(* keywords that a built-in does not have, and awaits where no async       *)
(* function is around; it looks at the program's text and at the names the *)
(* session has.  While the program runs, a call goes to a function of that *)
(* name, or else to a built-in, or else to a callable in the innermost     *)
(* scope that has the name (eval_expr_value).  Functions see the scopes of *)
(* their callers.                                                          *)
(*                                                                         *)
(* An expression is its kind, its sub-expressions in the order they are    *)
(* evaluated, the names it binds and, for calls, the name and the keywords *)
(* of the last of them.  A statement is its kind, the names it binds, its  *)
(* expressions, the indices of the items it assigns to, and its blocks.    *)
(* Values are callables (lambdas, and functions by their names) or data,   *)
(* and an operation on data may fail; true, false and null, where nothing  *)
(* binds these names, are leaves.                                          *)
(***************************************************************************)
EXTENDS Integers, Sequences, SequencesExt, FiniteSetsExt, Functions

CONSTANTS
    Builtins,          \* STONE_BUILTIN_NAMES, without those of RecordHelpers
    Schema,            \* KEYWORD_SCHEMAS: keywords by built-in
    Accepts,           \* keywords a built-in reads, for those that have a schema
    MaxCalls, MaxRounds   \* bounds: calls inside of calls, rounds of a loop

Data == [closure |-> FALSE]
\* CallableValue: a function by its name, or a lambda.
Named(def) == [closure |-> TRUE, def |-> def]
IsNamed(callable) == "def" \in DOMAIN callable
Expr(kind, name, parts) == [kind |-> kind, name |-> name, parts |-> parts,
                            binds |-> <<>>, named |-> <<>>]
Stmt(kind, binds, exprs, blocks) ==
    [kind |-> kind, binds |-> binds, exprs |-> exprs, blocks |-> blocks,
     hidden |-> <<>>, async |-> FALSE, params |-> <<>>]
\* A parameter: its name and, perhaps, its default.
Params(def) == [i \in DOMAIN def.params |-> def.params[i].name]
Formal(callable) == IF IsNamed(callable) THEN Params(callable.def) ELSE callable.params
Defaults(def) == FlattenSeq([i \in DOMAIN def.params |-> def.params[i].default])

Positional(call) == SubSeq(call.parts, 1, Len(call.parts) - Len(call.named))

-----------------------------------------------------------------------------
(* collect_statement_bindings: every name that is bound anywhere.          *)

RECURSIVE collect_expr_bindings(_), collect_statement_bindings(_)

\* Faulty variant: forgets the targets of comprehensions.
BoundByLambdas(expr) == IF expr.kind = "lambda" THEN ToSet(expr.binds) ELSE {}
\* Targets of comprehensions (collect_clause_bindings) and parameters of lambdas.
BoundBy(expr) == ToSet(expr.binds)
collect_expr_bindings(expr) ==
    BoundBy(expr) \cup UNION {collect_expr_bindings(e) : e \in ToSet(expr.parts)}

collect_statement_bindings(stmts) ==
    UNION {ToSet(s.binds) \cup ToSet(Params(s))
             \cup UNION {collect_expr_bindings(e) :
                            e \in ToSet(s.exprs \o s.hidden \o Defaults(s))}
             \cup UNION {collect_statement_bindings(b) : b \in ToSet(s.blocks)} :
           s \in ToSet(stmts)}

-----------------------------------------------------------------------------
(* validate_program: what it refuses, each with the name it is about.      *)

RecordHelpers == {"get", "items", "keys", "values"}
Resources == {"wait", "wait_any", "wait_all", "accept"}
Effects == {"run", "attempt_wait", "attempt_join", "attempt_wait_any", "attempt_wait_all",
            "attempt_accept"}
AwaitSupported(expr) ==
    \/ expr.kind = "name"
    \/ expr.kind = "method" /\ expr.name \in Resources
    \/ expr.kind = "call" /\ expr.name \in Effects

RECURSIVE validate_expr(_, _), validate_statements(_, _)

\* names: what may be called, what is bound, whether an async def is around.
validate_expr(expr, names) ==
    UNION {validate_expr(e, names) : e \in ToSet(expr.parts)}
      \cup (IF expr.kind = "await" /\ ~(names.async /\ AwaitSupported(expr.parts[1]))
            THEN {<<"await", "">>} ELSE {})
      \cup (IF expr.kind = "call" /\ expr.name \notin names.callable
            THEN {<<"unknown", expr.name>>} ELSE {})
      \cup (IF /\ expr.kind = "call" /\ expr.name \in DOMAIN Schema \ names.bound
               /\ ~(ToSet(expr.named) \subseteq Schema[expr.name])
            THEN {<<"keyword", expr.name>>} ELSE {})

validate_statements(stmts, names) ==
    UNION {UNION {validate_expr(e, names) : e \in ToSet(s.exprs \o Defaults(s))}
             \cup (IF s.kind = "with" /\ s.async /\ ~names.async THEN {<<"await", "">>} ELSE {})
             \cup LET inner == IF s.kind = "def" THEN [names EXCEPT !.async = s.async] ELSE names
                  IN  UNION {validate_statements(b, inner) : b \in ToSet(s.blocks)} :
           s \in ToSet(stmts)}

validate_program(program, session) ==
    LET bound == session \cup collect_statement_bindings(program)
    IN  validate_statements(program,
           [callable |-> Builtins \cup RecordHelpers \cup {"isinstance"} \cup bound,
            bound |-> bound, async |-> FALSE])

-----------------------------------------------------------------------------
(* Running: a state is the stack of scopes, the functions, how many async  *)
(* functions are being run, the names bound so far and, for the laws, what *)
(* calls came to; an outcome is a state, the values of the expressions that *)
(* were evaluated, and a flow.                                             *)

Start(locals, functions) ==
    [scopes |-> <<locals>>, functions |-> functions, async |-> 0, calls |-> 0,
     bound |-> {}, log |-> {}]

Visible(st) == UNION {DOMAIN st.scopes[i] : i \in DOMAIN st.scopes}
get_local(st, name) ==
    st.scopes[Max({i \in DOMAIN st.scopes : name \in DOMAIN st.scopes[i]})][name]
\* Names are bound in the innermost scope, whatever scope has them.
set_locals(st, names, values) ==
    LET i == Len(st.scopes)
        Bound == [n \in ToSet(names) |-> values[Max({k \in DOMAIN names : names[k] = n})]]
    IN  [st EXCEPT !.scopes[i] = Bound @@ @, !.bound = @ \cup ToSet(names)]
\* A name is removed from the innermost scope that has it.
remove_local(st, name) ==
    LET scope == Max({i \in DOMAIN st.scopes : name \in DOMAIN st.scopes[i]})
    IN  IF name \notin Visible(st) THEN st
        ELSE [st EXCEPT !.scopes[scope] = Restrict(@, DOMAIN @ \ {name})]
AllData(names) == [i \in DOMAIN names |-> Data]
capture_locals(st) == [n \in Visible(st) |-> get_local(st, n)]
push_scope(st, scope) == [st EXCEPT !.scopes = Append(@, scope)]
pop_scope(st) == [st EXCEPT !.scopes = Front(@)]
\* The scope of a handler leaves its data to the scope below, but for its name.
pop_scope_merging_nu_locals(st, exclude) ==
    LET scope == Last(st.scopes)
        kept == {n \in DOMAIN scope \ exclude : ~scope[n].closure}
        i == Len(st.scopes) - 1
    IN  [st EXCEPT !.scopes = [Front(@) EXCEPT ![i] = Restrict(scope, kept) @@ @]]

Out(st, flow, value) == [st |-> st, flow |-> flow, value |-> value]
Value(st, value) == {Out(st, "next", <<value>>)}
Raised(st) == {Out(st, "raise", <<>>)}
MayFail(st) == Value(st, Data) \cup Raised(st)
\* A call or an await came to this.
Logged(st, what, name) == [st EXCEPT !.log = @ \cup {<<what, name>>}]
Wrong(st, what, name) == Raised(Logged(st, what, name))

\* Go on with every outcome that is not the end of it.
Then(outs, F(_)) == UNION {IF o.flow = "next" THEN F(o) ELSE {o} : o \in outs}
\* into_nu_value: a callable is no data.
AsData(outs) == Then(outs, LAMBDA o : IF \E i \in DOMAIN o.value : o.value[i].closure
                                      THEN Raised(o.st) ELSE {o})

RECURSIVE Eval(_, _), EvalAll(_, _), RunBlock(_, _)

\* All the values, left to right.
EvalAll(exprs, st) ==
    IF exprs = <<>> THEN {Out(st, "next", <<>>)}
    ELSE LET Rest(o) == Then(EvalAll(Tail(exprs), o.st),
                             LAMBDA p : {Out(p.st, "next", o.value \o p.value)})
         IN  Then(Eval(Head(exprs), st), Rest)

\* validate_stone_call_shape, before any argument is evaluated.
ShapeFits(params, call) ==
    /\ Len(Positional(call)) <= Len(params)
    /\ \A i \in DOMAIN call.named :
          \E k \in Len(Positional(call)) + 1 .. Len(params) : params[k] = call.named[i]
    /\ IsInjective(call.named)

\* The values of the parameters where the arguments are placed by position and by
\* name; each is there, or <<>>, or twice.
Placed(params, call, values) ==
    [k \in DOMAIN params |->
       LET by == {i \in DOMAIN values : i <= Len(Positional(call)) /\ i = k}
                   \cup {i \in DOMAIN values : i > Len(Positional(call))
                           /\ call.named[i - Len(Positional(call))] = params[k]}
       IN  [count |-> Cardinality(by),
            value |-> IF by = {} THEN Data ELSE values[Min(by)]]]

\* invoke_user_function_values_with_named: defaults are evaluated by the caller.
Invoke(def, call, values, st) ==
    LET params == Params(def)
        step == IF def.async THEN 1 ELSE 0
        Leave(o) == Out([pop_scope(o.st) EXCEPT !.async = @ - step],
                        IF o.flow \in {"next", "return"} THEN "next" ELSE "raise",
                        IF o.flow = "return" THEN o.value ELSE <<Data>>)
        Entered(o, actuals) ==
          {Leave(p) : p \in RunBlock(def.blocks[1],
                                     [set_locals(push_scope(o.st, <<>>), params, actuals)
                                        EXCEPT !.async = @ + step])}
        \* open: the parameters without an argument, missing: those of them without a
        \* default; the defaults before the first of these are evaluated.
        Defaulted(placed, open, missing) ==
          LET defaults == FlattenSeq([j \in 1 .. Min({Len(open) + 1} \cup missing) - 1 |->
                                        def.params[open[j]].default])
              Full(more) == [k \in DOMAIN params |->
                               IF placed[k].count = 0
                               THEN more[CHOOSE j \in DOMAIN open : open[j] = k]
                               ELSE placed[k].value]
              Body(o) == IF missing # {} THEN Raised(o.st) ELSE Entered(o, Full(o.value))
          IN  {[o EXCEPT !.st.calls = st.calls] :
                  o \in Then(EvalAll(defaults, [st EXCEPT !.calls = @ + 1]), Body)}
        Opened(placed, open) ==
          Defaulted(placed, open, {j \in DOMAIN open : def.params[open[j]].default = <<>>})
        Called(placed) ==
          IF \/ Len(Positional(call)) > Len(params)
             \/ \E i \in DOMAIN call.named : call.named[i] \notin ToSet(params)
             \/ \E k \in DOMAIN params : placed[k].count > 1
          THEN Wrong(st, "shape", call.name)
          ELSE Opened(placed, SelectSeq([k \in DOMAIN params |-> k],
                                        LAMBDA k : placed[k].count = 0))
    IN  Called(Placed(params, call, values))

\* The body of a lambda sees what was visible where it was made.
InvokeLambda(lambda, call, values, st) ==
    LET placed == Placed(lambda.params, call, values)
        inner == set_locals(push_scope(st, lambda.captures), lambda.params,
                            [k \in DOMAIN placed |-> placed[k].value])
    IN  IF \E k \in DOMAIN placed : placed[k].count # 1 THEN Raised(st)
        ELSE {Out([pop_scope(o.st) EXCEPT !.calls = @ - 1], o.flow, o.value) :
                 o \in Eval(lambda.body, [inner EXCEPT !.calls = @ + 1])}

is_builtin_call(call) ==
    CASE call.name \in {"keys", "values", "items"} -> Len(Positional(call)) = 1
      [] call.name = "get" -> Positional(call) # <<>>
      [] OTHER -> call.name \in Builtins

\* Every built-in evaluates its arguments in an order of its own, and refuses a
\* keyword it does not have before that or after.
BuiltinCall(call, st) ==
    LET unknown == call.name \in DOMAIN Accepts /\ ~(ToSet(call.named) \subseteq Accepts[call.name])
        Called(o) == IF unknown THEN Wrong(o.st, "keyword", call.name)
                     ELSE MayFail(Logged(o.st, "builtin", call.name))
    IN  Then(EvalAll(call.parts, st), Called)
          \cup (IF unknown THEN Wrong(st, "keyword", call.name) ELSE {})

eval_user_function_call(call, st) ==
    LET def == st.functions[call.name]
        known == Logged(st, "function", call.name)
    IN  IF ~ShapeFits(Params(def), call) THEN Wrong(known, "shape", call.name)
        ELSE Then(EvalAll(call.parts, known), LAMBDA o : Invoke(def, call, o.value, o.st))

eval_named_callable_call(call, st) ==
    LET callable == get_local(st, call.name)
        known == Logged(st, "local", call.name)
    IN  CASE ~callable.closure -> Then(EvalAll(call.parts, known), LAMBDA o : Raised(o.st))
          [] ~ShapeFits(Formal(callable), call) -> Wrong(known, "shape", call.name)
          [] OTHER -> Then(EvalAll(call.parts, known),
                           LAMBDA o : IF IsNamed(callable)
                                      THEN Invoke(callable.def, call, o.value, o.st)
                                      ELSE InvokeLambda(callable, call, o.value, o.st))

eval_call(call, st) ==
    CASE st.calls >= MaxCalls -> Raised(st)
      [] call.name \in DOMAIN st.functions -> eval_user_function_call(call, st)
      [] is_builtin_call(call) -> BuiltinCall(call, st)
      [] call.name \in Visible(st) -> eval_named_callable_call(call, st)
      [] OTHER -> Wrong(st, "unknown", call.name)

\* await run(...) goes to the built-in, whatever else is called run.
eval_await_expr(expr, st) ==
    LET awaited == expr.parts[1]
    IN  CASE st.async = 0 \/ ~AwaitSupported(awaited) -> Wrong(st, "await", "")
          [] awaited.kind = "call" /\ awaited.name = "run" -> BuiltinCall(awaited, st)
          [] OTHER -> Then(Eval(awaited, st), LAMBDA o : MayFail(o.st))

\* What the targets are bound to, in whatever scope; it is put back in the
\* innermost, and a target that was not bound is removed.
capture_target_values(st, targets) ==
    [n \in ToSet(targets) \cap Visible(st) |-> get_local(st, n)]
restore_target_values(st, targets, before) ==
    FoldLeft(LAMBDA t, n : IF n \in DOMAIN before THEN set_locals(t, <<n>>, <<before[n]>>)
                           ELSE remove_local(t, n), st, targets)

\* One clause, of no item or one.  The targets are put back where it ends well.
eval_comprehension(expr, st) ==
    LET before == capture_target_values(st, expr.binds)
        Restored(o) == Value(restore_target_values(o.st, expr.binds, before), Data)
        Item(o) == AsData(EvalAll(Tail(expr.parts),
                                  set_locals(o.st, expr.binds, AllData(expr.binds))))
    IN  Then(AsData(Eval(Head(expr.parts), st)),
             LAMBDA o : Raised(o.st) \cup Restored(o) \cup Then(Item(o), Restored))

Eval(expr, st) ==
    CASE expr.kind = "leaf" -> Value(st, Data)
      [] expr.kind = "name" ->
            CASE expr.name \in Visible(st) -> Value(st, get_local(st, expr.name))
              [] expr.name \in DOMAIN st.functions \ Visible(st) ->
                   Value(st, Named(st.functions[expr.name]))
              [] OTHER -> Raised(st)
      [] expr.kind \in {"parts", "method"} ->
            Then(EvalAll(expr.parts, st), LAMBDA o : MayFail(o.st))
      [] expr.kind = "lambda" ->
            Value(st, [closure |-> TRUE, params |-> expr.binds, body |-> expr.parts[1],
                       captures |-> capture_locals(st)])
      [] expr.kind = "comp" -> eval_comprehension(expr, st)
      [] expr.kind = "await" -> eval_await_expr(expr, st)
      [] expr.kind = "call" -> eval_call(expr, st)

-----------------------------------------------------------------------------
(* Statements *)

\* A loop is over when it breaks; its body starts again when it continues.
LoopFlow(outs) == {IF o.flow \in {"break", "continue"} THEN [o EXCEPT !.flow = "next"] ELSE o :
                     o \in outs}
RECURSIVE Rounds(_, _, _)
Rounds(s, st, left) ==
    LET Bound == IF s.kind = "for" THEN set_locals(st, s.binds, AllData(s.binds)) ELSE st
        Again(p) == IF p.flow \in {"next", "continue"} THEN Rounds(s, p.st, left - 1) ELSE {p}
    IN  Value(st, Data) \cup
        (IF left = 0 THEN {} ELSE UNION {Again(p) : p \in RunBlock(s.blocks[1], Bound)})

\* assign_value: an item is assigned to only in a variable there is.
Assign(s, st) ==
    LET To(o) == IF s.hidden = <<>>
                 THEN Value(set_locals(o.st, s.binds, [i \in DOMAIN s.binds |-> o.value[1]]), Data)
                 ELSE Then(EvalAll(s.hidden, o.st),
                           LAMBDA p : IF ToSet(s.binds) \subseteq Visible(p.st)
                                      THEN MayFail(p.st) ELSE Raised(p.st))
    IN  Then(Eval(s.exprs[1], st), To)

eval_with_stmt(s, st) ==
    IF s.async /\ st.async = 0 THEN Wrong(st, "await", "")
    ELSE Then(Eval(s.exprs[1], st),
              LAMBDA o : RunBlock(s.blocks[1], set_locals(o.st, s.binds, o.value)))

\* Only the first handler is looked at, and it takes every error.
eval_try_stmt(s, st) ==
    LET Handle(o) == {[p EXCEPT !.st = pop_scope_merging_nu_locals(@, ToSet(s.binds))] :
                        p \in RunBlock(s.blocks[2],
                                       set_locals(push_scope(o.st, <<>>), s.binds,
                                                  AllData(s.binds)))}
    IN  UNION {IF o.flow = "raise" THEN Handle(o) ELSE {o} : o \in RunBlock(s.blocks[1], st)}

eval_stmt(s, st) ==
    CASE s.kind = "assign" -> Assign(s, st)
      [] s.kind = "expr" -> AsData(Eval(s.exprs[1], st))
      [] s.kind = "raise" -> Then(EvalAll(s.exprs, st), LAMBDA o : Raised(o.st))
      [] s.kind = "return" -> Then(Eval(s.exprs[1], st), LAMBDA o : {Out(o.st, "return", o.value)})
      [] s.kind \in {"break", "continue"} -> {Out(st, s.kind, <<>>)}
      [] s.kind = "if" -> Then(AsData(Eval(s.exprs[1], st)),
                               LAMBDA o : UNION {RunBlock(b, o.st) : b \in ToSet(s.blocks)})
      [] s.kind = "for" ->
            LoopFlow(Then(AsData(Eval(s.exprs[1], st)),
                          LAMBDA o : Raised(o.st) \cup Rounds(s, o.st, MaxRounds)))
      [] s.kind = "with" -> eval_with_stmt(s, st)
      [] s.kind = "try" -> eval_try_stmt(s, st)
      [] s.kind = "def" ->
            Value([st EXCEPT !.functions = (s.binds[1] :> s) @@ @, !.bound = @ \cup ToSet(s.binds)],
                  Data)

RunBlock(stmts, st) ==
    IF stmts = <<>> THEN Value(st, Data)
    ELSE Then(eval_stmt(Head(stmts), st), LAMBDA o : RunBlock(Tail(stmts), o.st))

\* Every end of a program that starts with a session's names.
Runs(program, locals, functions) == RunBlock(program, Start(locals, functions))

-----------------------------------------------------------------------------
(* Laws *)

RECURSIVE Below(_), Statements(_)
\* The expression and every expression in it.
Below(expr) == {expr} \cup UNION {Below(e) : e \in ToSet(expr.parts)}
\* Every statement, those in blocks included.
Statements(stmts) ==
    ToSet(stmts) \cup UNION {UNION {Statements(b) : b \in ToSet(s.blocks)} : s \in ToSet(stmts)}
Calls(exprs, name) == \E x \in exprs : \E e \in Below(x) : e.kind = "call" /\ e.name = name
Awaits(exprs) == \E x \in exprs : \E e \in Below(x) : e.kind = "await"

\* Admission and the run agree.  Of a program that was refused, no run would have
\* got through the call that was refused; of a program that was admitted, a call
\* comes to nothing only where its name is bound later or elsewhere, is a record
\* helper without its record or isinstance, or is inside the index of an item that
\* is assigned to, which admission does not look at; an await fails only where it
\* was put off; no built-in is given a keyword it does not have; and whatever a
\* run binds was among the names that admission collected.
AdmissionIsRight(program, locals, functions, complete) ==
    LET session == DOMAIN locals \cup DOMAIN functions
        \* What the session's closures and functions bind when they are called.
        held == UNION {IF IsNamed(c) THEN collect_statement_bindings(<<c.def>>)
                       ELSE ToSet(c.params) \cup collect_expr_bindings(c.body) :
                         c \in {v \in Range(locals) : v.closure}}
                  \cup collect_statement_bindings(SetToSeq(Range(functions)))
        all == Statements(program)
        indices == UNION {ToSet(s.hidden) : s \in all}
        exprs == UNION {ToSet(s.exprs) : s \in all}
        lambdas == {e \in UNION {Below(x) : x \in exprs} : e.kind = "lambda"}
        \* Awaits that are evaluated later, or elsewhere, than they are read.
        deferred == Awaits(lambdas \cup indices \cup UNION {ToSet(Defaults(s)) : s \in all})
        Agreed(refused, names, logs) ==
          /\ \A r \in refused :
                /\ r[1] = "unknown" =>
                     {<<how, r[2]>> : how \in {"function", "builtin", "local"}} \cap logs = {}
                /\ r[1] = "keyword" /\ r[2] \in complete => <<"function", r[2]>> \notin logs
          /\ refused = {} =>
                /\ \A w \in logs :
                      w[1] = "unknown" =>
                         \/ w[2] \in names \cup RecordHelpers \cup {"isinstance"}
                         \/ Calls(indices, w[2])
                /\ <<"await", "">> \in logs => deferred
                /\ \A w \in logs :
                      w[1] = "keyword" =>
                         w[2] \in names \/ w[2] \notin complete \/ Calls(indices, w[2])
        Judged(names, outs) ==
          /\ \A o \in outs : o.st.bound \subseteq names \cup held
          /\ Agreed(validate_program(program, session), names, UNION {o.st.log : o \in outs})
    IN  Judged(session \cup collect_statement_bindings(program),
               Runs(program, locals, functions))
=============================================================================
