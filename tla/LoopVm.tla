------------------------------- MODULE LoopVm -------------------------------
(***************************************************************************)
(* A for loop of a Stone program when WAYMARK_STONE_HOT_LOOP is set: the   *)
(* body is lowered to one generic VM operation, run over all rows on a     *)
(* copy of the variables it uses, and committed at the end; whatever the   *)
(* VM does not support sends the whole loop back to the interpreter.       *)
(* Baseline is the loop as the interpreter alone runs it.                  *)
(*                                                                         *)
(* Integers have Width bits.  A float is counted in halves, enough for it  *)
(* to be no integer.  A string is an identifier, a record the string its   *)
(* field "f" holds, a map a function on the strings.  The order of a map's *)
(* keys, scopes and spans are left out.                                    *)
(***************************************************************************)
EXTENDS Integers, Sequences

CONSTANTS
  Width,      \* bits of an integer (64 in the code)
  Local,      \* the variables of the program
  Target,     \* the loop's target
  NoLocal,    \* the operand that is a literal
  Key,        \* identifiers of strings: a set of naturals
  Programs    \* the loops considered: [body, items, entry]

ASSUME WidthAssumption == Width \in Nat \ {0}
ASSUME LocalAssumption == Target \in Local /\ NoLocal \notin Local
ASSUME KeyAssumption == Key \subseteq Nat

MinInt == -(2 ^ (Width - 1))
MaxInt == 2 ^ (Width - 1) - 1
Fits(n) == n \in MinInt..MaxInt

\* A count starts at 1.
ASSUME OneAssumption == Fits(1)

-----------------------------------------------------------------------------
(* Values: one shape of record for all of them *)

NoEntry == <<"none", 0>>
NoMap == [k \in Key |-> NoEntry]
ValueOf(t, n, s, m) == [t |-> t, n |-> n, s |-> s, m |-> m]
Unset == ValueOf("unset", 0, <<>>, NoMap)
Integer(n) == ValueOf("int", n, <<>>, NoMap)
Float(h) == ValueOf("float", h, <<>>, NoMap)
Str(k) == ValueOf("str", k, <<<<"char", k>>>>, NoMap)
Rec(k) == ValueOf("rec", k, <<>>, NoMap)
Bare == ValueOf("bare", 0, <<>>, NoMap)
List(s) == ValueOf("list", 0, s, NoMap)
Map(m) == ValueOf("map", 0, <<>>, m)

Number(v) == v.t \in {"int", "float"}
Halves(v) == IF v.t = "int" THEN 2 * v.n ELSE v.n
Pair(v) == <<v.t, v.n>>
Failed == [ok |-> FALSE, value |-> Unset]
Got(v) == [ok |-> TRUE, value |-> v]
GotInt(n) == IF Fits(n) THEN Got(Integer(n)) ELSE Failed

Entry == {"none", "unset", "int", "float", "str", "rec", "bare", "list", "map", "char"} \X Int
VmValue ==
  {v \in [t : {"unset", "int", "float", "str", "rec", "bare", "list", "map"},
          n : Int, s : Seq(Entry), m : [Key -> Entry]] : v.t \in {"str", "rec"} => v.n \in Key}

\* An operand is a variable or a literal; a body is one of the recognised ones, with
\* the statements of an expression body.
Reference == [local : Local \cup {NoLocal}, n : Int]
Bodies ==
  [kind : {"add", "append", "count", "tally", "expr"}, acc : Local, key : Local,
   unique : BOOLEAN,
   stmts : Seq([dst : Local, a : Reference, b : Reference,
                op : {"add", "mul", "div", "mod", "shl", "other"}])]

ASSUME ProgramsAssumption ==
  \A p \in Programs :
    p.body \in Bodies /\ p.items \in Seq(VmValue) /\ p.entry \in [Local -> VmValue]

\* add_values: checked integers, promotion to float, concatenation.
AddValues(a, b) ==
  IF a.t = "int" /\ b.t = "int" THEN GotInt(a.n + b.n)
  ELSE IF Number(a) /\ Number(b) THEN Got(Float(Halves(a) + Halves(b)))
  ELSE IF a.t = b.t /\ a.t \in {"str", "list"} THEN Got([a EXCEPT !.n = 0, !.s = @ \o b.s])
  ELSE Failed

\* python_floor_div_i64: the quotient is rounded towards minus infinity.
FloorDiv(a, b) == IF b > 0 THEN a \div b ELSE (-a) \div (-b)

DivInts(a, b) ==
  IF b = 0 \/ ~Fits(FloorDiv(a, b)) THEN Failed ELSE GotInt(FloorDiv(a, b))

\* python_mod_i64: quotient and product are checked, so that the remainder of
\* a number near the minimum can fail though it exists.
ModInts(a, b) ==
  IF ~DivInts(a, b).ok \/ ~Fits(FloorDiv(a, b) * b) THEN Failed
  ELSE GotInt(a - FloorDiv(a, b) * b)

\* The left shift drops the bits beyond the width and refuses a count outside it.
ShiftInts(a, b) ==
  IF b \notin 0..(Width - 1) THEN Failed
  ELSE LET low == (a * 2 ^ b) % (2 ^ Width)
       IN GotInt(IF low > MaxInt THEN low - 2 ^ Width ELSE low)

IntOp(op, a, b) ==
  CASE op = "add" -> GotInt(a + b)
    [] op = "mul" -> GotInt(a * b)
    [] op = "div" -> DivInts(a, b)
    [] op = "mod" -> ModInts(a, b)
    [] op = "shl" -> ShiftInts(a, b)

\* The interpreter's binary operators.  Those but addition are only modelled on
\* integers and fail on other values; "other" stands for an expression the VM
\* does not lower, of the value of its first operand.
ValueOp(op, a, b) ==
  IF a.t = "unset" \/ b.t = "unset" THEN Failed
  ELSE IF op = "other" THEN Got(a)
  ELSE IF op = "add" THEN AddValues(a, b)
  ELSE IF a.t = "int" /\ b.t = "int" THEN IntOp(op, a.n, b.n)
  ELSE Failed

\* An operand [local, n]: a variable, or the literal n.
Operand(env, x) == IF x.local = NoLocal THEN Integer(x.n) ELSE env[x.local]

-----------------------------------------------------------------------------
(* The interpreter *)

Ran(env) == [ok |-> TRUE, env |-> env]
Raised(env) == [ok |-> FALSE, env |-> env]

\* acc += item
AddItem(body, env) ==
  LET sum == AddValues(env[body.acc], env[Target])
  IN IF sum.ok THEN Ran([env EXCEPT ![body.acc] = sum.value]) ELSE Raised(env)

\* acc.append(item), or the same behind `if not item in acc`
AppendItem(body, env) ==
  LET list == env[body.acc]
      known == \E i \in DOMAIN list.s : list.s[i] = Pair(env[Target])
  IN IF list.t # "list" THEN Raised(env)
     ELSE IF body.unique /\ known THEN Ran(env)
     ELSE Ran([env EXCEPT ![body.acc].s = Append(@, Pair(env[Target]))])

\* if key in acc: acc[key] += 1 else: acc[key] = 1
CountKey(body, env, key) ==
  LET entry == env[body.acc].m[key.n]
      sum == IF entry[1] = "none" THEN Got(Integer(1))
             ELSE AddValues(ValueOf(entry[1], entry[2], <<>>, NoMap), Integer(1))
  IN IF key.t # "str" \/ env[body.acc].t # "map" THEN Raised(env)
     ELSE IF ~sum.ok THEN Raised(env)
     ELSE Ran([env EXCEPT ![body.acc].m[key.n] = Pair(sum.value)])

\* key = item["f"], then the count
TallyItem(body, env) ==
  IF env[Target].t # "rec" THEN Raised(env)
  ELSE CountKey(body, [env EXCEPT ![body.key] = Str(env[Target].n)], Str(env[Target].n))

\* Straight-line assignments dst = a op b, up to the first that fails.
RunStatements(body, env) ==
  LET after[i \in 0..Len(body.stmts)] ==
        IF i = 0 THEN Ran(env)
        ELSE LET before == after[i - 1]
                 s == body.stmts[i]
                 result == ValueOp(s.op, Operand(before.env, s.a), Operand(before.env, s.b))
             IN IF ~before.ok THEN before
                ELSE IF ~result.ok THEN Raised(before.env)
                ELSE Ran([before.env EXCEPT ![s.dst] = result.value])
  IN after[Len(body.stmts)]

\* One turn of eval_for_values: the target is bound, then the body runs.
Interpret(body, env, item) ==
  LET bound == [env EXCEPT ![Target] = item]
  IN CASE body.kind = "add" -> AddItem(body, bound)
       [] body.kind = "append" -> AppendItem(body, bound)
       [] body.kind = "count" -> CountKey(body, bound, item)
       [] body.kind = "tally" -> TallyItem(body, bound)
       [] body.kind = "expr" -> RunStatements(body, bound)

\* The loop without the VM, after its first i rows.
Baseline(p, i) ==
  LET after[j \in 0..i] ==
        IF j = 0 THEN Ran(p.entry)
        ELSE IF after[j - 1].ok THEN Interpret(p.body, after[j - 1].env, p.items[j])
        ELSE after[j - 1]
  IN after[i]

-----------------------------------------------------------------------------
(* The VM *)

Hit(copy) == [st |-> "hit", copy |-> copy]
Miss == [st |-> "miss", copy |-> <<>>]
Error == [st |-> "error", copy |-> <<>>]

\* The variables a lowered body refers to; the target is local 0 of an
\* expression body.
Used(body) ==
  IF body.kind # "expr" THEN {body.acc}
  ELSE {Target} \cup ((UNION {{s.dst, s.a.local, s.b.local} :
                             s \in {body.stmts[i] : i \in DOMAIN body.stmts}}) \ {NoLocal})

Lowers(body) == \A i \in DOMAIN body.stmts : body.stmts[i].op # "other"

\* value_to_i64 of a map's entries: a float is cut towards zero.
Truncated(h) == IF h >= 0 THEN h \div 2 ELSE -((-h) \div 2)
AsIntMap(m) ==
  [k \in Key |-> IF m[k][1] = "float" THEN <<"int", Truncated(m[k][2])>> ELSE m[k]]

\* What the VM copies before the first row.
Load(body, env) ==
  LET acc == env[body.acc] IN
  CASE body.kind = "add" -> IF Number(acc) THEN Hit(env) ELSE Miss
    [] body.kind = "append" ->
         IF acc.t = "unset" THEN Error ELSE IF acc.t = "list" THEN Hit(env) ELSE Miss
    [] body.kind \in {"count", "tally"} ->
         IF acc.t # "map" THEN Error ELSE Hit([env EXCEPT ![body.acc].m = AsIntMap(@)])
    [] body.kind = "expr" ->
         Hit([l \in Local |-> IF env[l].t = "int" THEN env[l] ELSE Unset])

VmAdd(body, copy, item) ==
  LET sum == AddValues(copy[body.acc], item)
  IN IF ~Number(item) THEN Miss
     ELSE IF ~sum.ok THEN Error
     ELSE Hit([copy EXCEPT ![body.acc] = sum.value])

VmAppend(body, copy, item) ==
  IF body.unique /\ \E i \in DOMAIN copy[body.acc].s : copy[body.acc].s[i] = Pair(item)
    THEN Hit(copy)
    ELSE Hit([copy EXCEPT ![body.acc].s = Append(@, Pair(item))])

\* counts.entry(key).or_insert(0), plus one
VmCount(body, copy, key) ==
  LET entry == copy[body.acc].m[key.n]
      sum == GotInt((IF entry[1] = "none" THEN 0 ELSE entry[2]) + 1)
  IN IF key.t # "str" THEN Miss
     ELSE IF ~sum.ok THEN Error
     ELSE Hit([copy EXCEPT ![body.acc].m[key.n] = Pair(sum.value)])

VmTally(body, copy, item) ==
  IF item.t # "rec" THEN Miss ELSE VmCount(body, copy, Str(item.n))

\* Registers are set before they are read, so a statement is LoadLocal or
\* LoadConst of its operands, the operation and StoreLocal.
VmStatement(copy, s) ==
  LET a == Operand(copy, s.a)
      b == Operand(copy, s.b)
      result == IntOp(s.op, a.n, b.n)
  IN IF a.t = "unset" \/ b.t = "unset" THEN Miss
     ELSE IF ~result.ok THEN Error
     ELSE Hit([copy EXCEPT ![s.dst] = result.value])

VmExpr(body, copy, item) ==
  LET after[i \in 0..Len(body.stmts)] ==
        IF i = 0 THEN Hit([copy EXCEPT ![Target] = item])
        ELSE IF after[i - 1].st = "hit" THEN VmStatement(after[i - 1].copy, body.stmts[i])
        ELSE after[i - 1]
  IN IF item.t # "int" THEN Miss ELSE after[Len(body.stmts)]

VmStep(body, copy, item) ==
  CASE body.kind = "add" -> VmAdd(body, copy, item)
    [] body.kind = "append" -> VmAppend(body, copy, item)
    [] body.kind = "count" -> VmCount(body, copy, item)
    [] body.kind = "tally" -> VmTally(body, copy, item)
    [] body.kind = "expr" -> VmExpr(body, copy, item)

-----------------------------------------------------------------------------
VARIABLES
  program,  \* the loop
  phase,    \* "entry", "vm", "interpret", "done" or "failed"
  row,      \* the next row
  env,      \* the variables the program sees
  copy      \* the VM's own

vars == <<program, phase, row, env, copy>>

Init ==
  /\ program \in Programs
  /\ phase = "entry" /\ row = 1
  /\ env = program.entry /\ copy = <<>>

\* The loop goes back to the interpreter, from its first row.
FallBack == phase' = "interpret" /\ row' = 1 /\ copy' = <<>>

Enter(hot) ==
  LET loaded == Load(program.body, env) IN
  /\ phase = "entry"
  /\ IF ~hot \/ ~Lowers(program.body) \/ loaded.st = "miss" THEN FallBack
     ELSE IF loaded.st = "error" THEN phase' = "failed" /\ UNCHANGED <<row, copy>>
     ELSE phase' = "vm" /\ copy' = loaded.copy /\ UNCHANGED row
  /\ UNCHANGED <<program, env>>

\* Faulty variant: each row is written through to the program's variables.
VmRowThrough ==
  /\ phase = "vm" /\ row <= Len(program.items)
  /\ LET step == VmStep(program.body, copy, program.items[row]) IN
       IF step.st = "miss" THEN FallBack /\ UNCHANGED env
       ELSE IF step.st = "error" THEN phase' = "failed" /\ UNCHANGED <<row, copy, env>>
       ELSE /\ copy' = step.copy /\ row' = row + 1 /\ UNCHANGED phase
            /\ env' = [l \in Local |-> IF l \in Used(program.body) THEN step.copy[l] ELSE env[l]]
  /\ UNCHANGED program

VmRow ==
  /\ phase = "vm" /\ row <= Len(program.items)
  /\ LET step == VmStep(program.body, copy, program.items[row]) IN
       IF step.st = "miss" THEN FallBack
       ELSE IF step.st = "error" THEN phase' = "failed" /\ UNCHANGED <<row, copy>>
       ELSE copy' = step.copy /\ row' = row + 1 /\ UNCHANGED phase
  /\ UNCHANGED <<program, env>>

\* The variables the VM used are stored, then the target gets the last row.
Commit ==
  /\ phase = "vm" /\ row > Len(program.items)
  /\ env' = [l \in Local |->
               IF l = Target /\ program.items # <<>> THEN program.items[Len(program.items)]
               ELSE IF l \in Used(program.body) /\ copy[l].t # "unset" THEN copy[l]
               ELSE env[l]]
  /\ phase' = "done"
  /\ UNCHANGED <<program, row, copy>>

InterpretRow ==
  /\ phase = "interpret"
  /\ IF row > Len(program.items)
       THEN phase' = "done" /\ UNCHANGED <<row, env>>
       ELSE LET step == Interpret(program.body, env, program.items[row]) IN
            /\ env' = step.env
            /\ IF step.ok THEN row' = row + 1 /\ UNCHANGED phase
               ELSE phase' = "failed" /\ UNCHANGED row
  /\ UNCHANGED <<program, copy>>

Next ==
  \/ \E hot \in BOOLEAN : Enter(hot)
  \/ VmRow
  \/ Commit
  \/ InterpretRow

Spec == Init /\ [][Next]_vars

-----------------------------------------------------------------------------
(* Properties *)

Whole == Baseline(program, Len(program.items))

\* Loops the VM treats as the interpreter does: the body assigns neither the
\* target nor a key variable of its own, and what it accumulates in is there,
\* a map of integers if it is a map.
Plain(p) ==
  LET acc == p.entry[p.body.acc] IN
  /\ p.body.kind # "tally"
  /\ IF p.body.kind = "expr"
       THEN \A i \in DOMAIN p.body.stmts : p.body.stmts[i].dst # Target
       ELSE p.body.acc # Target
  /\ p.body.kind = "count" =>
       acc.t = "map" /\ \A k \in Key : acc.m[k][1] \in {"none", "int"}
  /\ p.body.kind = "append" => acc.t = "list"

\* Type invariant of the loop.
LoopTypeOK ==
  /\ program \in Programs
  /\ phase \in {"entry", "vm", "interpret", "done", "failed"}
  /\ row \in 1..(Len(program.items) + 1)
  /\ DOMAIN env = Local
  /\ phase = "vm" => DOMAIN copy = Local
  /\ \A l \in Local : env[l].t = "int" => Fits(env[l].n)

\* A plain loop that ends leaves every variable as the interpreter would, the
\* target included, whichever rows went through the VM.
SuccessParity ==
  phase = "done" /\ Plain(program) => Whole.ok /\ env = Whole.env

\* A plain loop fails only where the interpreter fails, at the same row; failing
\* in the VM leaves the program's variables as they were before the loop.
FailureParity ==
  phase = "failed" /\ Plain(program) =>
    /\ ~Whole.ok
    /\ Baseline(program, row - 1).ok /\ ~Baseline(program, row).ok
    /\ env \in {program.entry, Whole.env}

\* A plain loop ends, or fails, as the interpreter would have it
\* (execute_generic_vm_function).
LoopParity == SuccessParity /\ FailureParity
=============================================================================
