------------------------------- MODULE Values -------------------------------
(***************************************************************************)
(* The values of a Stone program and the built-ins that compute with them  *)
(* (stone_builtins.rs, and the calls of stone_eval.rs that check their     *)
(* arguments): numbers, comparison, sorting, texts, lists, records, and    *)
(* the paths through which a program changes an item in place.  Operators  *)
(* only, with the laws they keep at the end; a model checks them over      *)
(* small values.                                                           *)
(*                                                                         *)
(* A value is a tuple that begins with its type.  Integers have WordBits   *)
(* bits.  A float is a fraction in lowest terms, or NaN: an integer that   *)
(* becomes one, or is read as one, is rounded to Significand bits, so that *)
(* several wide integers are one float; the arithmetic of floats is exact  *)
(* and has no infinities, which the code's is not.  A string is a sequence *)
(* of characters, of which those in Wide take two bytes, those in Blank    *)
(* are white space, and "N" stands for a text that reads as NaN; a record  *)
(* is a sequence of <<key, value>> in the order of its columns.            *)
(***************************************************************************)
EXTENDS Text

LOCAL INSTANCE Bitwise
LOCAL INSTANCE FiniteSetsExt

CONSTANTS WordBits, Wide, Blank, MaxRange,
          Significand,      \* of the bits of a float (53 in the code)
          CharRank          \* the place of each character in the order of code points

LowestInt == -(2 ^ (WordBits - 1))
HighestInt == 2 ^ (WordBits - 1) - 1
Abs(n) == IF n < 0 THEN -n ELSE n
InWord(n) == n \in LowestInt .. HighestInt

VNone == <<"none">>
VBool(b) == <<"bool", b>>
VInt(n) == <<"int", n>>
VNaN == <<"float", 0, 0>>
VFloat(n, d) ==
  LET common == Max({k \in 1 .. Abs(d) : n % k = 0 /\ d % k = 0})
      sign == IF d < 0 THEN -1 ELSE 1
  IN <<"float", (sign * n) \div common, (sign * d) \div common>>
VStr(s) == <<"str", s>>
VList(s) == <<"list", s>>
VRec(s) == <<"rec", s>>
Type(v) == v[1]
Types(l, r) == <<Type(l), Type(r)>>

IsNumber(v) == Type(v) \in {"int", "float"}
IsNaN(v) == v = VNaN

\* `as f64`: to a nearest of the numbers with so many bits, of two to the even.
UnitOf(size) == Min({2 ^ k : k \in {j \in 0 .. 4 * WordBits : size \div 2 ^ j < 2 ^ Significand}})
MultipleOf(unit, size) ==
  LET over == size % unit
  IN size - over + (IF 2 * over + ((size \div unit) % 2) > unit THEN unit ELSE 0)
Nearest(n) == (IF n < 0 THEN -1 ELSE 1) * MultipleOf(UnitOf(Abs(n)), Abs(n))
AsFloat(v) == IF Type(v) = "int" THEN <<"float", Nearest(v[2]), 1>> ELSE v
IsWide(v) == Type(v) = "int" /\ Nearest(v[2]) # v[2]
InInt(n) == IF InWord(n) THEN Success(VInt(n)) ELSE Failure      \* checked arithmetic

\* One rule for two integers, another once one of the two is a float.
Arithmetic(l, r, OfInts(_, _), OfFloats(_, _)) ==
  IF Types(l, r) = <<"int", "int">> THEN OfInts(l[2], r[2])
  ELSE IF IsNumber(l) /\ IsNumber(r)
       THEN OfFloats(AsFloat(l), AsFloat(r))
  ELSE Failure
Float(a, b, n, d) == Success(IF IsNaN(a) \/ IsNaN(b) THEN VNaN ELSE VFloat(n, d))

-----------------------------------------------------------------------------
(* Operators *)

add_values(l, r) ==
  LET Ints(a, b) == InInt(a + b)
      Floats(a, b) == Float(a, b, a[2] * b[3] + b[2] * a[3], a[3] * b[3])
  IN CASE Types(l, r) = <<"str", "str">> -> Success(VStr(l[2] \o r[2]))
       [] Types(l, r) = <<"list", "list">> -> Success(VList(l[2] \o r[2]))
       [] OTHER -> Arithmetic(l, r, Ints, Floats)

sub_values(l, r) ==
  LET Ints(a, b) == InInt(a - b)
      Floats(a, b) == Float(a, b, a[2] * b[3] - b[2] * a[3], a[3] * b[3])
  IN Arithmetic(l, r, Ints, Floats)

mul_values(l, r) ==
  LET Ints(a, b) == InInt(a * b)
      Floats(a, b) == Float(a, b, a[2] * b[2], a[3] * b[3])
  IN Arithmetic(l, r, Ints, Floats)

IsZero(v) == IsNumber(v) /\ v[2] = 0 /\ ~IsNaN(v)

div_values(l, r) ==
  LET Floats(a, b) == IF IsZero(b) THEN Failure ELSE Float(a, b, a[2] * b[3], a[3] * b[2])
      Ints(a, b) == Floats(AsFloat(VInt(a)), AsFloat(VInt(b)))
  IN Arithmetic(l, r, Ints, Floats)

Toward0(a, b) == IF (a < 0) = (b < 0) THEN Abs(a) \div Abs(b) ELSE -(Abs(a) \div Abs(b))

\* checked_div and checked_rem refuse the one quotient that does not fit.
python_floor_div_i64(left, right) ==
  LET Floored(quotient, remainder) ==
        IF ~InWord(quotient) THEN Failure
        ELSE IF remainder # 0 /\ (remainder > 0) # (right > 0)
             THEN InInt(quotient - 1)
             ELSE InInt(quotient)
      From(quotient) == Floored(quotient, left - quotient * right)
  IN From(Toward0(left, right))

\* The product is checked on the way: the remainder of the lowest integer can
\* fail although it would fit.
python_mod_i64(left, right) ==
  LET Less(quotient) ==
        IF ~quotient.ok \/ ~InWord(quotient.value[2] * right) THEN Failure
        ELSE InInt(left - quotient.value[2] * right)
  IN Less(python_floor_div_i64(left, right))

FloorOf(v) == IF IsNaN(v) THEN v ELSE VFloat(v[2] \div v[3], 1)

floor_div_values(l, r) ==
  LET Ints(a, b) == IF b = 0 THEN Failure ELSE python_floor_div_i64(a, b)
      Floor(q) == IF q.ok THEN Success(FloorOf(q.value)) ELSE Failure
      Floats(a, b) == Floor(div_values(a, b))
  IN Arithmetic(l, r, Ints, Floats)

mod_values(l, r) ==
  LET Ints(a, b) == IF b = 0 THEN Failure ELSE python_mod_i64(a, b)
      Floats(a, b) ==
        IF IsZero(b) THEN Failure
        ELSE sub_values(a, mul_values(FloorOf(div_values(a, b).value), b).value)
  IN Arithmetic(l, r, Ints, Floats)

neg_value(v) ==
  CASE Type(v) = "int" -> InInt(-v[2])
    [] Type(v) = "float" -> Success(IF IsNaN(v) THEN v ELSE VFloat(-v[2], v[3]))
    [] OTHER -> Failure

Unsigned(n) == n % 2 ^ WordBits
Signed(n) == IF n > HighestInt THEN n - 2 ^ WordBits ELSE n

bitwise_int_values(op, l, r) ==
  LET a == Unsigned(l[2])
      b == Unsigned(r[2])
  IN IF Types(l, r) # <<"int", "int">> THEN Failure
     ELSE Success(VInt(Signed(CASE op = "&" -> a & b [] op = "|" -> a | b [] op = "^" -> a ^^ b)))

\* A shift loses the bits that it moves out; only its count is checked.
shift_value(op, l, r) ==
  IF Types(l, r) # <<"int", "int">> THEN Failure
  ELSE IF r[2] < 0 \/ r[2] >= WordBits THEN Failure
  ELSE Success(VInt(IF op = "<<" THEN Signed(Unsigned(l[2] * 2 ^ r[2])) ELSE l[2] \div 2 ^ r[2]))

AugOps == {"+", "-", "*", "/", "//", "%", "&", "|", "^", "<<", ">>"}

apply_aug_op(op, l, r) ==
  CASE op = "+" -> add_values(l, r)
    [] op = "-" -> sub_values(l, r)
    [] op = "*" -> mul_values(l, r)
    [] op = "/" -> div_values(l, r)
    [] op = "//" -> floor_div_values(l, r)
    [] op = "%" -> mod_values(l, r)
    [] op \in {"&", "|", "^"} -> bitwise_int_values(op, l, r)
    [] op \in {"<<", ">>"} -> shift_value(op, l, r)

-----------------------------------------------------------------------------
(* Records and JSON *)

\* Record::get: the first column of that name, 0 when there is none.
Column(fields, key) ==
  LET at == {i \in DOMAIN fields : fields[i][1] = key}
  IN IF at = {} THEN 0 ELSE Min(at)
Has(fields, key) == Column(fields, key) # 0
FieldOf(fields, key) == fields[Column(fields, key)][2]

\* Record::insert replaces in place; Record::push does not look.
Inserted(fields, key, value) ==
  IF Has(fields, key) THEN [fields EXCEPT ![Column(fields, key)] = <<key, value>>]
  ELSE Append(fields, <<key, value>>)

\* A JSON object keeps the last value of a key, and its keys in no order.
RECURSIVE nu_to_json_value(_)
nu_to_json_value(v) ==
  CASE Type(v) = "list" -> <<"array", [i \in DOMAIN v[2] |-> nu_to_json_value(v[2][i])]>>
    [] Type(v) = "rec" ->
         <<"object", [k \in {v[2][i][1] : i \in DOMAIN v[2]} |->
                        nu_to_json_value(v[2][Max({i \in DOMAIN v[2] : v[2][i][1] = k})][2])]>>
    [] OTHER -> v

\* What unique(), set(), add() and the count() of a list tell values apart by.
value_identity_key(v) == nu_to_json_value(v)

-----------------------------------------------------------------------------
(* Comparison *)

value_truthy(v) ==
  CASE Type(v) = "none" -> FALSE
    [] Type(v) = "bool" -> v[2]
    [] IsNumber(v) -> ~IsZero(v)
    [] OTHER -> v[2] # <<>>

RECURSIVE values_equal(_, _)
values_equal(l, r) ==
  CASE Types(l, r) = <<"int", "int">> -> l = r
    [] IsNumber(l) /\ IsNumber(r) -> AsFloat(l) = AsFloat(r) /\ ~IsNaN(l)
    [] Type(l) # Type(r) -> FALSE
    [] Type(l) = "list" -> /\ Len(l[2]) = Len(r[2])
                           /\ \A i \in DOMAIN l[2] : values_equal(l[2][i], r[2][i])
    [] Type(l) = "rec" -> /\ Len(l[2]) = Len(r[2])
                          /\ \A i \in DOMAIN l[2] :
                               /\ Has(r[2], l[2][i][1])
                               /\ values_equal(l[2][i][2], FieldOf(r[2], l[2][i][1]))
    [] OTHER -> l = r

Compare(m, n) == IF m < n THEN -1 ELSE IF m > n THEN 1 ELSE 0

\* -1, 0 or 1, or an error; Cmp orders the items that two sequences share.
Lexical(l, r, Cmp(_, _)) ==
  LET From[i \in 1 .. Least(Len(l), Len(r)) + 1] ==
        IF i > Least(Len(l), Len(r)) THEN Success(Compare(Len(l), Len(r)))
        ELSE LET here == Cmp(l[i], r[i])
             IN IF here.ok /\ here.value = 0 THEN From[i + 1] ELSE here
  IN From[1]

FloatOrdering(a, b) ==
  IF IsNaN(a) \/ IsNaN(b) THEN Failure ELSE Success(Compare(a[2] * b[3], b[2] * a[3]))
RECURSIVE value_ordering(_, _)
value_ordering(l, r) ==
  LET Chars(a, b) == Success(Compare(CharRank[a], CharRank[b]))
  IN CASE Types(l, r) = <<"int", "int">> -> Success(Compare(l[2], r[2]))
       [] IsNumber(l) /\ IsNumber(r) -> FloatOrdering(AsFloat(l), AsFloat(r))
       [] Types(l, r) = <<"str", "str">> -> Lexical(l[2], r[2], Chars)
       [] Types(l, r) = <<"list", "list">> -> Lexical(l[2], r[2], value_ordering)
       [] OTHER -> Failure

value_contains(container, needle) ==
  CASE Type(container) = "list" ->
         Success(\E i \in DOMAIN container[2] : values_equal(container[2][i], needle))
    [] Type(container) \in {"str", "rec"} /\ Type(needle) # "str" -> Failure
    [] Type(container) = "str" -> Success(Occurrences(container[2], needle[2]) # {})
    [] Type(container) = "rec" -> Success(Has(container[2], needle[2]))
    [] OTHER -> Failure

Negated(result) == IF result.ok THEN Success(~result.value) ELSE result

OrderOps == [op \in {"<", "<=", ">", ">="} |->
               CASE op = "<" -> {-1} [] op = "<=" -> {-1, 0} [] op = ">" -> {1} [] op = ">=" -> {0, 1}]

compare_values(l, op, r) ==
  LET Within(order, places) == IF order.ok THEN Success(order.value \in places) ELSE Failure
  IN CASE op \in {"==", "is"} -> Success(values_equal(l, r))
       [] op \in {"!=", "is not"} -> Success(~values_equal(l, r))
       [] op = "in" -> value_contains(r, l)
       [] op = "not in" -> Negated(value_contains(r, l))
       [] op \in DOMAIN OrderOps -> Within(value_ordering(l, r), OrderOps[op])

\* A chain of comparisons stops at the first that does not hold; None is only
\* None for `is`.
eval_compare(left, ops, comparators) ==
  LET Holds(l, op, r) ==
        IF op \in {"is", "is not"} /\ VNone \in {l, r}
        THEN Success((l = r) = (op = "is")) ELSE compare_values(l, op, r)
      From[i \in 1 .. Len(ops) + 1] ==
        IF i > Len(ops) THEN Success(VBool(TRUE))
        ELSE LET here == Holds(IF i = 1 THEN left ELSE comparators[i - 1], ops[i],
                               comparators[i])
             IN IF ~here.ok THEN Failure
                ELSE IF here.value THEN From[i + 1] ELSE Success(VBool(FALSE))
  IN IF Len(ops) # Len(comparators) THEN Failure ELSE From[1]

\* and, or: a boolean, never the operand.
eval_bool_op(op, values) ==
  IF values = <<>> THEN Failure
  ELSE Success(VBool(IF op = "and" THEN \A i \in DOMAIN values : value_truthy(values[i])
                     ELSE \E i \in DOMAIN values : value_truthy(values[i])))

-----------------------------------------------------------------------------
(* Numbers that are read from other values *)

TrimStart(s, S) == LET keep == {i \in DOMAIN s : s[i] \notin S}
                   IN IF keep = {} THEN <<>> ELSE Without(s, Min(keep) - 1)
TrimEnd(s, S) == LET keep == {i \in DOMAIN s : s[i] \notin S}
                 IN IF keep = {} THEN <<>> ELSE Taken(s, Max(keep))
Trim(s, S) == TrimEnd(TrimStart(s, S), S)

DigitChars == <<"0", "1", "2", "3", "4", "5", "6", "7", "8", "9">>
Digit == ToSet(DigitChars)
Number(s) ==
  FoldLeft(LAMBDA n, c : 10 * n + (CHOOSE i \in DOMAIN DigitChars : DigitChars[i] = c) - 1, 0, s)
Signless(s) == IF s # <<>> /\ s[1] \in {"+", "-"} THEN Tail(s) ELSE s
SignOf(s) == IF s # <<>> /\ s[1] = "-" THEN -1 ELSE 1

\* str::parse::<i64>.
ParseInt(s) ==
  LET body == Signless(s)
  IN IF body = <<>> \/ ~(ToSet(body) \subseteq Digit) THEN Failure
     ELSE InInt(SignOf(s) * Number(body))

\* str::parse::<f64>, without exponents.
ParseFloat(s) ==
  LET body == Signless(s)
      points == {i \in DOMAIN body : body[i] = "."}
      digits == SelectSeq(body, LAMBDA c : c # ".")
      places == IF points = {} THEN 0 ELSE Len(body) - Min(points)
  IN IF body = <<"N">> THEN Success(VNaN)
     ELSE IF digits = <<>> \/ ~(ToSet(digits) \subseteq Digit) \/ Cardinality(points) > 1
          THEN Failure
     ELSE IF places = 0 THEN Success(AsFloat(VInt(SignOf(s) * Number(digits))))
     ELSE Success(VFloat(SignOf(s) * Number(digits), 10 ^ places))

\* `as i64`: toward zero, to the nearest end, and NaN to 0.
AsInt(f) ==
  IF IsNaN(f) THEN 0
  ELSE LET n == Toward0(f[2], f[3])
       IN IF n < LowestInt THEN LowestInt ELSE IF n > HighestInt THEN HighestInt ELSE n

value_to_i64(v) ==
  LET Read(n) == IF n.ok THEN Success(n.value[2]) ELSE Failure
  IN CASE Type(v) = "int" -> Success(v[2])
       [] Type(v) = "float" -> Success(AsInt(v))
       [] Type(v) = "str" -> Read(ParseInt(Trim(v[2], Blank)))
       [] OTHER -> Failure

value_to_f64(v) ==
  CASE IsNumber(v) -> Success(AsFloat(v))
    [] Type(v) = "str" -> ParseFloat(Trim(v[2], Blank))
    [] OTHER -> Failure

value_to_limit(v) ==
  LET Limit(n) == IF n.ok /\ n.value >= 0 THEN n ELSE Failure IN Limit(value_to_i64(v))

int_builtin(v) ==
  LET Int64(n) == IF n.ok THEN Success(VInt(n.value)) ELSE Failure IN Int64(value_to_i64(v))
float_builtin(v) == value_to_f64(v)

parse_int_builtin(v, default) ==
  LET Otherwise(n) == IF n.ok THEN n ELSE IF Type(default) = "int" THEN Success(default) ELSE Failure
  IN Otherwise(int_builtin(v))
parse_float_builtin(v, default) ==
  LET Otherwise(f) == IF f.ok THEN f ELSE IF IsNumber(default) THEN Success(default) ELSE Failure
  IN Otherwise(value_to_f64(v))

\* A half goes away from zero.
round_builtin(v, digits) ==
  LET scale == 10 ^ digits
      Rounded(f) ==
        LET doubled == 2 * Abs(f[2]) * scale + f[3]
            whole == doubled \div (2 * f[3])
        IN VFloat((IF f[2] < 0 THEN -1 ELSE 1) * whole, scale)
      Of(number) ==
        IF ~number.ok \/ digits \notin 0 .. 9 THEN Failure
        ELSE Success(IF IsNaN(number.value) THEN number.value ELSE Rounded(number.value))
  IN Of(value_to_f64(v))

\* A string counts as the integer it reads as, or else as the float.
value_to_sum_number(v) ==
  LET Read(n, text) == IF n.ok THEN n ELSE ParseFloat(text)
      Trimmed(text) == Read(ParseInt(text), text)
  IN CASE IsNumber(v) -> Success(v)
       [] Type(v) = "str" -> Trimmed(Trim(v[2], Blank))
       [] OTHER -> Failure

\* Integers are added as integers until the first float comes.
sum_builtin(values) ==
  LET Plus(total, number) ==
        IF total.ok /\ number.ok THEN add_values(total.value, number.value) ELSE Failure
      Add(total, v) == Plus(total, value_to_sum_number(v))
  IN FoldLeft(Add, Success(VInt(0)), values)

min_max_builtin(values, name) ==
  LET Placed(best, v, order) ==
        IF ~order.ok THEN Failure
        ELSE IF order.value = (IF name = "min" THEN -1 ELSE 1) THEN Success(v) ELSE best
      Better(best, v) ==
        IF ~best.ok \/ ~IsNumber(v) THEN Failure
        ELSE IF best.value = VNone THEN Success(v)
        ELSE Placed(best, v, value_ordering(v, best.value))
  IN IF values = <<>> THEN Failure ELSE FoldLeft(Better, Success(VNone), values)

\* The step past the last number is taken, and checked, before the end is seen.
range_builtin(args) ==
  LET start == IF Len(args) = 1 THEN 0 ELSE args[1]
      stop == IF Len(args) = 1 THEN args[1] ELSE args[2]
      step == IF Len(args) = 3 THEN args[3] ELSE 1
      Before(n, rest) == IF rest.ok THEN Success(<<VInt(n)>> \o rest.value) ELSE Failure
      From[n \in LowestInt .. HighestInt] ==
        IF IF step > 0 THEN n >= stop ELSE n <= stop THEN Success(<<>>)
        ELSE IF ~InWord(n + step) THEN Failure
        ELSE Before(n, From[n + step])
      Within(numbers) ==
        IF numbers.ok /\ Len(numbers.value) <= MaxRange THEN Success(VList(numbers.value)) ELSE Failure
  IN IF Len(args) \notin 1 .. 3 \/ step = 0 THEN Failure ELSE Within(From[start])

enumerate_builtin(values, start) ==
  IF \E i \in DOMAIN values : ~InWord(start + i - 1) THEN Failure
  ELSE Success(VList([i \in DOMAIN values |-> VList(<<VInt(start + i - 1), values[i]>>)]))

-----------------------------------------------------------------------------
(* Lists *)

\* Whether the later item goes before the earlier one.
GoesBefore(order, reverse) == order.value = (IF reverse THEN 1 ELSE -1)

sort_key_kind(key) ==
  CASE IsNumber(key) /\ ~IsNaN(key) -> "number"
    [] Type(key) = "str" -> "text"
    [] Type(key) = "list" -> "composite"
    [] OTHER -> "none"

Panic == [ok |-> FALSE, panic |-> TRUE]

\* The keys, or how they failed, come first, and the first that cannot be sorted
\* by ends it; then the items are inserted one by one, as the sort of the standard
\* library does with up to twenty.  Composite keys are not looked into: a
\* comparison that fails is a panic.
sort_builtin_values(values, keys, reverse) ==
  LET Kind(i) == sort_key_kind(keys[i].value)
      Placed(order, here, before) ==
        IF ~order.ok THEN Panic ELSE IF GoesBefore(order, reverse) THEN before ELSE Success(here)
      Place(sorted, key) ==
        LET At[j \in 0 .. Len(sorted)] ==
              IF j = 0 THEN Success(0)
              ELSE Placed(value_ordering(key, sorted[j].key), j, At[j - 1])
        IN At[Len(sorted)]
      PutAt(sorted, i, place) ==
        IF ~place.ok THEN Panic
        ELSE Success(InsertAt(sorted, place.value + 1, [key |-> keys[i].value, value |-> values[i]]))
      Put(sorted, i) ==
        IF sorted.ok THEN PutAt(sorted.value, i, Place(sorted.value, keys[i].value)) ELSE sorted
      Values(sorted) ==
        IF sorted.ok THEN Success(VList([i \in DOMAIN values |-> sorted.value[i].value])) ELSE Panic
  IN IF \E i \in DOMAIN keys : ~keys[i].ok \/ Kind(i) = "none" \/ Kind(i) # Kind(1)
     THEN Failure
     ELSE Values(FoldLeft(Put, Success(<<>>), [i \in DOMAIN values |-> i]))

OwnKeys(values) == [i \in DOMAIN values |-> Success(values[i])]

\* A field is <<>> when the values are their own keys.
sort_key_for_value(v, field) ==
  IF field = <<>> THEN Success(v)
  ELSE IF Type(v) = "rec" /\ Has(v[2], field[1]) THEN Success(FieldOf(v[2], field[1])) ELSE Failure

\* The first of each identity.
unique_values(values) ==
  LET Add(kept, v) ==
        IF \E i \in DOMAIN kept : value_identity_key(kept[i]) = value_identity_key(v)
        THEN kept ELSE Append(kept, v)
  IN FoldLeft(Add, <<>>, values)

OfList(v, result) == IF Type(v) = "list" THEN Success(result) ELSE Failure
Items(v) == IF Type(v) = "list" THEN v[2] ELSE <<>>

first_builtin(v, count) == OfList(v, VList(Taken(Items(v), count)))
last_builtin(v, count) ==
  OfList(v, VList(IF count >= Len(Items(v)) THEN Items(v) ELSE Without(Items(v), Len(Items(v)) - count)))
first_item(v) == OfList(v, IF Items(v) = <<>> THEN VNone ELSE Head(Items(v)))
last_item(v) == OfList(v, IF Items(v) = <<>> THEN VNone ELSE Last(Items(v)))
unique_builtin(v) == OfList(v, VList(unique_values(Items(v))))
set_builtin(values) == Success(VList(unique_values(values)))

\* Rows that are no records, or lack the key, are left out; the first row that
\* cannot be compared ends it.
where_compare_builtin(v, key, op, expected) ==
  LET Passing(rows, tests) ==
        IF \E i \in DOMAIN rows : ~tests[rows[i]].ok THEN Failure
        ELSE Success(VList(SelectSeq(rows, LAMBDA row : tests[row].value)))
      Among(rows) ==
        Passing(rows, [row \in ToSet(rows) |->
                         compare_values(FieldOf(row[2], key[2]), op, expected)])
  IN IF Type(v) # "list" \/ Type(key) # "str" THEN Failure
     ELSE Among(SelectSeq(v[2], LAMBDA row : Type(row) = "rec" /\ Has(row[2], key[2])))
where_builtin(v, key, expected) == where_compare_builtin(v, key, "==", expected)

-----------------------------------------------------------------------------
(* Texts *)

Bytes(s) == Len(s) + Cardinality({i \in DOMAIN s : s[i] \in Wide})

Clamp(n, low, high) == IF n < low THEN low ELSE IF n > high THEN high ELSE n
FromEnd(n, len) == IF n < 0 THEN len + n ELSE n

normalize_string_start(index, len) == Clamp(FromEnd(index, len), 0, len)

\* The bounds of a slice never fail: what lies outside is moved to the end it
\* is beyond, and an end before the start gives nothing.
normalize_slice_bounds(lower, upper, len) ==
  LET start == Clamp(FromEnd(lower, len), 0, len)
      end == Clamp(FromEnd(upper, len), 0, len)
  IN <<start, IF start > end THEN start ELSE end>>

\* Bounds are <<>> when they are not given.
slice_builtin(v, lower, upper) ==
  LET items == v[2]
      bounds == normalize_slice_bounds(IF lower = <<>> THEN 0 ELSE lower[1],
                                       IF upper = <<>> THEN Len(items) ELSE upper[1],
                                       Len(items))
  IN IF Type(v) \notin {"list", "str"} THEN Failure
     ELSE Success(<<Type(v), SubSeq(items, bounds[1] + 1, bounds[2])>>)

normalize_index(index, len) ==
  LET Inside(place) == IF place \in 0 .. len - 1 THEN Success(place) ELSE Failure
  IN Inside(FromEnd(index, len))

\* The place of a text is counted in bytes, the start in characters.
FirstFrom(text, needle, start) ==
  LET at == {i \in Occurrences(text, needle) : i > start}
  IN IF at = {} THEN Failure ELSE Success(Bytes(Taken(text, Min(at) - 1)))

\* A start is <<>> when it is not given.
StringStart(text, start) ==
  LET Normal(n) == IF n.ok THEN Success(normalize_string_start(n.value, Len(text))) ELSE Failure
  IN IF start = <<>> THEN Success(0) ELSE Normal(value_to_i64(start[1]))

find_method_builtin(receiver, needle, start) ==
  LET At(place) == Success(VInt(IF place.ok THEN place.value ELSE -1))
      From(first) == IF first.ok THEN At(FirstFrom(receiver[2], needle[2], first.value)) ELSE Failure
  IN IF Types(receiver, needle) # <<"str", "str">> THEN Failure
     ELSE From(StringStart(receiver[2], start))

\* A list takes no start, and compares where a text searches.
index_method_builtin(receiver, needle, start) ==
  LET First(at) == IF start # <<>> \/ at = {} THEN Failure ELSE Success(VInt(Min(at) - 1))
      Known(found) == IF found = Success(VInt(-1)) THEN Failure ELSE found
  IN IF Type(receiver) = "list"
     THEN First({i \in DOMAIN receiver[2] : values_equal(receiver[2][i], needle)})
     ELSE Known(find_method_builtin(receiver, needle, start))

\* str::split: what lies between the matches; splitn ends it after limit cuts.
CutAt(text, separator, limit) ==
  LET Rest[from \in 1 .. Len(text) + 1, n \in 0 .. limit] ==
        LET Match(i) ==
              IF n = 0 \/ i = 0 THEN <<Without(text, from - 1)>>
              ELSE <<SubSeq(text, from, i - 1)>> \o Rest[i + Len(separator), n - 1]
        IN Match(NextMatch(text, separator, from))
  IN Rest[1, limit]

\* rsplitn, put back in order.
RightCutAt(text, separator, limit) ==
  LET Back(parts) == Reverse([i \in DOMAIN parts |-> Reverse(parts[i])])
  IN Back(CutAt(Reverse(text), Reverse(separator), limit))

split_whitespace(text) ==
  LET Put(words, i) ==
        IF text[i] \in Blank THEN words
        ELSE IF i = 1 \/ text[i - 1] \in Blank THEN Append(words, <<text[i]>>)
        ELSE [words EXCEPT ![Len(words)] = Append(@, text[i])]
  IN FoldLeft(Put, <<>>, [i \in DOMAIN text |-> i])

\* The rest keeps its white space, but for what it begins with.
split_whitespace_limited(text, limit) ==
  LET Rest[n \in 0 .. limit, from \in 1 .. Len(text) + 1] ==
        LET Word(rest, blanks) ==
              IF rest = <<>> THEN <<>>
              ELSE IF n = 0 \/ blanks = {} THEN <<rest>>
              ELSE <<Taken(rest, Min(blanks) - 1)>>
                     \o Rest[n - 1, Len(text) - Len(rest) + Min(blanks)]
            Trimmed(rest) == Word(rest, {i \in DOMAIN rest : rest[i] \in Blank})
        IN Trimmed(TrimStart(Without(text, from - 1), Blank))
  IN Rest[limit, 1]

Joined(parts, separator) ==
  IF parts = <<>> THEN <<>>
  ELSE FoldLeft(LAMBDA text, part : text \o separator \o part, Head(parts), Tail(parts))

\* From the right, the rest is put together with single spaces.
split_whitespace_right_limited(text, limit) ==
  LET From(fields, at) ==
        IF fields = <<>> THEN <<>>
        ELSE IF limit = 0 THEN <<Trim(text, Blank)>>
        ELSE IF at <= 1 THEN fields
        ELSE <<Joined(Taken(fields, at), <<" ">>)>> \o Without(fields, at)
      Of(fields) == From(fields, Len(fields) - limit)
  IN Of(split_whitespace(text))

\* A negative limit is none.
split_maxsplit(maxsplit) ==
  LET Limit(n) == IF ~n.ok THEN Failure ELSE Success(IF n.value < 0 THEN <<>> ELSE <<n.value>>)
  IN Limit(value_to_i64(maxsplit))

\* The separator is none, a text, or a failure; without a limit every match
\* cuts.
SplitBy(v, separator, limit, Words(_, _), Cut(_, _, _)) ==
  LET text == v[2]
      Listed(parts) == Success(VList([i \in DOMAIN parts |-> VStr(parts[i])]))
  IN IF Type(v) # "str" \/ (separator # VNone /\ Type(separator) # "str")
        \/ separator = VStr(<<>>)
     THEN Failure
     ELSE Listed(IF separator = VNone
                 THEN IF limit = <<>> THEN split_whitespace(text) ELSE Words(text, limit[1])
                 ELSE IF limit = <<>> THEN CutAt(text, separator[2], Len(text))
                 ELSE Cut(text, separator[2], limit[1]))

split_text(v, separator, limit) ==
  SplitBy(v, separator, limit, split_whitespace_limited, CutAt)
rsplit_text(v, separator, limit) ==
  SplitBy(v, separator, limit, split_whitespace_right_limited, RightCutAt)

AllStrings(items) == \A i \in DOMAIN items : Type(items[i]) = "str"
JoinItems(items, separator) ==
  IF ~AllStrings(items) THEN Failure
  ELSE Success(VStr(Joined([i \in DOMAIN items |-> items[i][2]], separator)))

\* The list and the separator come in either order.
join_builtin(first, second) ==
  CASE Types(first, second) = <<"list", "str">> -> JoinItems(first[2], second[2])
    [] Types(first, second) = <<"str", "list">> -> JoinItems(second[2], first[2])
    [] OTHER -> Failure

\* str::replace of nothing puts the new text around every character.
Replaced(text, old, new) ==
  IF old = <<>>
  THEN new \o FlattenSeq([i \in DOMAIN text |-> <<text[i]>> \o new])
  ELSE replace(text, old, new, Len(text))

zfill_text(text, width) ==
  LET sign == Taken(text, Len(text) - Len(Signless(text)))
  IN IF Len(text) >= width THEN text
     ELSE sign \o [i \in 1 .. width - Len(text) |-> "0"] \o Signless(text)

\* The methods of a string that take one argument or none; an argument is
\* <<>> when it is not given.
Methods1 == {"count", "startswith", "endswith", "join", "zfill"}

string_method_builtin(receiver, method, args) ==
  LET text == receiver[2]
      arg == args[1]
      Chars == IF args = <<>> THEN Blank ELSE ToSet(arg[2])
      Within(S) == Success(VBool(text # <<>> /\ ToSet(text) \subseteq S))
      OfLines(lines) == Success(VList([i \in DOMAIN lines |-> VStr(lines[i])]))
      Split(separator, limit) ==
        IF ~limit.ok THEN Failure
        ELSE IF method = "split" THEN split_text(receiver, separator, limit.value)
        ELSE rsplit_text(receiver, separator, limit.value)
      Filled(width) == IF width.ok THEN Success(VStr(zfill_text(text, width.value))) ELSE Failure
  IN CASE Type(receiver) # "str" -> Failure
       [] method \in {"strip", "lstrip", "rstrip"} ->
            IF args # <<>> /\ (Len(args) > 1 \/ Type(arg) # "str") THEN Failure
            ELSE Success(VStr(CASE method = "strip" -> Trim(text, Chars)
                                [] method = "lstrip" -> TrimStart(text, Chars)
                                [] method = "rstrip" -> TrimEnd(text, Chars)))
       [] method = "isdigit" -> IF args = <<>> THEN Within(Digit) ELSE Failure
       [] method = "splitlines" ->
            IF args = <<>> THEN OfLines(TextLines(text)) ELSE Failure
       [] method \in {"split", "rsplit"} ->
            IF Len(args) > 2 THEN Failure
            ELSE Split(IF args = <<>> THEN VNone ELSE arg,
                       IF Len(args) < 2 THEN Success(<<>>) ELSE split_maxsplit(args[2]))
       [] method = "replace" ->
            IF Len(args) # 2 \/ ~AllStrings(args) THEN Failure
            ELSE Success(VStr(Replaced(text, arg[2], args[2][2])))
       [] method \in Methods1 /\ Len(args) # 1 -> Failure
       [] method = "zfill" -> Filled(value_to_limit(arg))
       [] method = "join" -> IF Type(arg) = "list" THEN JoinItems(arg[2], text) ELSE Failure
       [] Type(arg) # "str" -> Failure
       [] method = "count" ->
            Success(VInt(IF arg[2] = <<>> THEN Len(text) + 1 ELSE matches(text, arg[2])))
       [] method = "startswith" -> Success(VBool(IsPrefix(arg[2], text)))
       [] method = "endswith" -> Success(VBool(IsSuffix(arg[2], text)))

\* A template is cut into its pieces: a character, a place that takes the next
\* argument, one that names its argument by number, or a brace on its own.
format_template(template, args) ==
  LET Fill(s, piece) ==
        LET auto == s.auto \/ piece.kind = "auto"
            named == s.named \/ piece.kind = "number"
            at == IF piece.kind = "auto" THEN s.next ELSE piece.n
        IN IF ~s.ok THEN s
           ELSE IF piece.kind = "char" THEN [s EXCEPT !.output = Append(@, piece)]
           ELSE IF piece.kind = "brace" \/ (auto /\ named) \/ at >= Len(args)
                THEN [s EXCEPT !.ok = FALSE]
           ELSE [ok |-> TRUE, auto |-> auto, named |-> named,
                 next |-> s.next + (IF piece.kind = "auto" THEN 1 ELSE 0),
                 output |-> Append(s.output, [kind |-> "arg", n |-> at])]
      end == FoldLeft(Fill, [ok |-> TRUE, auto |-> FALSE, named |-> FALSE, next |-> 0,
                             output |-> <<>>], template)
  IN IF ~end.ok \/ (~end.named /\ end.next # Len(args)) THEN Failure
     ELSE Success(end.output)

-----------------------------------------------------------------------------
(* Items and paths to them *)

\* record get(), keys(), values(), items(), and what iterates.
Keys(v) == [i \in DOMAIN v[2] |-> VStr(v[2][i][1])]
record_method_builtin(v, method, args) ==
  CASE Type(v) # "rec" -> Failure
    [] method = "get" ->
         IF Len(args) \notin 1 .. 2 \/ Type(args[1]) # "str" THEN Failure
         ELSE Success(IF Has(v[2], args[1][2]) THEN FieldOf(v[2], args[1][2])
                      ELSE IF Len(args) = 2 THEN args[2] ELSE VNone)
    [] args # <<>> -> Failure
    [] method = "keys" -> Success(VList(Keys(v)))
    [] method = "values" -> Success(VList([i \in DOMAIN v[2] |-> v[2][i][2]]))
    [] method = "items" -> Success(VList([i \in DOMAIN v[2] |->
                                            VList(<<VStr(v[2][i][1]), v[2][i][2]>>)]))

list_builtin(v) ==
  IF Type(v) = "list" THEN Success(v) ELSE record_method_builtin(v, "keys", <<>>)

len_builtin(v) ==
  IF Type(v) \in {"list", "rec", "str"} THEN Success(VInt(Len(v[2]))) ELSE Failure

\* A text iterates by lines.
value_to_iter_values(v) ==
  LET OfLines(lines) == Success([i \in DOMAIN lines |-> VStr(lines[i])])
  IN CASE Type(v) = "list" -> Success(v[2])
       [] Type(v) = "rec" -> Success(Keys(v))
       [] Type(v) = "str" -> OfLines(TextLines(v[2]))
       [] OTHER -> Failure

\* The place of an item in a record or a list (subscript_mut): a negative
\* index counts from the end.
PlaceOf(v, index) ==
  LET Known(column) == IF column # 0 THEN Success(column) ELSE Failure
      After(place) == IF place.ok THEN Success(place.value + 1) ELSE Failure
  IN CASE Types(v, index) = <<"rec", "str">> -> Known(Column(v[2], index[2]))
       [] Types(v, index) = <<"list", "int">> -> After(normalize_index(index[2], Len(v[2])))
       [] OTHER -> Failure

ItemAt(v, place) == IF Type(v) = "rec" THEN v[2][place][2] ELSE v[2][place]
Exchanged(v, place, item) ==
  <<Type(v), [v[2] EXCEPT ![place] = IF Type(v) = "rec" THEN <<@[1], item>> ELSE item]>>

\* A text can be indexed too, but not changed in place.
subscript_builtin(v, index) ==
  LET Char(place) == IF place.ok THEN Success(VStr(<<v[2][place.value + 1]>>)) ELSE Failure
      Item(place) == IF place.ok THEN Success(ItemAt(v, place.value)) ELSE Failure
  IN IF Types(v, index) = <<"str", "int">> THEN Char(normalize_index(index[2], Len(v[2])))
     ELSE Item(PlaceOf(v, index))

ReadPath(v, indices) ==
  FoldLeft(LAMBDA item, index : IF item.ok THEN subscript_builtin(item.value, index) ELSE item,
           Success(v), indices)

\* A record takes a key it does not have, a list no index it does not have.
assign_subscript(v, index, item) ==
  LET At(place) == IF place.ok THEN Success(Exchanged(v, place.value, item)) ELSE Failure
  IN IF Types(v, index) = <<"rec", "str">> THEN Success(VRec(Inserted(v[2], index[2], item)))
     ELSE At(PlaceOf(v, index))

\* Only the last index of a path may be new.
RECURSIVE assign_subscript_path(_, _, _)
assign_subscript_path(v, indices, item) ==
  LET Within(place, inner) ==
        IF inner.ok THEN Success(Exchanged(v, place, inner.value)) ELSE Failure
      At(place) ==
        IF ~place.ok THEN Failure
        ELSE Within(place.value,
                    assign_subscript_path(ItemAt(v, place.value), Tail(indices), item))
  IN IF Len(indices) = 1 THEN assign_subscript(v, indices[1], item) ELSE At(PlaceOf(v, indices[1]))

-----------------------------------------------------------------------------
(* Variables: an environment maps each name to its value, or to VUnset. *)

VUnset == <<"unset">>
Ended(env) == [ok |-> TRUE, env |-> env]
Broken(env) == [ok |-> FALSE, env |-> env]

\* x[i][j] = v, or x = v without indices.
assign_value(env, name, indices, item) ==
  LET To(new) == IF new.ok THEN Ended([env EXCEPT ![name] = new.value]) ELSE Broken(env)
  IN CASE indices = <<>> -> Ended([env EXCEPT ![name] = item])
       [] indices # <<>> /\ env[name] = VUnset -> Broken(env)
       [] OTHER -> To(assign_subscript_path(env[name], indices, item))

\* The item is read, the operator applied, and the item assigned.
aug_assign(env, name, indices, op, right) ==
  LET To(new) == IF new.ok THEN assign_value(env, name, indices, new.value) ELSE Broken(env)
      From(left) == IF left.ok THEN To(apply_aug_op(op, left.value, right)) ELSE Broken(env)
  IN IF env[name] = VUnset THEN Broken(env) ELSE From(ReadPath(env[name], indices))

\* a, b = v: all the names, or none.
assign_unpack_targets(env, targets, v) ==
  IF Type(v) # "list" \/ Len(Items(v)) # Len(targets) THEN Broken(env)
  ELSE Ended(FoldLeft(LAMBDA e, i : [e EXCEPT ![targets[i]] = v[2][i]],
                      env, [i \in DOMAIN targets |-> i]))

assign_loop_targets(env, targets, v) ==
  IF Len(targets) = 1 THEN Ended([env EXCEPT ![targets[1]] = v])
  ELSE assign_unpack_targets(env, targets, v)

\* The methods that change a list in place; the receiver is a path.
ListMethod(items, method, arg) ==
  LET With(more) == IF more.ok THEN Success(items \o more.value) ELSE Failure
      Now(sorted) == IF sorted.ok THEN Success(sorted.value[2]) ELSE Failure
  IN CASE method = "append" -> Success(Append(items, arg))
       [] method = "extend" -> With(value_to_iter_values(arg))
       [] method = "add" -> Success(IF \E i \in DOMAIN items :
                                         value_identity_key(items[i]) = value_identity_key(arg)
                                    THEN items ELSE Append(items, arg))
       [] method = "sort" -> Now(sort_builtin_values(items, OwnKeys(items), arg = VBool(TRUE)))

mutable_list_method(env, name, indices, method, arg) ==
  LET To(new) == IF new.ok THEN assign_value(env, name, indices, VList(new.value)) ELSE Broken(env)
      Of(target) == IF target.ok /\ Type(target.value) = "list"
                    THEN To(ListMethod(target.value[2], method, arg)) ELSE Broken(env)
  IN IF env[name] = VUnset THEN Broken(env) ELSE Of(ReadPath(env[name], indices))

-----------------------------------------------------------------------------
(* Comprehensions and generators.  An operand is a name or a value.  The     *)
(* state s of one that runs has its environment, what it put out so far, and *)
(* whether it stopped early.                                                 *)

Operand(env, x) == IF Type(x) = "name" THEN env[x[2]] ELSE x

Visit(c, s) ==
  LET v == Operand(s.env, c.elt)
  IN IF v = VUnset THEN [s EXCEPT !.ok = FALSE]
     ELSE CASE c.mode = "list" -> [s EXCEPT !.out = Append(@, v)]
            [] c.mode = "dict" ->
                 LET key == Operand(s.env, c.key)
                 IN IF Type(key) # "str" THEN [s EXCEPT !.ok = FALSE]
                    ELSE [s EXCEPT !.out = Append(@, <<key[2], v>>)]
            [] c.mode = "any" -> [s EXCEPT !.stop = value_truthy(v)]
            [] c.mode = "all" -> [s EXCEPT !.stop = ~value_truthy(v)]

\* Faulty variant: an early end leaves the targets bound.
RestoreAtTheEnd(s, env, targets) ==
  IF ~s.ok \/ s.stop THEN s
  ELSE [s EXCEPT !.env = [n \in DOMAIN env |-> IF n \in ToSet(targets) THEN env[n] ELSE @[n]]]

\* The targets get back what they were bound to, unless an error goes through.
restore_target_values(s, env, targets) ==
  IF ~s.ok THEN s
  ELSE [s EXCEPT !.env = [n \in DOMAIN env |-> IF n \in ToSet(targets) THEN env[n] ELSE @[n]]]

RECURSIVE eval_comprehension_clauses(_, _, _)
eval_comprehension_clauses(c, index, s) ==
  IF index > Len(c.clauses) THEN Visit(c, s)
  ELSE LET clause == c.clauses[index]
           Ends(test) == test = VUnset \/ ~value_truthy(test)
           Filtered(here, tests, ends) ==
             IF ends = {} THEN eval_comprehension_clauses(c, index + 1, here)
             ELSE [here EXCEPT !.ok = tests[Min(ends)] # VUnset]
           Tested(here, tests) == Filtered(here, tests, {i \in DOMAIN tests : Ends(tests[i])})
           Visited(here) ==
             IF here.ok THEN Tested(here, [i \in DOMAIN clause.filters |->
                                             Operand(here.env, clause.filters[i])])
             ELSE here
           Bound(t, bound) == Visited([t EXCEPT !.ok = bound.ok, !.env = bound.env])
           Item(t, v) == IF ~t.ok \/ t.stop THEN t
                         ELSE Bound(t, assign_loop_targets(t.env, clause.targets, v))
           Each(values) ==
             IF ~values.ok THEN [s EXCEPT !.ok = FALSE]
             ELSE restore_target_values(FoldLeft(Item, s, values.value), s.env, clause.targets)
       IN Each(value_to_iter_values(Operand(s.env, clause.iter)))

Comprehended(env, c) ==
  eval_comprehension_clauses(c, 1, [ok |-> TRUE, env |-> env, out |-> <<>>, stop |-> FALSE])
eval_list_comprehension(env, elt, clauses) ==
  Comprehended(env, [mode |-> "list", elt |-> elt, clauses |-> clauses])
\* A key that comes again is not replaced.
eval_dict_comprehension(env, key, elt, clauses) ==
  Comprehended(env, [mode |-> "dict", key |-> key, elt |-> elt, clauses |-> clauses])
eval_generator_truthy(env, elt, clauses, is_any) ==
  Comprehended(env, [mode |-> IF is_any THEN "any" ELSE "all", elt |-> elt, clauses |-> clauses])

-----------------------------------------------------------------------------
(* Calls: what the evaluator checks before it comes to a built-in.  A        *)
(* callable is a function from what it is given to what it returns.          *)

VCallable(f) == <<"callable", f>>
invoke_callable(callable, v) == callable[2][v]

Count(args, Item(_), Items_(_, _)) ==
  CASE Len(args) = 1 -> Item(args[1])
    [] Len(args) = 2 /\ value_to_limit(args[2]).ok ->
         Items_(args[1], value_to_limit(args[2]).value)
    [] OTHER -> Failure

eval_first_call(args) == Count(args, first_item, first_builtin)
eval_last_call(args) == Count(args, last_item, last_builtin)

Chosen(items, callable) ==
  IF \E i \in DOMAIN items : ~invoke_callable(callable, items[i]).ok THEN Failure
  ELSE Success(VList(SelectSeq(items, LAMBDA v : value_truthy(invoke_callable(callable, v).value))))

eval_where_call(args) ==
  CASE Len(args) = 2 /\ Type(args[2]) = "callable" ->
         IF Type(args[1]) = "list" THEN Chosen(args[1][2], args[2]) ELSE Failure
    [] Len(args) = 3 -> where_builtin(args[1], args[2], args[3])
    [] Len(args) = 4 /\ Type(args[3]) = "str" ->
         where_compare_builtin(args[1], args[2], args[3][2], args[4])
    [] OTHER -> Failure

eval_filter_call(args) ==
  LET values == value_to_iter_values(args[2])
  IN IF Len(args) # 2 \/ Type(args[1]) # "callable" \/ ~values.ok THEN Failure
     ELSE Chosen(values.value, args[1])

eval_map_call(args) ==
  LET values == value_to_iter_values(args[2])
      Result(i) == invoke_callable(args[1], values.value[i])
  IN IF Len(args) # 2 \/ Type(args[1]) # "callable" \/ ~values.ok THEN Failure
     ELSE IF \E i \in DOMAIN values.value : ~Result(i).ok THEN Failure
     ELSE Success(VList([i \in DOMAIN values.value |-> Result(i).value]))

\* A keyword gives the key or the order; the key may not be given twice.
\* named is a function from the keywords of the call.
eval_sort_call(args, named) ==
  LET keys == Tail(args) \o (IF "key" \in DOMAIN named THEN <<named["key"]>> ELSE <<>>)
      reverse == IF "reverse" \in DOMAIN named THEN named["reverse"] ELSE VBool(FALSE)
      KeyOf(v) == IF keys = <<>> THEN Success(v)
                  ELSE IF Type(keys[1]) = "callable" THEN invoke_callable(keys[1], v)
                  ELSE sort_key_for_value(v, <<keys[1][2]>>)
  IN IF \/ Len(args) \notin 1 .. 2 \/ Type(args[1]) # "list"
        \/ ~(DOMAIN named \subseteq {"key", "reverse"}) \/ Len(keys) > 1
        \/ \E i \in DOMAIN keys : Type(keys[i]) \notin {"str", "callable"}
        \/ Type(reverse) # "bool"
     THEN Failure
     ELSE sort_builtin_values(args[1][2], [i \in DOMAIN args[1][2] |-> KeyOf(args[1][2][i])], reverse[2])

\* Keywords are maxsplit alone, and only when the third place is free.
eval_split_call(args, named) ==
  LET limits == IF Len(args) = 3 THEN <<args[3]>>
                ELSE IF DOMAIN named # {} THEN <<named["maxsplit"]>> ELSE <<>>
      limit == IF limits = <<>> THEN Success(<<>>) ELSE split_maxsplit(limits[1])
  IN IF \/ Len(args) \notin 1 .. 3 \/ ~(DOMAIN named \subseteq {"maxsplit"})
        \/ (Len(args) = 3 /\ DOMAIN named # {}) \/ ~limit.ok
     THEN Failure
     ELSE split_text(args[1], IF Len(args) = 1 THEN VNone ELSE args[2], limit.value)

\* slice() takes None for a bound that is not given, v[a:b] does not.
eval_optional_slice_arg(v) ==
  IF v = VNone THEN Success(<<>>)
  ELSE IF value_to_i64(v).ok THEN Success(<<value_to_i64(v).value>>) ELSE Failure
eval_optional_index(v) == IF value_to_i64(v).ok THEN Success(<<value_to_i64(v).value>>) ELSE Failure

Sliced(v, lower, upper) ==
  IF lower.ok /\ upper.ok THEN slice_builtin(v, lower.value, upper.value) ELSE Failure
eval_slice_call(args) ==
  IF Len(args) \notin 1 .. 3 THEN Failure
  ELSE Sliced(args[1], IF Len(args) > 1 THEN eval_optional_slice_arg(args[2]) ELSE Success(<<>>),
              IF Len(args) > 2 THEN eval_optional_slice_arg(args[3]) ELSE Success(<<>>))

eval_join_call(args) ==
  CASE Len(args) = 1 -> join_builtin(args[1], VStr(<<>>))
    [] Len(args) = 2 -> join_builtin(args[1], args[2])
    [] OTHER -> Failure

\* get() with one argument takes its record from the pipeline.
eval_record_helper_call(name, args) ==
  IF Len(args) \notin 1 .. 3 \/ (name = "get" /\ Len(args) = 1) THEN Failure
  ELSE record_method_builtin(args[1], name, Tail(args))

\* The count of a list goes by identity, its index and `in` by equality.
eval_count_method(receiver, args) ==
  IF Len(args) # 1 THEN Failure
  ELSE IF Type(receiver) = "list"
       THEN Success(VInt(Cardinality({i \in DOMAIN receiver[2] :
                      value_identity_key(receiver[2][i]) = value_identity_key(args[1])})))
  ELSE string_method_builtin(receiver, "count", args)

\* The items of an iterable, as any(), all(), sum(), set() and enumerate() take them.
OverItems(args, most, Result(_)) ==
  IF Len(args) \notin 1 .. most THEN Failure
  ELSE LET values == value_to_iter_values(args[1])
       IN IF values.ok THEN Result(values.value) ELSE Failure

eval_any_all_call(args, is_any) ==
  LET Some(values) == Success(VBool(\E i \in DOMAIN values : value_truthy(values[i])))
      Every(values) == Success(VBool(\A i \in DOMAIN values : value_truthy(values[i])))
  IN IF is_any THEN OverItems(args, 1, Some) ELSE OverItems(args, 1, Every)
eval_sum_call(args) == OverItems(args, 1, sum_builtin)
eval_set_call(args) == IF args = <<>> THEN set_builtin(<<>>) ELSE OverItems(args, 1, set_builtin)
eval_enumerate_call(args) ==
  LET start == IF Len(args) = 2 THEN value_to_i64(args[2]) ELSE Success(0)
      Result(values) == IF start.ok THEN enumerate_builtin(values, start.value) ELSE Failure
  IN OverItems(args, 2, Result)

eval_range_call(args) ==
  IF \E i \in DOMAIN args : ~value_to_i64(args[i]).ok THEN Failure
  ELSE range_builtin([i \in DOMAIN args |-> value_to_i64(args[i]).value])

-----------------------------------------------------------------------------
(* Laws *)

Sum(l, r) == add_values(l, r).value
Product(l, r) == mul_values(l, r).value
Precedes(l, r) == value_ordering(l, r) = Success(-1)
Between(v, r) == IF Precedes(r, AsFloat(VInt(0))) THEN Precedes(r, v) ELSE Precedes(v, r)

\* The quotient and the remainder belong together: the remainder lies between
\* zero and the divisor, and they give the number back.  A division fails only
\* by zero, or where the quotient, or it times the divisor, leaves the word.
DivisionFits(l, r) ==
  LET Whole(q, m) ==
        /\ values_equal(Sum(Product(q, r), m), l)
        /\ IsZero(m) \/ (Between(m, r) /\ Precedes(m, VInt(0)) = Precedes(r, VInt(0)))
      Leaves(floor) == ~(InWord(floor) /\ InWord(floor * r[2]))
      Divided(q, m) ==
        IF ~IsNumber(l) \/ ~IsNumber(r) \/ VNaN \in {l, r} THEN q.ok => VNaN \in {l, r}
        ELSE IF q.ok /\ m.ok THEN Whole(q.value, m.value)
        ELSE \/ IsZero(r)
             \/ /\ Types(l, r) = <<"int", "int">>
                /\ Leaves(IF r[2] > 0 THEN l[2] \div r[2] ELSE (-l[2]) \div (-r[2]))
  IN Divided(floor_div_values(l, r), mod_values(l, r))

\* Sums and differences of integers are exact, or an error.  A shift to the left
\* has the low bits of the product: of the others it loses those that it moves
\* out, where docs/STONE_LANGUAGE.md:120 promises an error.
ExactSum(values) == FoldLeft(LAMBDA n, v : n + v[2], 0, values)
NothingWraps(l, r, values) ==
  LET Result(op) == apply_aug_op(op, l, r)
      Less(difference, negative) ==
        difference.ok /\ negative.ok => difference = add_values(l, negative.value)
      Shifted(result) ==
        result.ok => (result.value[2] - l[2] * 2 ^ r[2]) % 2 ^ WordBits = 0
      Differing(bits) ==
        /\ bitwise_int_values("^", bits, r).value = l
        /\ Sum(bitwise_int_values("&", l, r).value, bits) = bitwise_int_values("|", l, r).value
      Summed(total) == total.ok => total.value = VInt(ExactSum(values))
  IN /\ Types(l, r) = <<"int", "int">> =>
          /\ add_values(l, r) = InInt(l[2] + r[2])
          /\ Less(sub_values(l, r), neg_value(r))
          /\ Shifted(Result("<<"))
          /\ Differing(Result("^").value)
     /\ (\A i \in DOMAIN values : Type(values[i]) = "int") => Summed(sum_builtin(values))

\* A range is the numbers from start in steps, up to the stop.
RangeIsWhole(start, stop, step) ==
  LET numbers == eval_range_call(<<VInt(start), VInt(stop), VInt(step)>>)
  IN numbers.ok =>
       ToSet(numbers.value[2]) =
         {VInt(n) : n \in {m \in LowestInt .. HighestInt :
                             /\ (m - start) % Abs(step) = 0
                             /\ IF step > 0 THEN start <= m /\ m < stop ELSE stop < m /\ m <= start}}

\* What reads as an integer reads as the same float, and filling it with zeros
\* keeps it; rounding goes to a nearest number of one place.
NumbersRead(v, width) ==
  LET Near(error) == Abs(error[2]) * 20 <= error[3]
      Alike(n, f, total) ==
        /\ n.ok => f.ok /\ values_equal(n.value, f.value)
        /\ f.ok /\ total.ok => values_equal(total.value, f.value) \/ IsNaN(f.value)
      Filled(n, text) == int_builtin(VStr(text)) = n /\ Len(text) = Max({Len(v[2]), width})
      Read(n, f) ==
        /\ f.ok /\ ~IsNaN(f.value) => Near(sub_values(round_builtin(v, 1).value, f.value).value)
        /\ Type(v) = "str" =>
             /\ Alike(n, f, sum_builtin(<<v>>))
             /\ ParseInt(v[2]).ok =>
                  Filled(n, string_method_builtin(v, "zfill", <<VInt(width)>>).value[2])
  IN /\ Read(int_builtin(v), float_builtin(v))
     /\ parse_int_builtin(v, VInt(0)).ok /\ parse_float_builtin(v, VInt(0)).ok

\* The numbers in a value.
RECURSIVE NumbersIn(_)
NumbersIn(v) ==
  CASE IsNumber(v) -> {v}
    [] Type(v) = "list" -> UNION {NumbersIn(v[2][i]) : i \in DOMAIN v[2]}
    [] Type(v) = "rec" -> UNION {NumbersIn(v[2][i][2]) : i \in DOMAIN v[2]}
    [] OTHER -> {}

\* Whether a float is compared with an integer too wide to be one: two such
\* integers may equal one float and not each other.
TellsApart(values) ==
  LET numbers == UNION {NumbersIn(v) : v \in values}
  IN ~(\E n, f \in numbers : IsWide(n) /\ Type(f) = "float")

\* What comes before comes not after, and equality goes with the order.  Of what
\* floats tell apart the order is one, and so is equality; what has one identity
\* is equal, unless it does not even equal itself (NaN).
OrderIsOne(a, b, c) ==
  LET Reversed(ab, equal) ==
        /\ ab.ok => value_ordering(b, a) = Success(-ab.value) /\ equal = (ab.value = 0)
        /\ equal = values_equal(b, a)
        /\ TellsApart({a, b, c}) /\ equal /\ values_equal(b, c) => values_equal(a, c)
        /\ value_identity_key(a) = value_identity_key(b) => equal = values_equal(a, a)
      Chained(first, second) ==
        first.ok => eval_compare(a, <<"<=", "==">>, <<b, c>>)
                      = eval_bool_op("and", <<first.value, second.value>>)
  IN /\ TellsApart({a, b, c}) /\ Precedes(a, b) /\ Precedes(b, c) => Precedes(a, c)
     /\ Reversed(value_ordering(a, b), values_equal(a, b))
     /\ Chained(eval_compare(a, <<"<=">>, <<b>>), eval_compare(b, <<"==">>, <<c>>))

\* Sorting items that floats tell apart puts them in order and leaves equal ones
\* as they were; it fails for items of several kinds, and panics for lists alone.
\* What is unique is the first of each.
SortIsStable(values, reverse) ==
  LET Alike(items, v) == SelectSeq(items, LAMBDA w : value_ordering(w, v) = Success(0))
      Sorted(items) ==
        /\ \A v \in ToSet(values) : Alike(items, v) = Alike(values, v)
        /\ Len(items) = Len(values)
        /\ \A i, j \in DOMAIN items :
             i < j => ~Precedes(IF reverse THEN items[i] ELSE items[j],
                                IF reverse THEN items[j] ELSE items[i])
      Result(result) ==
        /\ result.ok => Sorted(result.value[2])
        /\ result = Panic => \A v \in ToSet(values) : Type(v) = "list"
        /\ result = Failure => \E v, w \in ToSet(values) : ~value_ordering(v, w).ok
      Unique(unique, keys) ==
        /\ IsInjective(keys)
        /\ ToSet(keys) = {value_identity_key(v) : v \in ToSet(values)}
        /\ unique_values(unique) = unique
        /\ Len(values) =
             FoldLeft(LAMBDA n, v : n + eval_count_method(VList(values), <<v>>).value[2], 0, unique)
      Keyed(unique) == Unique(unique, [i \in DOMAIN unique |-> value_identity_key(unique[i])])
      Best(name, best) ==
        best.ok => /\ best.value \in ToSet(values)
                   /\ \A v \in ToSet(values) :
                        ~Precedes(IF name = "min" THEN v ELSE best.value,
                                  IF name = "min" THEN best.value ELSE v)
  IN /\ Result(sort_builtin_values(values, OwnKeys(values), reverse))
     /\ Keyed(unique_values(values))
     /\ \A name \in {"min", "max"} : Best(name, min_max_builtin(values, name))

\* A condition and its opposite share out the rows that have the key, and a
\* function chooses what the condition chooses; the first and the last items
\* are the list; and sorting by a key sorts the keys.
RowsAreChosen(rows, key, expected) ==
  LET list == VList(rows)
      Having(row) == Type(row) = "rec" /\ Has(row[2], key[2])
      having == SelectSeq(rows, Having)
      Same(row) == VBool(Having(row) /\ values_equal(FieldOf(row[2], key[2]), expected))
      Shared(where) ==
        /\ where["<"].ok <=> where[">="].ok
        /\ \A pair \in {<<"==", "!=">>, <<"<", ">=">>} :
             where[pair[1]].ok =>
               Len(where[pair[1]].value[2]) + Len(where[pair[2]].value[2]) = Len(having)
        /\ \A same \in {VCallable([row \in ToSet(rows) |-> Success(Same(row))])} :
             /\ where["=="] = eval_filter_call(<<same, list>>)
             /\ where["=="] = eval_where_call(<<list, same>>)
      KeysOf(l) == eval_map_call(<<VCallable([row \in ToSet(rows) |->
                                   Success(FieldOf(row[2], key[2]))]), l>>).value
      Sorted(keys, sorted) ==
        sorted.ok = keys.ok /\ (sorted.ok => KeysOf(sorted.value) = keys.value)
  IN /\ Shared([op \in {"==", "!=", "<", ">="} |->
                  eval_where_call(<<list, key, VStr(op), expected>>)])
     /\ \A n \in 0 .. Len(rows) :
          Sum(eval_first_call(<<list, VInt(n)>>).value,
              eval_last_call(<<list, VInt(Len(rows) - n)>>).value) = list
     /\ having = rows => Sorted(eval_sort_call(<<KeysOf(list)>>, <<>>),
                                eval_sort_call(<<list>>, [k \in {"key"} |-> key]))

\* Cutting a text and joining the parts gives it back, with no more parts than
\* asked for, from either end; replacing is cutting and joining; white space
\* only parts words; a slice and the rest are the whole; and a text is found
\* where it begins, in bytes.
Parts(result) == [i \in DOMAIN result.value[2] |-> result.value[2][i][2]]
TextsAreCut(text, separator, limit) ==
  LET v == VStr(text)
      Words(s) == SelectSeq(s, LAMBDA c : c \notin Blank)
      Cut(method, args) == string_method_builtin(v, method, args)
      Whole(result) ==
        result.ok =>
          /\ limit >= 0 => Len(result.value[2]) <= limit + 1
          /\ IF separator = VNone THEN Words(Joined(Parts(result), <<>>)) = Words(text)
             ELSE join_builtin(separator, result.value) = Success(v)
      CutThere(front) == front.ok /\ Sum(front.value, eval_slice_call(<<v, VInt(limit)>>).value) = v
      Split(parts, x) ==
        /\ Cut("replace", <<separator, x>>).value = join_builtin(parts, x).value
        /\ Cut("count", <<separator>>).value[2] + 1 = Len(parts[2])
      Found(index, place, at) ==
        /\ index.ok = (place.value # VInt(-1)) /\ value_contains(v, separator) = Success(index.ok)
        /\ index.ok => index = place /\ index.value[2] = Bytes(Taken(text, Min(at) - 1))
  IN /\ \A method \in {"split", "rsplit"} : Whole(Cut(method, <<separator, VInt(limit)>>))
     /\ Cut("split", <<separator, VInt(limit)>>)
          = eval_split_call(<<v, separator>>, [k \in {"maxsplit"} |-> VInt(limit)])
     /\ CutThere(eval_slice_call(<<v, VNone, VInt(limit)>>))
     /\ Type(separator) = "str" /\ separator # VStr(<<>>) =>
          /\ Split(Cut("split", <<separator>>).value, VStr(<<"x">>))
          /\ Found(index_method_builtin(v, separator, <<>>), find_method_builtin(v, separator, <<>>),
                   Occurrences(text, separator[2]))

\* A template keeps its characters, and takes its arguments one by one or by
\* their numbers, never both; one by one it takes them all.
TemplateIsFilled(template, args) ==
  LET result == format_template(template, args)
      Kind(i) == template[i].kind
      autos == {i \in DOMAIN template : Kind(i) = "auto"}
  IN result.ok =>
       /\ Len(result.value) = Len(template)
       /\ \A i \in DOMAIN template :
            CASE Kind(i) = "char" -> result.value[i] = template[i]
              [] Kind(i) = "number" -> autos = {} /\ result.value[i].n = template[i].n
              [] Kind(i) = "auto" ->
                   result.value[i].n = Cardinality({j \in autos : j < i})
              [] OTHER -> FALSE
       /\ autos # {} => Cardinality(autos) = Len(args)

\* Where a path leads, whichever way its indices are written.
Places(v, indices) ==
  LET Step(at, index) ==
        LET place == PlaceOf(ReadPath(v, Taken(indices, Len(at))).value, index)
        IN Append(at, IF place.ok THEN <<place.value>> ELSE <<>>)
  IN FoldLeft(Step, <<>>, indices)

\* An assignment through a path changes what the path reads and nothing beside
\* it; one that fails changes nothing.
OnlyThatItem(env, name, indices, after, others) ==
  /\ \A n \in DOMAIN env \ {name} : after.env[n] = env[n]
  /\ ~after.ok => after.env = env
  /\ after.ok =>
       \A path \in {p \in others : Len(p) = Len(indices) /\ ReadPath(env[name], p).ok} :
         Places(env[name], path) # Places(env[name], indices) =>
           ReadPath(after.env[name], path) = ReadPath(env[name], path)
AssignedThere(env, name, indices, item, others) ==
  LET Holds(record, items) ==
        /\ value_contains(record, indices[1]).value
        /\ eval_record_helper_call("get", <<record>> \o indices).value = item
        /\ len_builtin(record) = Success(VInt(Len(items)))
        /\ eval_record_helper_call("keys", <<record>>).value[2] = [i \in DOMAIN items |-> items[i][2][1]]
      Assigned(after) ==
        /\ OnlyThatItem(env, name, indices, after, others)
        /\ after.ok => ReadPath(after.env[name], indices) = Success(item)
        /\ after.ok /\ Type(after.env[name]) = "rec" /\ Len(indices) = 1 =>
             Holds(after.env[name], eval_record_helper_call("items", <<after.env[name]>>).value[2])
      Added(after) ==
        /\ OnlyThatItem(env, name, indices, after, others)
        /\ after.ok => ReadPath(after.env[name], indices)
                         = add_values(ReadPath(env[name], indices).value, item)
      Changed(method, after) ==
        /\ OnlyThatItem(env, name, indices, after, others)
        /\ after.ok /\ method \in {"add", "sort"} =>
             mutable_list_method(after.env, name, indices, method, item) = after
  IN /\ Assigned(assign_value(env, name, indices, item))
     /\ Added(aug_assign(env, name, indices, "+", item))
     /\ \A method \in {"append", "add", "extend", "sort"} :
          Changed(method, mutable_list_method(env, name, indices, method, item))

\* Unpacking binds all the names or none; a comprehension that ends gives its
\* targets back what they had, and holds what the loops over its clauses do.
NamesComeBack(env, targets, v, elt, clauses) ==
  LET Kept(s) == s.ok => s.env = env
      Unpacked(s) == ~s.ok => s.env = env
      Called(list, is_any) == eval_any_all_call(<<VList(list.out)>>, is_any).value[2]
      Quantified(list, any, all) ==
        /\ Kept(any) /\ Kept(all)
        /\ list.ok => any.stop = Called(list, TRUE) /\ all.stop = ~Called(list, FALSE)
      Comprehends(list, dict) ==
        /\ Kept(list) /\ Kept(dict)
        /\ dict.ok = list.ok /\ (dict.ok => [i \in DOMAIN dict.out |-> dict.out[i][2]] = list.out)
        /\ Quantified(list, eval_generator_truthy(env, elt, clauses, TRUE),
                      eval_generator_truthy(env, elt, clauses, FALSE))
        /\ list.ok /\ Len(clauses) = 1 =>
             \A i \in DOMAIN list.out :
               elt = <<"name", clauses[1].targets[1]>> /\ Len(clauses[1].targets) = 1 =>
                 list.out[i] \in ToSet(value_to_iter_values(Operand(env, clauses[1].iter)).value)
  IN /\ Unpacked(assign_unpack_targets(env, targets, v))
     /\ Comprehends(eval_list_comprehension(env, elt, clauses),
                    eval_dict_comprehension(env, VStr(<<"x">>), elt, clauses))
=============================================================================
