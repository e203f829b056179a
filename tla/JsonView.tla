------------------------------ MODULE JsonView ------------------------------
(***************************************************************************)
(* Rows of JSON Lines that are read without being parsed                   *)
(* (stone_json_view.rs).  A row is a range of bytes; `row["key"]`, `get`,  *)
(* loops over a list of the row and the JSONL kernel scan those bytes for  *)
(* the field and parse no more than that value.  Printing or storing the   *)
(* row parses all of it with serde_json.  The two readings must agree.     *)
(*                                                                         *)
(* Bytes: the punctuation of JSON, blanks, a letter, a digit, "T" for the  *)
(* literal true, and "u", which behind a backslash is an escape of the     *)
(* letter (\u0061).  Escaped quotes and backslashes are those of JSON; any *)
(* other escape is none.  A number is a sequence of digits.  An object that *)
(* is parsed has every key once; the order of its keys is left out.        *)
(***************************************************************************)
EXTENDS Integers, Sequences, SequencesExt, FiniteSetsExt

JsonSpace == {" ", "\n"}
Quote == "\""
Backslash == "\\"
Digits == {"1", "2"}

Bad == <<"error", 0>>
Is(v, type) == v[1] = type
Text(bytes, range) == SubSeq(bytes, range[1], range[2] - 1)
At(bytes, i) == IF i \in DOMAIN bytes THEN bytes[i] ELSE "end"
skip_json_ws(bytes, i) == Min({j \in i .. Len(bytes) : bytes[j] \notin JsonSpace} \cup
                              {IF i > Len(bytes) THEN i ELSE Len(bytes) + 1})
trim_json_bytes(bytes) ==
    LET solid == {i \in DOMAIN bytes : bytes[i] \notin JsonSpace}
    IN  IF solid = {} THEN <<>> ELSE SubSeq(bytes, Min(solid), Max(solid))

-----------------------------------------------------------------------------
(* serde_json::from_slice: one value and nothing but blanks around it.     *)

\* What an escaped string stands for, or Bad.
Unescaped(raw) ==
    LET Step(read, c) ==
          CASE read = Bad -> Bad
            [] read[1] = "escape" ->
                  IF c \in {Quote, Backslash, "u"}
                  THEN <<"text", Append(read[2], IF c = "u" THEN "a" ELSE c)>>
                  ELSE Bad
            [] c = Backslash -> <<"escape", read[2]>>
            [] c \in {Quote, "\n"} -> Bad
            [] OTHER -> <<"text", Append(read[2], c)>>
        end == FoldLeft(Step, <<"text", <<>>>>, raw)
    IN  IF Is(end, "text") THEN <<"str", end[2]>> ELSE Bad

\* A quote closes a string unless an odd number of backslashes is before it.
Closing(bytes, open) ==
    LET Escaped(i) == LET run == {k \in open .. i - 1 : \A j \in k + 1 .. i - 1 : bytes[j] = Backslash}
                      IN  (i - 1 - Min(run)) % 2 = 1
        ends == {i \in open + 1 .. Len(bytes) : bytes[i] = Quote /\ ~Escaped(i)}
    IN  IF ends = {} THEN 0 ELSE Min(ends)

\* A value read at i: [value, next], next being 0 where there is none.
Nothing == [value |-> Bad, next |-> 0]
RECURSIVE ReadValue(_, _), ReadItems(_, _, _)
ReadString(bytes, i) ==
    LET Until(close, text) == IF close = 0 \/ text = Bad THEN Nothing
                              ELSE [value |-> text, next |-> close + 1]
        Closed(close) == Until(close, Unescaped(SubSeq(bytes, i + 1, close - 1)))
    IN  Closed(Closing(bytes, i))
ReadNumber(bytes, i) ==
    LET end == Min({j \in i .. Len(bytes) : bytes[j] \notin Digits} \cup {Len(bytes) + 1})
    IN  [value |-> <<"num", SubSeq(bytes, i, end - 1)>>, next |-> end]
\* The next item of a list, or the next field of an object.
ReadField(key, item) == IF item.next = 0 THEN Nothing
                        ELSE [value |-> <<key, item.value>>, next |-> item.next]
ReadNamed(bytes, key, colon) ==
    IF key.next = 0 \/ At(bytes, colon) # ":" THEN Nothing
    ELSE ReadField(key.value[2], ReadValue(bytes, skip_json_ws(bytes, colon + 1)))
ReadKeyed(bytes, key) == ReadNamed(bytes, key, skip_json_ws(bytes, key.next))
ReadItem(bytes, i, end) ==
    CASE end = "]" -> ReadValue(bytes, i)
      [] At(bytes, i) = Quote /\ end # "]" -> ReadKeyed(bytes, ReadString(bytes, i))
      [] OTHER -> Nothing
\* Items as far as the bracket, given the first of them and where it ends.
ReadOn(item, rest) == IF rest.next = 0 THEN Nothing
                      ELSE [value |-> <<item>> \o rest.value, next |-> rest.next]
ReadBehind(bytes, item, at, end) ==
    CASE item.next = 0 -> Nothing
      [] At(bytes, at) = end -> [value |-> <<item.value>>, next |-> at + 1]
      [] At(bytes, at) = "," ->
            ReadOn(item.value, ReadItems(bytes, skip_json_ws(bytes, at + 1), end))
      [] OTHER -> Nothing
ReadFirst(bytes, item, end) == ReadBehind(bytes, item, skip_json_ws(bytes, item.next), end)
ReadItems(bytes, i, end) == ReadFirst(bytes, ReadItem(bytes, i, end), end)
\* serde_json::Value keeps the last of the fields of one name.
LastOfEach(fields) ==
    LET kept == {i \in DOMAIN fields : \A j \in i + 1 .. Len(fields) : fields[j][1] # fields[i][1]}
        Among(places) == [n \in DOMAIN places |-> fields[places[n]]]
    IN  Among(SetToSortSeq(kept, <))
ReadWhole(items, end, type) ==
    IF items.next = 0 THEN Nothing
    ELSE [value |-> <<type, IF end = "}" THEN LastOfEach(items.value) ELSE items.value>>,
          next |-> items.next]
ReadFrom(bytes, first, end, type) ==
    IF At(bytes, first) = end THEN [value |-> <<type, <<>>>>, next |-> first + 1]
    ELSE ReadWhole(ReadItems(bytes, first, end), end, type)
ReadMany(bytes, i, end, type) == ReadFrom(bytes, skip_json_ws(bytes, i + 1), end, type)
ReadValue(bytes, i) ==
    CASE At(bytes, i) = Quote -> ReadString(bytes, i)
      [] At(bytes, i) = "[" -> ReadMany(bytes, i, "]", "list")
      [] At(bytes, i) = "{" -> ReadMany(bytes, i, "}", "obj")
      [] At(bytes, i) \in Digits -> ReadNumber(bytes, i)
      [] At(bytes, i) = "T" -> [value |-> <<"bool", TRUE>>, next |-> i + 1]
      [] OTHER -> Nothing

from_slice(bytes) ==
    LET Whole(read) == IF read.next # 0 /\ skip_json_ws(bytes, read.next) > Len(bytes)
                       THEN read.value ELSE Bad
    IN  Whole(ReadValue(bytes, skip_json_ws(bytes, 1)))

-----------------------------------------------------------------------------
(* Scanning: ranges <<first, behind>> of the bytes, 0 where a scan fails.  *)

\* A backslash takes the next byte with it, whatever that is.
json_string_end(bytes, quote) ==
    LET Step(state, i) == CASE state[1] = "found" -> state
                            [] state[1] = "skip" -> <<"text", 0>>
                            [] bytes[i] = Backslash -> <<"skip", 0>>
                            [] bytes[i] = Quote -> <<"found", i>>
                            [] OTHER -> state
        end == FoldLeft(Step, <<"text", 0>>, [k \in 1 .. Len(bytes) - quote |-> quote + k])
    IN  IF end[1] = "found" THEN end[2] ELSE 0

\* The end of a value: a comma or a bracket outside of strings and of brackets,
\* or the end of the bytes; nothing is said of what is between.
Closes(byte, depth) == byte \in {"}", "]"} \/ (byte = "," /\ depth = 0)
RECURSIVE ValueEnd(_, _, _)
ValueEnd(bytes, i, depth) ==
    CASE i > Len(bytes) -> i
      [] bytes[i] = Quote ->
            LET Behind(end) == IF end = 0 THEN 0 ELSE ValueEnd(bytes, end + 1, depth)
            IN  Behind(json_string_end(bytes, i))
      [] bytes[i] \in {"{", "["} -> ValueEnd(bytes, i + 1, depth + 1)
      [] bytes[i] # Quote /\ Closes(bytes[i], depth) ->
            IF depth > 0 /\ bytes[i] # "," THEN ValueEnd(bytes, i + 1, depth - 1) ELSE i
      [] OTHER -> ValueEnd(bytes, i + 1, depth)
json_value_end(bytes, start) == ValueEnd(bytes, start, 0)

\* Rest(bytes, i, ...) reads items from i until the bracket that ends them.
Fields(pairs, end) == [ok |-> TRUE, ranges |-> pairs, at |-> end]
Broken(pairs) == [ok |-> FALSE, ranges |-> pairs, at |-> 0]

RECURSIVE Elements(_, _, _)
Elements(bytes, i, found) ==
    LET Behind(more, at) ==
          CASE At(bytes, at) = "," -> Elements(bytes, at + 1, more)
            [] At(bytes, at) = "]" -> Fields(more, at)
            [] OTHER -> Broken(more)
        Between(start, end) ==
          IF end = 0 THEN Broken(found)
          ELSE Behind(Append(found, <<start, end>>), skip_json_ws(bytes, end))
        From(start) == IF At(bytes, start) = "]" THEN Fields(found, start)
                       ELSE Between(start, json_value_end(bytes, start))
    IN  From(skip_json_ws(bytes, i))
json_array_view_element_ranges(bytes) ==
    LET open == skip_json_ws(bytes, 1)
    IN  IF At(bytes, open) = "[" THEN Elements(bytes, open + 1, <<>>) ELSE Broken(<<>>)

json_key_matches(raw, key) ==
    IF Contains(raw, Backslash) THEN Unescaped(raw) = <<"str", key>> ELSE raw = key

\* A member begins with a key, which is followed by a colon, a value, and a comma or
\* the end.
RECURSIVE Members(_, _, _)
MemberBehind(bytes, at, more) ==
    CASE At(bytes, at) = "," -> Members(bytes, at + 1, more)
      [] At(bytes, at) = "}" -> Fields(more, at)
      [] OTHER -> Broken(more)
MemberOf(bytes, key, start, end, found) ==
    IF end = 0 THEN Broken(found)
    ELSE MemberBehind(bytes, skip_json_ws(bytes, end), Append(found, <<key, <<start, end>>>>))
MemberValue(bytes, key, start, found) ==
    MemberOf(bytes, key, start, json_value_end(bytes, start), found)
MemberNamed(bytes, key, colon, found) ==
    IF At(bytes, colon) # ":" THEN Broken(found)
    ELSE MemberValue(bytes, key, skip_json_ws(bytes, colon + 1), found)
MemberQuoted(bytes, quote, close, found) ==
    IF close = 0 THEN Broken(found)
    ELSE MemberNamed(bytes, SubSeq(bytes, quote + 1, close - 1),
                     skip_json_ws(bytes, close + 1), found)
MemberFrom(bytes, quote, found) ==
    CASE At(bytes, quote) = "}" -> Fields(found, quote)
      [] At(bytes, quote) = Quote ->
            MemberQuoted(bytes, quote, json_string_end(bytes, quote), found)
      [] OTHER -> Broken(found)
Members(bytes, i, found) == MemberFrom(bytes, skip_json_ws(bytes, i), found)
json_object_for_each_field(bytes) ==
    LET open == skip_json_ws(bytes, 1)
    IN  IF At(bytes, open) = "{" THEN Members(bytes, open + 1, <<>>) ELSE Broken(<<>>)

\* The first field of that name: what is behind it is not looked at, and a field
\* that is missing is known to be missing only in a row that can be scanned.
find_top_level_json_field(bytes, key) ==
    LET First(named, ok) == CASE named # <<>> -> <<"found", named[1][2]>>
                              [] ok -> <<"none", 0>>
                              [] OTHER -> Bad
        Among(fields) == First(SelectSeq(fields.ranges,
                                         LAMBDA field : json_key_matches(field[1], key)), fields.ok)
    IN  Among(json_object_for_each_field(bytes))

-----------------------------------------------------------------------------
(* Views: a value that is still bytes, with its type, or one that is parsed. *)

Starts(bytes, set) == bytes # <<>> /\ Head(bytes) \in set
\* A field of a row: json_object_view_get.
ViewOf(bytes, lazy) ==
    LET Trimmed(value) ==
          CASE Starts(value, {"["}) -> <<"array", bytes>>
            [] Starts(value, {"{"} \cap lazy) -> <<"object", bytes>>
            [] Starts(value, Digits \cup ({Quote} \cap lazy)) -> <<"scalar", bytes>>
            [] OTHER -> <<"nu", from_slice(value)>>
    IN  Trimmed(trim_json_bytes(bytes))
json_object_view_get(bytes, key) ==
    LET Of(field) == IF Is(field, "found") THEN ViewOf(Text(bytes, field[2]), {"{"}) ELSE field
    IN  Of(find_top_level_json_field(bytes, key))
\* An element of a list: an object is parsed, a string is not.
json_array_view_iter_values(bytes) ==
    LET Each(ranges) == [i \in DOMAIN ranges |-> ViewOf(Text(bytes, ranges[i]), {Quote})]
    IN  Each(json_array_view_element_ranges(bytes).ranges)

\* into_nu_value: what a view is when all of it is parsed.
Materialized(view) == IF Is(view, "nu") THEN view[2] ELSE from_slice(view[2])

json_string_bytes_to_string(bytes) ==
    LET Trimmed(text) ==
          CASE Len(text) < 2 \/ Head(text) # Quote \/ Last(text) # Quote -> Bad
            [] Contains(text, Backslash) -> from_slice(text)
            [] OTHER -> <<"str", SubSeq(text, 2, Len(text) - 1)>>
    IN  Trimmed(trim_json_bytes(bytes))
ParsedNumber(bytes) ==
    LET Trimmed(text) == IF text # <<>> /\ ToSet(text) \subseteq Digits THEN <<"num", text>> ELSE Bad
    IN  Trimmed(trim_json_bytes(bytes))

\* The kernel's typed reads with a default.
WithDefault(bytes, key, Typed(_), default) ==
    LET Of(field) == CASE Is(field, "found") -> Typed(Text(bytes, field[2]))
                       [] Is(field, "none") -> default
                       [] OTHER -> Bad
    IN  Of(find_top_level_json_field(bytes, key))
json_object_view_get_string_default(bytes, key, default) ==
    WithDefault(bytes, key, json_string_bytes_to_string, default)
json_object_view_get_i64_default(bytes, key, default) ==
    WithDefault(bytes, key, ParsedNumber, default)
json_object_view_get_array_default(bytes, key) ==
    WithDefault(bytes, key,
                LAMBDA v : IF Starts(trim_json_bytes(v), {"["}) THEN <<"array", v>> ELSE Bad,
                <<"nu", <<"list", <<>>>>>>)

\* A list by an index, a negative one from its end; the row's method get.
json_array_view_subscript(bytes, index) ==
    LET Item(values, i) == IF i \in 0 .. Len(values) - 1 THEN values[i + 1] ELSE Bad
        Of(values) == IF \E j \in DOMAIN values : values[j] = <<"nu", Bad>> THEN Bad
                      ELSE Item(values, IF index < 0 THEN index + Len(values) ELSE index)
    IN  IF json_array_view_element_ranges(bytes).ok THEN Of(json_array_view_iter_values(bytes))
        ELSE Bad
eval_json_object_view_get(bytes, key, default) ==
    LET Of(view) == IF view = <<"none", 0>> THEN <<"nu", default>> ELSE view
    IN  Of(json_object_view_get(bytes, key))

\* jsonl_rows_from_bytes: the lines that are not blank, trimmed and numbered, until
\* there are limit of them.
RECURSIVE RowsFrom(_, _, _, _, _)
RowsFrom(bytes, start, number, limit, rows) ==
    LET end == Min({i \in start .. Len(bytes) : bytes[i] = "\n"} \cup {Len(bytes) + 1})
        line == trim_json_bytes(SubSeq(bytes, start, end - 1))
        more == IF line = <<>> \/ Len(rows) >= limit THEN rows
                ELSE Append(rows, [line |-> line, number |-> number])
    IN  IF Len(more) >= limit \/ end >= Len(bytes) THEN more
        ELSE RowsFrom(bytes, end + 1, number + 1, limit, more)
jsonl_rows_from_bytes(bytes, limit) == RowsFrom(bytes, 1, 1, limit, <<>>)

-----------------------------------------------------------------------------
(* Laws *)

JDefault == <<"str", <<"d">>>>

\* All fields that a row has in its bytes, and the values of those of one name.
FieldsOf(bytes) ==
    LET open == skip_json_ws(bytes, 1)
        From(first) == IF At(bytes, first) = "}" THEN <<>> ELSE ReadItems(bytes, first, "}").value
    IN  From(skip_json_ws(bytes, open + 1))
ValuesOf(fields, key) ==
    LET named == SelectSeq(fields, LAMBDA field : field[1] = key)
    IN  [i \in DOMAIN named |-> named[i][2]]

\* A list is read item by item, and by index.
ItemsReadAlike(list, items, value) ==
    /\ [i \in DOMAIN items |-> Materialized(items[i])] = value
    /\ \A i \in DOMAIN items : json_array_view_subscript(list, i - 1 - Len(items)) = items[i]
ListReadsAlike(list, value) == ItemsReadAlike(list, json_array_view_iter_values(list), value)

\* A field is a value of the parsed row, or Bad, and a view of its bytes.
FieldReadsAlike(bytes, key, value, view) ==
    /\ json_object_view_get_string_default(bytes, key, JDefault)
          = (CASE Is(value, "str") -> value [] value = Bad -> JDefault [] OTHER -> Bad)
    /\ IF value = Bad
       THEN /\ view = <<"none", 0>>
            /\ eval_json_object_view_get(bytes, key, JDefault) = <<"nu", JDefault>>
       ELSE /\ Materialized(view) = value
            /\ json_object_view_get_i64_default(bytes, key, JDefault)
                 = (IF Is(value, "num") THEN value ELSE Bad)
            /\ Is(value, "list") =>
                 ListReadsAlike(json_object_view_get_array_default(bytes, key)[2], value[2])

\* The name's values in the row as it is scanned, and those that the parsed row kept.
NameReadsAlike(text, key, values, kept) ==
    /\ FieldReadsAlike(text, key, IF values = <<>> THEN Bad ELSE Head(values),
                       json_object_view_get(text, key))
    /\ Len(values) <= 1 => kept = values
    /\ values # <<>> => kept = <<Last(values)>>
FieldsReadAlike(text, row, pairs, scan, keys) ==
    /\ scan.ok /\ Len(scan.ranges) = Len(pairs)
    /\ \A key \in keys : NameReadsAlike(text, key, ValuesOf(pairs, key), ValuesOf(row[2], key))

\* In a row that parses, a field whose name is not repeated is read as the parsed
\* row has it - as a view, by its type and by default, its lists item by item, and an
\* object in it the same way again.  Where a name is repeated the readings differ: a
\* scan stops at the first field of that name, and the parsed row has the last one.
RowReadsAlike(bytes, keys) ==
    \A text \in {bytes} \cup {v[2] : v \in {w \in {json_object_view_get(bytes, key) : key \in keys} :
                                              Is(w, "object")}} :
      \A row \in {from_slice(text)} :
        Is(row, "obj") =>
          FieldsReadAlike(text, row, FieldsOf(text), json_object_for_each_field(text), keys)

\* Rows are lines: those of a whole file, in order, without blank ones.
RowsAreLines(bytes, limit) ==
    LET ends == {i \in DOMAIN bytes : bytes[i] = "\n"} \cup {0, Len(bytes) + 1}
        starts == SetToSortSeq(ends \ {Len(bytes) + 1}, <)
        lines == [n \in DOMAIN starts |->
                    [line |-> trim_json_bytes(SubSeq(bytes, starts[n] + 1,
                                Min({e \in ends : e > starts[n]}) - 1)),
                     number |-> n]]
        solid == SelectSeq(lines, LAMBDA l : l.line # <<>>)
    IN  jsonl_rows_from_bytes(bytes, limit) = SubSeq(solid, 1, Min({limit, Len(solid)}))
=============================================================================
