-------------------------------- MODULE Text --------------------------------
(***************************************************************************)
(* What the file built-ins and the agent's file tools do to the bytes of a *)
(* file: bounded reads and their decoding, line ranges, search, edits,     *)
(* differences, wildcards and CSV.  Operators only; Files lets them act on *)
(* a workspace, and a model checks them over all short contents.           *)
(*                                                                         *)
(* A byte is a one-character string.  "L" and "T" stand for the two bytes  *)
(* of a character that takes two, "0" for NUL; every other string is a     *)
(* character of one byte.                                                  *)
(***************************************************************************)
EXTENDS Integers, Sequences, SequencesExt, FiniteSets

Newline == "\n"
Return == "\r"
Comma == ","
Quote == "\""

Failure == [ok |-> FALSE]                  \* a ShellError
Success(value) == [ok |-> TRUE, value |-> value]

Least(a, b) == IF a < b THEN a ELSE b
Taken(s, n) == SubSeq(s, 1, Least(n, Len(s)))
Without(s, n) == SubSeq(s, n + 1, Len(s))

-----------------------------------------------------------------------------
(* Decoding *)

\* The longest prefix that is UTF-8 (std::str::from_utf8 and its valid_up_to).
ValidUpTo(bytes) ==
  LET Bad(i) == \/ bytes[i] = "T" /\ (i = 1 \/ bytes[i - 1] # "L")
                \/ bytes[i] = "L" /\ (i = Len(bytes) \/ bytes[i + 1] # "T")
      bad == {i \in DOMAIN bytes : Bad(i)}
  IN IF bad = {} THEN Len(bytes) ELSE (CHOOSE i \in bad : \A j \in bad : i <= j) - 1

IsUtf8(bytes) == ValidUpTo(bytes) = Len(bytes)

\* A character that the end of the bytes cuts has no error_len.
CutByTheEnd(bytes) == Without(bytes, ValidUpTo(bytes)) = <<"L">>

\* A character cut by the limit is dropped, anything else is an error.
decode_bounded_text(bytes) ==
  IF IsUtf8(bytes) \/ CutByTheEnd(bytes)
  THEN Success(Taken(bytes, ValidUpTo(bytes))) ELSE Failure

\* read_text of a range, locally or through the Gateway.
read_text_range(bytes, offset, max_bytes) ==
  decode_bounded_text(Taken(Without(bytes, offset), max_bytes))

-----------------------------------------------------------------------------
(* Line ranges *)

\* str::split_inclusive, and BufRead::read_until.
SplitInclusive(text) ==
  LET Put(lines, ch) ==
        IF lines = <<>> \/ Last(Last(lines)) = Newline
        THEN Append(lines, <<ch>>)
        ELSE [lines EXCEPT ![Len(lines)] = Append(@, ch)]
  IN FoldLeft(Put, <<>>, text)

\* Lines count from 1; without an end_line the caller passes a number that no
\* line reaches.
slice_text_lines(text, start_line, end_line) ==
  IF start_line = 0 \/ end_line = 0 THEN Failure
  ELSE LET lines == SplitInclusive(text)
       IN Success(FlattenSeq(SubSeq(lines, start_line, Least(end_line, Len(lines)))))

\* The adapter of the local file system: line by line.
read_text_lines(bytes, start_line, end_line, max_bytes) ==
  LET Line(s, line) ==
        IF s.stop THEN s
        ELSE IF s.number < start_line THEN [s EXCEPT !.number = @ + 1]
        ELSE IF s.number > end_line THEN [s EXCEPT !.stop = TRUE]
        ELSE LET output == s.output \o Taken(line, max_bytes - Len(s.output))
             IN [output |-> output, number |-> s.number + 1,
                 stop |-> Len(output) >= max_bytes]
  IN decode_bounded_text(
       FoldLeft(Line, [output |-> <<>>, number |-> 1, stop |-> FALSE],
                SplitInclusive(bytes)).output)

\* The adapter of the Gateway: byte by byte, in chunks read one by one.
gateway_read_text_lines(bytes, start_line, end_line, max_bytes) ==
  LET Byte(s, byte) ==
        IF s.stop THEN s
        ELSE LET taken == /\ s.number >= start_line
                          /\ s.number <= end_line
                          /\ Len(s.output) < max_bytes
                 output == IF taken THEN Append(s.output, byte) ELSE s.output
                 number == s.number + (IF byte = Newline THEN 1 ELSE 0)
             IN [output |-> output, number |-> number,
                 stop |-> Len(output) >= max_bytes \/ number > end_line]
  IN decode_bounded_text(
       FoldLeft(Byte, [output |-> <<>>, number |-> 1, stop |-> FALSE], bytes).output)

-----------------------------------------------------------------------------
(* Search *)

\* Where needle occurs in s.
Occurrences(s, needle) ==
  {i \in 1 .. Len(s) - Len(needle) + 1 : SubSeq(s, i, i + Len(needle) - 1) = needle}

\* The lines of a file that memchr cuts: an empty one after a last newline too.
CutLines(bytes) ==
  LET Put(lines, ch) ==
        IF ch = Newline THEN Append(lines, <<>>)
        ELSE [lines EXCEPT ![Len(lines)] = Append(@, ch)]
  IN FoldLeft(Put, << <<>> >>, bytes)

trim_line_end(line) ==
  IF line # <<>> /\ Last(line) = Return THEN Front(line) ELSE line

\* A pattern is a text, at the start or the end of what is searched if it is
\* anchored ("^", "$"); a literal one has no anchors.
is_match(matcher, bytes) ==
  \E i \in Occurrences(bytes, matcher.text) :
    /\ matcher.start => i = 1
    /\ matcher.end => i + Len(matcher.text) - 1 = Len(bytes)

bytes_look_binary(bytes) == \E i \in DOMAIN bytes : bytes[i] = "0"

\* Faulty variant: leaves lines out without a word.
push_search_line_matches_silently(found, path, bytes, matcher, max_matches) ==
  LET lines == CutLines(bytes)
      hits == SelectSeq([n \in DOMAIN lines |-> n],
                        LAMBDA n : is_match(matcher, trim_line_end(lines[n])))
  IN [found EXCEPT !.matches =
        @ \o [i \in 1 .. Least(Len(hits), max_matches - Len(@)) |-> <<path, hits[i]>>]]

\* Adds the lines of one file that match, as <<path, line number>>, and notes
\* when the limit leaves one out.
push_search_line_matches_bytes(found, path, bytes, matcher, max_matches) ==
  LET lines == CutLines(bytes)
      Line(s, n) ==
        IF s.stop \/ ~is_match(matcher, trim_line_end(lines[n])) THEN s
        ELSE IF Len(s.matches) >= max_matches
             THEN [s EXCEPT !.truncated = TRUE, !.stop = TRUE]
             ELSE [s EXCEPT !.matches = Append(@, <<path, n>>)]
      end == FoldLeft(Line, [matches |-> found.matches, truncated |-> found.truncated,
                             stop |-> FALSE],
                      [n \in DOMAIN lines |-> n])
  IN [found EXCEPT !.matches = end.matches, !.truncated = end.truncated]

\* The search() built-in stops at its limit and does not say so.
push_stone_search_line_matches(matches, path, bytes, matcher, limit) ==
  LET lines == CutLines(bytes)
      Line(s, n) ==
        IF s.stop \/ ~is_match(matcher, trim_line_end(lines[n])) THEN s
        ELSE [matches |-> Append(s.matches, <<path, n>>),
              stop |-> Len(s.matches) + 1 >= limit]
  IN FoldLeft(Line, [matches |-> matches, stop |-> FALSE],
              [n \in DOMAIN lines |-> n]).matches

-----------------------------------------------------------------------------
(* Edits *)

\* Matches from left to right that do not overlap (str::matches, and the
\* places str::replace works at); limit is 1 for replacen(.., 1).
NextMatch(text, old, from) ==
  LET at == {i \in Occurrences(text, old) : i >= from}
  IN IF at = {} THEN 0 ELSE CHOOSE i \in at : \A j \in at : i <= j

matches(text, old) ==
  LET Count[from \in 1 .. Len(text) + 1] ==
        LET i == NextMatch(text, old, from)
        IN IF i = 0 THEN 0 ELSE 1 + Count[i + Len(old)]
  IN Count[1]

replace(text, old, new, limit) ==
  LET Rest[n \in 0 .. limit] ==
        [from \in 1 .. Len(text) + 1 |->
           LET i == NextMatch(text, old, from)
           IN IF n = 0 \/ i = 0 THEN Without(text, from - 1)
              ELSE SubSeq(text, from, i - 1) \o new \o Rest[n - 1][i + Len(old)]]
  IN Rest[limit][1]

-----------------------------------------------------------------------------
(* Wildcards *)

\* "?" is any character, "*" any string: the loop with its one place to go
\* back to, the last star seen (0 when there is none).
wildcard_match(pattern, text) ==
  LET Loop[p \in 1 .. Len(pattern) + 1, t \in 1 .. Len(text) + 1,
           star \in 0 .. Len(pattern), starText \in 1 .. Len(text) + 1] ==
        IF t > Len(text) THEN \A i \in p .. Len(pattern) : pattern[i] = "*"
        ELSE IF p <= Len(pattern) /\ pattern[p] \in {"?", text[t]}
             THEN Loop[p + 1, t + 1, star, starText]
        ELSE IF p <= Len(pattern) /\ pattern[p] = "*"
             THEN Loop[p + 1, t, p, t]
        ELSE IF star # 0
             THEN Loop[star + 1, starText + 1, star, starText + 1]
        ELSE FALSE
  IN Loop[1, 1, 0, 1]

find_name_matches(name, contains, glob) ==
  /\ contains.given => Occurrences(name, contains.value) # {}
  /\ glob.given => wildcard_match(glob.value, name)

-----------------------------------------------------------------------------
(* Differences *)

\* str::lines: without the line ends.
TextLines(text) ==
  LET Bare(line) == IF Last(line) = Newline THEN trim_line_end(Front(line)) ELSE line
  IN [i \in DOMAIN SplitInclusive(text) |-> Bare(SplitInclusive(text)[i])]

\* A longest common subsequence decides between deleting and inserting; an
\* operation is <<kind, line>>.
stone_diff_ops(left, right) ==
  LET lcs[i \in 1 .. Len(left) + 1, j \in 1 .. Len(right) + 1] ==
        IF i > Len(left) \/ j > Len(right) THEN 0
        ELSE IF left[i] = right[j] THEN lcs[i + 1, j + 1] + 1
        ELSE IF lcs[i + 1, j] >= lcs[i, j + 1] THEN lcs[i + 1, j] ELSE lcs[i, j + 1]
      ops[i \in 1 .. Len(left) + 1, j \in 1 .. Len(right) + 1] ==
        IF i > Len(left)
        THEN [n \in 1 .. Len(right) - j + 1 |-> <<"insert", right[j + n - 1]>>]
        ELSE IF j > Len(right)
             THEN [n \in 1 .. Len(left) - i + 1 |-> <<"delete", left[i + n - 1]>>]
        ELSE IF left[i] = right[j]
             THEN << <<"equal", left[i]>> >> \o ops[i + 1, j + 1]
        ELSE IF lcs[i + 1, j] >= lcs[i, j + 1]
             THEN << <<"delete", left[i]>> >> \o ops[i + 1, j]
             ELSE << <<"insert", right[j]>> >> \o ops[i, j + 1]
  IN ops[1, 1]

\* Faulty variant: counts both sides by the new text.
NewHunkByNew(old_line, new_line) ==
  [old_start |-> new_line, new_start |-> new_line, old_lines |-> 0, new_lines |-> 0,
   lines |-> <<>>]

NewHunk(old_line, new_line) ==
  [old_start |-> old_line, new_start |-> new_line, old_lines |-> 0, new_lines |-> 0,
   lines |-> <<>>]

\* A hunk collects changes up to the next line that stayed.
stone_diff_record(left, right) ==
  LET Op(s, op) ==
        CASE op[1] = "equal" ->
               [s EXCEPT !.hunks = IF s.current.lines = <<>> THEN @
                                   ELSE Append(@, s.current),
                         !.old_line = @ + 1, !.new_line = @ + 1,
                         !.current = NewHunk(s.old_line + 1, s.new_line + 1)]
          [] op[1] = "delete" ->
               [s EXCEPT !.current.old_lines = @ + 1,
                         !.current.lines = Append(@, [kind |-> "-", text |-> op[2],
                                                      line |-> s.old_line]),
                         !.old_line = @ + 1]
          [] op[1] = "insert" ->
               [s EXCEPT !.current.new_lines = @ + 1,
                         !.current.lines = Append(@, [kind |-> "+", text |-> op[2],
                                                      line |-> s.new_line]),
                         !.new_line = @ + 1]
      end == FoldLeft(Op, [hunks |-> <<>>, current |-> NewHunk(1, 1),
                           old_line |-> 1, new_line |-> 1],
                      stone_diff_ops(left, right))
  IN IF end.current.lines = <<>> THEN end.hunks ELSE Append(end.hunks, end.current)

-----------------------------------------------------------------------------
(* CSV *)

\* A field with a character of the syntax is quoted, its quotes doubled.
write_csv_field(field) ==
  IF \E i \in DOMAIN field : field[i] \in {Comma, Quote, Newline, Return}
  THEN <<Quote>>
       \o FlattenSeq([i \in DOMAIN field |->
            IF field[i] = Quote THEN <<Quote, Quote>> ELSE <<field[i]>>])
       \o <<Quote>>
  ELSE field

write_csv_line(fields) ==
  FlattenSeq([i \in DOMAIN fields |->
    (IF i = 1 THEN <<>> ELSE <<Comma>>) \o write_csv_field(fields[i])])
  \o <<Newline>>

\* The columns in the order they first appear, when none are given.
infer_csv_columns(rows) ==
  FoldLeft(LAMBDA columns, row :
             columns \o SelectSeq(row.keys, LAMBDA key : ~Contains(columns, key)),
           <<>>, rows)

\* A row is its keys in order and a text for each; an absent one is empty.
csv_text_from_rows(rows, columns) ==
  write_csv_line(columns)
  \o FlattenSeq([n \in DOMAIN rows |->
       write_csv_line([i \in DOMAIN columns |->
         IF Contains(rows[n].keys, columns[i]) THEN rows[n].field[columns[i]]
         ELSE <<>>])])

\* One character, or two when they belong together, moves the scanner on.
parse_csv_record_fields(text) ==
  LET EndField(s) == [s EXCEPT !.record = Append(@, s.field), !.field = <<>>]
      EndRecord(s) == [s EXCEPT !.records = Append(@, EndField(s).record),
                                !.record = <<>>, !.field = <<>>]
      Char(s, i) ==
        LET ch == text[i]
            next == IF i < Len(text) THEN text[i + 1] ELSE "end"
        IN IF s.skip THEN [s EXCEPT !.skip = FALSE]
           ELSE IF ch = Quote
           THEN IF s.in_quotes /\ next = Quote
                THEN [s EXCEPT !.field = Append(@, Quote), !.skip = TRUE]
                ELSE [s EXCEPT !.in_quotes = ~@]
           ELSE IF s.in_quotes \/ ch \notin {Comma, Newline, Return}
           THEN [s EXCEPT !.field = Append(@, ch)]
           ELSE IF ch = Comma THEN EndField(s)
           ELSE [EndRecord(s) EXCEPT !.skip = ch = Return /\ next = Newline]
      end == FoldLeft(Char, [records |-> <<>>, record |-> <<>>, field |-> <<>>,
                             in_quotes |-> FALSE, skip |-> FALSE],
                      [i \in DOMAIN text |-> i])
  IN IF end.in_quotes THEN Failure
     ELSE Success(IF end.field # <<>> \/ end.record # <<>>
                  THEN EndRecord(end).records ELSE end.records)

\* The first record names the fields.  A record of one empty field is taken
\* for a blank line; a limit is reached before the next record is judged.
parse_csv_records(text, limit) ==
  LET parsed == parse_csv_record_fields(text)
      headers == Head(parsed.value)
      Record(s, fields) ==
        CASE s.failed \/ Len(s.rows) >= limit -> s
          [] ~(s.failed \/ Len(s.rows) >= limit) /\ fields = << <<>> >> -> s
          [] OTHER -> IF Len(fields) # Len(headers) THEN [s EXCEPT !.failed = TRUE]
                      ELSE [s EXCEPT !.rows = Append(@, fields)]
  IN IF ~parsed.ok THEN Failure
     ELSE IF parsed.value = <<>> THEN Success([headers |-> <<>>, rows |-> <<>>])
     ELSE LET end == FoldLeft(Record, [rows |-> <<>>, failed |-> FALSE],
                              Tail(parsed.value))
          IN IF end.failed THEN Failure
             ELSE Success([headers |-> headers, rows |-> end.rows])

-----------------------------------------------------------------------------
(* What these functions promise *)

\* Both adapters read a range of lines as slice_text_lines cuts it from the
\* whole, a line beyond the last being empty.
LinesRead(bytes, start_line, end_line, max_bytes) ==
  LET range == IF start_line > Len(SplitInclusive(bytes)) THEN <<>>
               ELSE slice_text_lines(bytes, start_line, end_line).value
      expected == decode_bounded_text(Taken(range, max_bytes))
  IN /\ read_text_lines(bytes, start_line, end_line, max_bytes) = expected
     /\ gateway_read_text_lines(bytes, start_line, end_line, max_bytes) = expected

\* The text that the hunks of a difference make of the lines of left.
Patched(left, hunks) ==
  LET Added(hunk) == SelectSeq(hunk.lines, LAMBDA line : line.kind = "+")
      Hunk(s, hunk) ==
        [from |-> hunk.old_start + hunk.old_lines,
         out |-> s.out \o SubSeq(left, s.from, Least(hunk.old_start - 1, Len(left)))
                 \o [i \in 1 .. hunk.new_lines |-> Added(hunk)[i].text]]
      end == FoldLeft(Hunk, [from |-> 1, out |-> <<>>], hunks)
  IN end.out \o Without(left, end.from - 1)

\* The hunks turn left into right, there are none for equal texts, and each
\* line of theirs is where it says.
HunksRebuild(left, right) ==
  LET hunks == stone_diff_record(left, right)
  IN /\ Patched(left, hunks) = right
     /\ (hunks = <<>>) <=> (left = right)
     /\ \A k \in DOMAIN hunks :
          /\ Len(hunks[k].lines) = hunks[k].old_lines + hunks[k].new_lines
          /\ \A i \in DOMAIN hunks[k].lines :
               LET line == hunks[k].lines[i]
               IN line.text = IF line.kind = "-" THEN left[line.line] ELSE right[line.line]

\* Whether text can be cut into what the parts of pattern stand for.
FitsPattern(pattern, text) ==
  LET Fit[i \in 1 .. Len(pattern) + 1, j \in 1 .. Len(text) + 1] ==
        IF i > Len(pattern) THEN j > Len(text)
        ELSE IF pattern[i] = "*" THEN \E k \in j .. Len(text) + 1 : Fit[i + 1, k]
        ELSE j <= Len(text) /\ pattern[i] \in {"?", text[j]} /\ Fit[i + 1, j + 1]
  IN Fit[1, 1]

\* A table of texts that is written is read back, but for rows of one empty
\* field; columns are called "x", "xx" and so on.
TableSurvives(table) ==
  LET columns == [i \in DOMAIN Head(table) |-> [n \in 1 .. i |-> "x"]]
      Record(fields) == [keys |-> columns,
                         field |-> [c \in ToSet(columns) |-> fields[Len(c)]]]
      rows == [n \in DOMAIN table |-> Record(table[n])]
      read == parse_csv_records(csv_text_from_rows(rows, infer_csv_columns(rows)),
                                Len(table))
  IN read = Success([headers |-> columns,
                     rows |-> SelectSeq(table, LAMBDA fields : fields # << <<>> >>)])
=============================================================================
