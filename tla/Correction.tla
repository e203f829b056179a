----------------------------- MODULE Correction -----------------------------
(***************************************************************************)
(* Corrections that are suggested for a failed program                     *)
(* (stone_correction.rs).  From an error and the program's text            *)
(* correction_for_error makes a record: what was received, what was        *)
(* expected, and up to three names close to the one received, each with an *)
(* edit if that name is used just once.  Nothing is edited then;           *)
(* apply_correction edits later, when the program or the model asks for it *)
(* with a text and a record, which both may have changed by then.          *)
(*                                                                         *)
(* A text is a sequence of bytes; "def " is one of them.  An error is what *)
(* its message tells: its class, what was received and, perhaps, expected. *)
(* The digest of a text is the text.  The refusal of a record is None.     *)
(***************************************************************************)
EXTENDS Integers, Sequences, SequencesExt, FiniteSetsExt

CONSTANTS
    Letter, Digit,        \* bytes of identifiers; letters may be first
    Space, Line,          \* ASCII whitespace, line ends among it
    Tail2,                \* bytes that continue a character
    CharRank,             \* order of the bytes of identifiers
    Callable,             \* STONE_BUILTIN_NAMES and the record helpers
    MaxCandidates, MaxExpected, MaxSourceBytes, MaxNameBytes,
    ShortName, MediumName \* lengths up to which a name may be off by 1, and by 2

None == [kind |-> "none"]

-----------------------------------------------------------------------------
(* Names *)

is_identifier_byte(c) == c \in Letter \cup Digit
is_identifier(word) == /\ word # <<>> /\ word[1] \in Letter
                       /\ \A i \in DOMAIN word : is_identifier_byte(word[i])

\* The order of strings.
Precedes(v, w) ==
    \E i \in 1 .. Len(w) :
        /\ i <= Len(v) + 1
        /\ SubSeq(v, 1, i - 1) = SubSeq(w, 1, i - 1)
        /\ i <= Len(v) => CharRank[v[i]] < CharRank[w[i]]

damerau_levenshtein(left, right) ==
    LET rows[i \in 0 .. Len(left), j \in 0 .. Len(right)] ==
          IF i = 0 \/ j = 0 THEN i + j
          ELSE Min({rows[i - 1, j] + 1, rows[i, j - 1] + 1,
                    rows[i - 1, j - 1] + (IF left[i] = right[j] THEN 0 ELSE 1)}
                   \cup (IF i > 1 /\ j > 1 /\ left[i] = right[j - 1] /\ left[i - 1] = right[j]
                         THEN {rows[i - 2, j - 2] + 1} ELSE {}))
    IN  rows[Len(left), Len(right)]

MaxDistance(received) == CASE Len(received) <= ShortName -> 1
                           [] Len(received) <= MediumName -> 2
                           [] OTHER -> 3
\* Names that end in what was received, after an underscore, are one edit away.
Distance(received, candidate) ==
    IF IsSuffix(<<"_">> \o received, candidate) THEN 1
    ELSE damerau_levenshtein(received, candidate)

Nearer(c, d) == \/ c.distance < d.distance
                \/ c.distance = d.distance /\ Precedes(c.replacement, d.replacement)
FirstOf(seq, n) == SubSeq(seq, 1, Min({n, Len(seq)}))

rank_candidates(received, expected) ==
    IF ~is_identifier(received) \/ Len(received) > MaxNameBytes THEN <<>>
    ELSE LET known == {w \in expected : is_identifier(w) /\ Len(w) <= MaxNameBytes}
             near == {[replacement |-> w, distance |-> Distance(received, w)] : w \in known}
         IN  FirstOf(SetToSortSeq({c \in near : c.distance <= MaxDistance(received)}, Nearer),
                     MaxCandidates)

bounded_unique(words) ==
    FirstOf(SetToSortSeq({w \in words : w # <<>>}, Precedes), MaxExpected)

-----------------------------------------------------------------------------
(* The text *)

SkipSpace(source, i) == Min({j \in i .. Len(source) : source[j] \notin Space} \cup {Len(source) + 1})
\* The byte after the i-th that is no space, or one that none is equal to.
next_non_space(source, i) ==
    LET j == SkipSpace(source, i + 1) IN IF j > Len(source) THEN "end" ELSE source[j]
previous_non_space(source, i) ==
    LET before == {j \in 1 .. i - 1 : source[j] \notin Space}
    IN  IF before = {} THEN "start" ELSE source[Max(before)]

\* Where a name is a whole word of the text: its first byte and its last.
Occurrences(source, name) ==
    {<<i, i + Len(name) - 1>> : i \in {k \in DOMAIN source :
        /\ k + Len(name) - 1 <= Len(source)
        /\ SubSeq(source, k, k + Len(name) - 1) = name
        /\ k = 1 \/ ~is_identifier_byte(source[k - 1])
        /\ k + Len(name) - 1 = Len(source) \/ ~is_identifier_byte(source[k + Len(name)])}}

Used(source, span, use) ==
    CASE use = "call" -> next_non_space(source, span[2]) = "("
      [] use = "keyword" -> next_non_space(source, span[2]) = "="
      [] use = "attribute" -> previous_non_space(source, span[1]) = "."

\* The only such use of the name, if there is one.
unique_identifier_span(source, name, use) ==
    LET uses == {s \in Occurrences(source, name) : Used(source, s, use)}
    IN  IF Cardinality(uses) = 1 THEN uses ELSE {}

contains_identifier(source, name) == Occurrences(source, name) # {}

\* Names after "def " at the start of a line, up to "(".
source_function_names(source) ==
    LET Starts == {i \in DOMAIN source :
                     \E k \in 1 .. i : /\ k = 1 \/ source[k - 1] \in Line
                                       /\ SkipSpace(source, k) = i}
        Names(i) == {SubSeq(source, j, k) : j, k \in i + 1 .. Len(source)}
    IN  UNION {{n \in Names(i) :
                  \E j \in i + 1 .. Len(source), k \in i + 1 .. Len(source) :
                     /\ n = SubSeq(source, j, k) /\ is_identifier(n)
                     /\ j = SkipSpace(source, i + 1) /\ next_non_space(source, k) = "("} :
               i \in {s \in Starts : source[s] = "def "}}

-----------------------------------------------------------------------------
(* correction_for_error *)

Phase(error) == IF error.code \in {"parse", "unsupported", "admission"}
                THEN "admission" ELSE "evaluation"
execution_state(phase) == IF phase = "admission" THEN "not_started" ELSE "started_or_unknown"

\* One distance below all others, of one edit at most, gives confidence.
Confidence(candidates, c) ==
    LET best == {d \in ToSet(candidates) : d.distance = candidates[1].distance}
    IN  CASE c.distance <= 1 /\ Cardinality(best) = 1 -> "high"
          [] c.distance <= 2 -> "medium"
          [] OTHER -> "low"

candidate_json(source, received, use, candidates) ==
    LET spans == unique_identifier_span(source, received, use)
    IN  [i \in DOMAIN candidates |->
           [replacement |-> candidates[i].replacement, distance |-> candidates[i].distance,
            confidence |-> Confidence(candidates, candidates[i]),
            edit |-> {[start |-> s[1] - 1, end |-> s[2], replacement |-> candidates[i].replacement] :
                        s \in spans}]]

suggestion_envelope(source, error, expected, use, candidates) ==
    [kind |-> "suggest", version |-> 1, safety |-> "suggest_only", state |-> execution_state(Phase(error)),
     source |-> source, received |-> error.received, expected |-> bounded_unique(expected),
     candidates |-> candidate_json(source, error.received, use, candidates)]
repair_envelope(source, error, received, expected) ==
    [kind |-> "suggest", version |-> 1, safety |-> "requires_repair",
     state |-> execution_state(Phase(error)), source |-> source, received |-> received,
     expected |-> expected, candidates |-> <<>>]

Expected(error, source) ==
    IF error.about = "call" THEN Callable \cup source_function_names(source) ELSE error.expected

\* Suggestions for a name that is misspelt.  Of the callables only the candidates
\* are told as expected, of keywords and fields all.
Misspelt(source, error) ==
    LET Told(expected, candidates) ==
          IF error.about = "call" THEN {c.replacement : c \in ToSet(candidates)} ELSE expected
        Ranked(expected, candidates) ==
          IF error.about # "keyword" /\ candidates = <<>> THEN None
          ELSE suggestion_envelope(source, error, Told(expected, candidates), error.about, candidates)
        Among(expected) == Ranked(expected, rank_candidates(error.received, expected))
    IN  Among(Expected(error, source))

correction_for_error(error, source) ==
    CASE error.about \in {"call", "keyword", "attribute"} -> Misspelt(source, error)
      [] error.code = "unsupported" /\ error.about = "handler" /\ is_identifier(error.received) ->
            repair_envelope(source, error, error.received, <<"except as", "except">>)
      [] error.code = "unsupported" /\ contains_identifier(source, <<"g">>) ->
            repair_envelope(source, error, <<"g">>, <<"parameters", "accessor">>)
      [] error.about = "role" ->
            repair_envelope(source, error, error.received, <<"system", "user", "assistant">>)
      [] error.about = "acceptance" ->
            repair_envelope(source, error, error.received, <<"attempt_handle">>)
      [] OTHER -> None

-----------------------------------------------------------------------------
(* apply_correction *)

EditStillFits(source, correction, edit) ==
    /\ edit.start <= edit.end /\ edit.end <= Len(source)
    /\ \A i \in {edit.start, edit.end} : i < Len(source) => source[i + 1] \notin Tail2
    /\ SubSeq(source, edit.start + 1, edit.end) = correction.received

ApplyEdit(source, edit) ==
    SubSeq(source, 1, edit.start) \o edit.replacement \o SubSeq(source, edit.end + 1, Len(source))

apply_correction(source, correction, index) ==
    IF \/ Len(source) > MaxSourceBytes
       \/ correction.kind # "suggest" \/ correction.version # 1
       \/ correction.safety # "suggest_only"
       \/ correction.source # source
       \/ Len(correction.candidates) \notin 1 .. MaxCandidates
       \/ index + 1 \notin DOMAIN correction.candidates
    THEN None
    ELSE LET candidate == correction.candidates[index + 1]
             word == candidate.replacement
             fits == {e \in candidate.edit : /\ e.replacement = word
                                             /\ EditStillFits(source, correction, e)}
         IN  IF ~is_identifier(word) \/ Len(word) > MaxNameBytes \/ fits = {} THEN None
             ELSE [kind |-> "applied", source |-> ApplyEdit(source, CHOOSE e \in fits : TRUE),
                   previous |-> source, state |-> correction.state]

-----------------------------------------------------------------------------
(* Laws *)

\* The words that one insertion, deletion, replacement or exchange of neighbours makes.
OneEdit(word, letters) ==
    LET Cut(i, j) == SubSeq(word, 1, i) \o SubSeq(word, j, Len(word))
    IN  {Cut(i - 1, i + 1) : i \in DOMAIN word}
          \cup {InsertAt(word, i, c) : i \in 1 .. Len(word) + 1, c \in letters}
          \cup {ReplaceAt(word, i, c) : i \in DOMAIN word, c \in letters}
          \cup {[word EXCEPT ![i] = word[i + 1], ![i + 1] = word[i]] : i \in 1 .. Len(word) - 1}

\* The distance of names is one of edits: it is the same both ways, and one or
\* less just where one edit or none leads from one to the other.
DistanceIsOfEdits(v, w) ==
    /\ damerau_levenshtein(v, w) = damerau_levenshtein(w, v)
    /\ damerau_levenshtein(v, w) <= 1
         <=> w \in {v} \cup OneEdit(v, Letter \cup Digit)

\* Suggestions are safe: names come nearest first, each a name that is expected,
\* none that is one edit away left out for one that is further; only one of them
\* can have high confidence, unless the name itself is expected.  An edit changes
\* the one use of the name that was received, and none of the text around it; a
\* record that was made for another text, or that has been changed, is refused or
\* changes just what it says.
CorrectionsAreSafe(error, source, other, change) ==
    LET Applied(it, done, use) ==
          /\ done.kind = "applied"
          /\ \E s \in use :
                /\ \A t \in use : Used(source, t, error.about) <=> t = s
                /\ SubSeq(done.source, 1, s[1] - 1) = SubSeq(source, 1, s[1] - 1)
                /\ SubSeq(done.source, s[1] + Len(it.replacement), Len(done.source))
                     = SubSeq(source, s[2] + 1, Len(source))
          /\ it.replacement # error.received =>
                ~\E s \in Occurrences(done.source, error.received) :
                    Used(done.source, s, error.about)
        Ranked(c, near, taken) ==
          \A i \in DOMAIN c.candidates :
            LET it == c.candidates[i] IN
            /\ it.confidence = "high" /\ error.received \notin taken =>
                 i = 1 /\ \A j \in DOMAIN c.candidates \ {1} : c.candidates[j].distance > it.distance
            /\ \A w \in near \ taken :
                 is_identifier(w) => Len(c.candidates) = MaxCandidates /\ it.distance <= 1
            /\ it.edit # {} /\ Len(source) <= MaxSourceBytes =>
                 Applied(it, apply_correction(source, c, i - 1), Occurrences(source, error.received))
        Made(c, expected, taken) ==
          /\ taken \subseteq expected
          /\ Ranked(c, expected \cap OneEdit(error.received, Letter \cup Digit), taken)
        Moved(edits, done) ==
          done.kind = "applied" =>
            \E e \in edits : /\ SubSeq(other, e.start + 1, e.end) = error.received
                             /\ done.source = ApplyEdit(other, e)
        Changed(c, edits) ==
          Moved(edits, apply_correction(other, [c EXCEPT !.source = other,
                                                         !.candidates[1].edit = edits], 0))
        Safe(c) ==
          c.kind = "suggest" =>
            /\ Made(c, Expected(error, source), {c.candidates[i].replacement : i \in DOMAIN c.candidates})
            /\ \A i \in DOMAIN c.candidates :
                 other # source => apply_correction(other, c, i - 1).kind = "none"
            /\ c.safety = "requires_repair" => apply_correction(source, c, 0).kind = "none"
            /\ c.candidates # <<>> =>
                 Changed(c, {[e EXCEPT !.start = @ + change.start, !.end = @ + change.end] :
                               e \in {f \in c.candidates[1].edit : f.start + change.start >= 0}})
    IN  Safe(correction_for_error(error, source))
=============================================================================
