------------------------------- MODULE Context -------------------------------
(***************************************************************************)
(* ContextState: the working memory that context_write, context_read and   *)
(* context_project keep for a Stone program, in the session of its guest   *)
(* or, where the attempt has one, at the Gateway.  Of the text of an item  *)
(* only its tokens are kept, of its content and evidence their size; the   *)
(* encoded item is larger by Envelope, the text of a projection by Frame.  *)
(* The diagnostic events, the newest MAX_CONTEXT_EVENTS, are left out.     *)
(***************************************************************************)
EXTENDS Integers, FiniteSetsExt, SequencesExt

CONSTANTS
    Key,           \* the keys a program uses
    Text,          \* texts of items and queries: sets of tokens
    ContentSize,   \* the sizes of contents a program tries
    Envelope,      \* bytes of an encoded item beyond its content
    Frame,         \* bytes of a projection without items
    MaxItems,      \* MAX_CONTEXT_ITEMS
    MaxItemBytes,  \* MAX_CONTEXT_ITEM_BYTES
    MaxBytes,      \* MAX_CONTEXT_BYTES
    MaxTokens,     \* MAX_CONTEXT_PROJECT_TOKENS
    MaxRevision    \* the largest revision and identifier (u64)

ASSUME LimitAssumption ==
    /\ ContentSize \subseteq Nat
    /\ {Envelope, Frame, MaxItems, MaxItemBytes, MaxBytes, MaxTokens, MaxRevision} \subseteq Nat

ASSUME TextAssumption == \A t \in Text : IsFiniteSet(t)

VARIABLES
    revision,     \* ContextState.revision
    nextId,       \* ContextState.next_id
    items,        \* ContextState.items, one item of a key
    totalBytes,   \* ContextState.total_item_bytes
    remoteCount,  \* ContextState.remote_item_count, Unknown without one
    answer,       \* what the last context call returned
    written       \* history: the identifier last written for a key, 0 for none

memory == <<revision, nextId, items, totalBytes, remoteCount>>
contextVars == <<memory, answer, written>>

Unknown == -1
Item == [key : Key, id : Nat, revision : Nat, supersedes : Nat, size : ContentSize, text : Text]
NoAnswer == [op |-> "none"]

ContextInit ==
    /\ revision = 0 /\ nextId = 0 /\ items = {} /\ totalBytes = 0 /\ remoteCount = Unknown
    /\ answer = NoAnswer
    /\ written = [k \in Key |-> 0]

-----------------------------------------------------------------------------
(***************************************************************************)
(* Sizes and order.                                                        *)
(***************************************************************************)
\* encoded_item_bytes, and how many bytes the items of a set are.
Bytes(item) == item.size + Envelope
BytesOf(set) == Cardinality(UNION {{i} \X (1..Bytes(i)) : i \in set})

\* The text of a projection: its items between brackets, commas between them.
TextBytes(set) == Frame + BytesOf(set) + (IF set = {} THEN 0 ELSE Cardinality(set) - 1)

\* relevance_score: how many tokens of the query the text contains.
Relevance(item, query) == Cardinality(item.text \cap query)

\* The more relevant item first, then the younger one.
Precedes(i, j, query) ==
    \/ Relevance(i, query) > Relevance(j, query)
    \/ Relevance(i, query) = Relevance(j, query) /\ i.revision > j.revision
Ranked(set, query) ==
    CHOOSE s \in SetToSeqs(set) :
        \A m, n \in DOMAIN s : m < n => Precedes(s[m], s[n], query)

-----------------------------------------------------------------------------
(***************************************************************************)
(* The memory of the session.                                              *)
(***************************************************************************)
\* Faulty variant: what the replaced item took up is not given back.
BytesAfterLeaky(prior, new) == totalBytes + BytesOf(new)

\* The accounting of a write: the item of the key goes, the new one comes.
BytesAfter(prior, new) == totalBytes - BytesOf(prior) + BytesOf(new)

\* ContextState::write.  An archived item is removed, but answered like any other.
Write(key, size, text, archived) ==
    LET prior == {i \in items : i.key = key}
        item == [key |-> key, id |-> nextId + 1, revision |-> revision + 1,
                 supersedes |-> IF prior = {} THEN 0 ELSE (CHOOSE i \in prior : TRUE).id,
                 size |-> size, text |-> text]
        new == IF archived THEN {} ELSE {item}
    IN IF /\ size <= MaxItemBytes
          /\ archived \/ prior # {} \/ Cardinality(items) < MaxItems
          /\ revision < MaxRevision /\ nextId < MaxRevision
          /\ BytesAfter(prior, new) <= MaxBytes
       THEN /\ revision' = item.revision /\ nextId' = item.id
            /\ totalBytes' = BytesAfter(prior, new)
            /\ items' = (items \ prior) \cup new
            /\ remoteCount' = Unknown
            /\ answer' = [op |-> "write"]
            /\ written' = [written EXCEPT ![key] = IF archived THEN 0 ELSE item.id]
       ELSE answer' = [op |-> "refused"] /\ UNCHANGED <<memory, written>>

\* ContextState::read.  An empty query, or an empty list of keys, matches everything.
Read(query, keys, limit) ==
    LET matches == {i \in items : /\ keys = {} \/ i.key \in keys
                                  /\ query = {} \/ Relevance(i, query) > 0}
        ranked == Ranked(matches, query)
    IN /\ answer' = [op |-> "read", query |-> query, matches |-> matches,
                     limit |-> limit, items |-> SubSeq(ranked, 1, Min({limit, Len(ranked)}))]
       /\ UNCHANGED <<memory, written>>

\* Faulty variant: nothing is taken after the first item that does not fit.
TakeOneInOrder(taken, item, budget) ==
    IF taken.full \/ TextBytes(taken.items \cup {item}) > budget
    THEN [taken EXCEPT !.full = TRUE]
    ELSE [taken EXCEPT !.items = @ \cup {item}]

\* An item that still fits is taken; full is the projection's truncated.
TakeOne(taken, item, budget) ==
    IF TextBytes(taken.items \cup {item}) > budget
    THEN [taken EXCEPT !.full = TRUE]
    ELSE [taken EXCEPT !.items = @ \cup {item}]

\* The ranked items are tried one after the other.
Take(required, ranked, budget) ==
    LET taken[n \in 0..Len(ranked)] ==
            IF n = 0 THEN [items |-> required, full |-> FALSE]
            ELSE TakeOne(taken[n - 1], ranked[n], budget)
    IN taken[Len(ranked)]

\* ContextState::project, with the required keys as the program lists them.
Project(focus, tokens, keys) ==
    LET required == {i \in items : i.key \in ToSet(keys)}
        taken == Take(required, Ranked(items \ required, focus), 4 * tokens)
    IN /\ answer' = IF /\ tokens \in 1..MaxTokens
                       /\ Len(keys) <= MaxItems
                       /\ IsInjective(keys)
                       /\ \A k \in ToSet(keys) : \E i \in items : i.key = k
                       /\ TextBytes(required) <= 4 * tokens
                    THEN [op |-> "project", focus |-> focus, budget |-> 4 * tokens,
                          required |-> ToSet(keys), items |-> taken.items, truncated |-> taken.full]
                    ELSE [op |-> "refused"]
       /\ UNCHANGED <<memory, written>>

-----------------------------------------------------------------------------
(***************************************************************************)
(* The memory at the Gateway, where the attempt has one.                   *)
(***************************************************************************)
\* switch_to_gateway: the session keeps no payload of its own any more.
SwitchToGateway(rev, count) ==
    /\ revision' = rev /\ remoteCount' = count
    /\ items' = {} /\ totalBytes' = 0
    /\ UNCHANGED nextId

\* observe_gateway_write, observe_gateway_read and observe_gateway_project; a
\* call that fails changes nothing here, whatever it did at the Gateway.
CallGateway(rev, count, ok) ==
    IF ok
    THEN /\ SwitchToGateway(rev, count)
         /\ answer' = [op |-> "gateway"]
         /\ written' = [k \in Key |-> 0]
    ELSE answer' = [op |-> "refused"] /\ UNCHANGED <<memory, written>>

-----------------------------------------------------------------------------
(***************************************************************************)
(* Properties.                                                             *)
(***************************************************************************)
\* The session holds, of each key, what was last written and not archived, and
\* nothing once the Gateway has the memory; what it counts is what it holds, and
\* within its limits; a younger item has the larger identifier and revision.
MemoryIsKept ==
    /\ \A k \in Key : {i.id : i \in {j \in items : j.key = k}} = {written[k]} \ {0}
    /\ totalBytes = BytesOf(items) /\ totalBytes <= MaxBytes
    /\ Cardinality(items) <= MaxItems
    /\ remoteCount # Unknown => items = {}
    /\ \A i, j \in items : i.id < j.id => i.revision < j.revision
    /\ \A i \in items : i.supersedes < i.id /\ i.id <= nextId /\ i.revision <= revision

\* A projection fits its budget and has every required item; what it leaves out
\* would not fit, not even without the items that rank below it, and is owned up
\* to.  A read returns the best matches, best first.
AnswersAreBest ==
    /\ answer.op = "project" =>
          /\ TextBytes(answer.items) <= answer.budget
          /\ \A k \in answer.required : \E i \in answer.items : i.key = k
          /\ answer.truncated <=> answer.items # items
          /\ \A out \in items \ answer.items :
                TextBytes({i \in answer.items : \/ i.key \in answer.required
                                                \/ Precedes(i, out, answer.focus)}
                          \cup {out}) > answer.budget
    /\ answer.op = "read" =>
          /\ Len(answer.items) = Min({answer.limit, Cardinality(answer.matches)})
          /\ \A m, n \in DOMAIN answer.items :
                m < n => Precedes(answer.items[m], answer.items[n], answer.query)
          /\ \A out \in answer.matches \ ToSet(answer.items) :
                \A n \in DOMAIN answer.items : Precedes(answer.items[n], out, answer.query)

=============================================================================
