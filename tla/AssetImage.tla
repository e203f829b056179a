----------------------------- MODULE AssetImage -----------------------------
(***************************************************************************)
(* The disk image that carries a task's files into a VM                    *)
(* (crates/asset-image/src/lib.rs): a header, a table of paths with the    *)
(* offset and length of each content, and the contents from an aligned     *)
(* offset on.  AssetImage::encode writes it, AssetImageView::decode reads  *)
(* it in the guest from a device whose bytes nobody has checked before,    *)
(* and AssetImageProbe::probe finds the image among the devices by its     *)
(* header.                                                                 *)
(*                                                                         *)
(* A byte is a digit below Base, and every part of the format keeps its    *)
(* place with fewer bytes: the magic, the version, the uuid, the lengths   *)
(* of the label and of a path and the number of entries take one, an       *)
(* offset or a length of a content takes Wide (u64::to_le_bytes).  Where a *)
(* number does not fit its field, a conversion or a checked addition       *)
(* fails, as it does for a u16, u32 or u64.                                *)
(***************************************************************************)
EXTENDS Integers, Sequences, SequencesExt, FiniteSetsExt

CONSTANTS
    Base, Wide,             \* values of a byte; bytes of an offset
    BlockAlign, DataAlign,  \* BLOCK_ALIGN, DATA_ALIGN
    Magic, Version,         \* MAGIC, VERSION
    Slash, Dot,             \* '/' and '.' of a path
    LabelByte, BrokenByte   \* bytes a label may hold; bytes that are no UTF-8

Limit == Base ^ Wide                      \* one more than u64::MAX
HEADER_FIXED_LEN == 5 + Wide

\* Every reader and writer ends with a value or with the error it names.
Done(v) == [ok |-> TRUE, value |-> v, error |-> "none"]
Refused(error) == [ok |-> FALSE, value |-> 0, error |-> error]

-----------------------------------------------------------------------------
(* Bytes: Cursor, push_u16, push_u32, push_u64, align_up. *)

Put(n, width) == [i \in 1 .. width |-> (n \div Base ^ (i - 1)) % Base]
Got(digits) == FoldLeftDomain(LAMBDA n, i : n + digits[i] * Base ^ (i - 1), 0, digits)

Total(numbers) == FoldLeft(LAMBDA sum, n : sum + n, 0, numbers)

\* The bytes of a cursor between its offset and offset + len, or the end of them.
Has(bytes, offset, len) == offset + len <= Len(bytes)
ReadExact(bytes, offset, len) == SubSeq(bytes, offset + 1, offset + len)
ReadInt(bytes, offset, len) == Got(ReadExact(bytes, offset, len))

\* Up to the next multiple: the addition of the mask is checked.
Aligned(n, align) == ((n + align - 1) \div align) * align
AlignFits(n, align) == n + align - 1 < Limit
Padded(bytes, len) == bytes \o [i \in 1 .. len - Len(bytes) |-> 0]

-----------------------------------------------------------------------------
(* What may be in an image. *)

\* Rust orders paths by their bytes.
Before(p, q) ==
    \/ IsStrictPrefix(p, q)
    \/ \E i \in 1 .. Min({Len(p), Len(q)}) :
          p[i] < q[i] /\ SubSeq(p, 1, i - 1) = SubSeq(q, 1, i - 1)

Components(path) ==
    LET cuts == {0} \cup {i \in 1 .. Len(path) : path[i] = Slash} \cup {Len(path) + 1}
    IN  {SubSeq(path, i + 1, Min({j \in cuts : j > i}) - 1) : i \in cuts \ {Len(path) + 1}}

\* Absolute, of a file, without empty, "." and ".." components.
is_valid_entry_path(path) ==
    /\ Len(path) > 1 /\ Head(path) = Slash /\ Last(path) # Slash
    /\ ~\E i \in 1 .. Len(path) - 1 : path[i] = Slash /\ path[i + 1] = Slash
    /\ Components(path) \cap {<<Dot>>, <<Dot, Dot>>} = {}

\* What may be wrong with a record behind one of path previous that ends at end,
\* in the order the checks are made.
RecordFaults(record, previous, end) ==
    << <<~is_valid_entry_path(record.path), "InvalidPath">>,
       <<previous = record.path, "DuplicatePath">>,
       <<Before(record.path, previous), "EntryNotSorted">>,
       <<record.offset < end, "EntryOverlapsData">>,
       <<record.offset + record.len >= Limit, "ImageTooLarge">> >>

\* The first error among records in the order of the table, or "none".
validate_records(records) ==
    LET faults == [i \in 1 .. Len(records) |->
                     IF i = 1 THEN RecordFaults(records[1], <<>>, 0)
                     ELSE RecordFaults(records[i], records[i - 1].path,
                                       records[i - 1].offset + records[i - 1].len)]
        found == SelectSeq(FlattenSeq(faults), LAMBDA fault : fault[1])
    IN  IF found = <<>> THEN "none" ELSE found[1][2]

validate_metadata(metadata) ==
    IF Len(metadata.label) >= Base THEN "LabelTooLong"
    ELSE IF ~(ToSet(metadata.label) \subseteq LabelByte) THEN "InvalidLabel" ELSE "none"

\* AssetImage::with_metadata: entries are checked without their places.
with_metadata(image) ==
    LET placeless == [i \in 1 .. Len(image.entries) |->
                        [path |-> image.entries[i].path, offset |-> 0, len |-> 0]]
        Unless(error, otherwise) == IF error = "none" THEN otherwise ELSE Refused(error)
    IN  Unless(validate_metadata(image.metadata),
               Unless(validate_records(placeless), Done(image)))

-----------------------------------------------------------------------------
(* AssetImage::encode *)

encoded_table_len(image) ==
    HEADER_FIXED_LEN + Len(image.metadata.label)
      + Total([i \in 1 .. Len(image.entries) |-> 1 + Len(image.entries[i].path) + 2 * Wide])

DataStart(image) == Aligned(encoded_table_len(image), DataAlign)
\* Where the content of an entry begins: contents follow each other unaligned.
OffsetOf(image, i) ==
    DataStart(image) + Total([j \in 1 .. i - 1 |-> Len(image.entries[j].content)])

Table(image) ==
    FlattenSeq([i \in 1 .. Len(image.entries) |->
       LET entry == image.entries[i]
       IN  Put(Len(entry.path), 1) \o entry.path
             \o Put(OffsetOf(image, i), Wide) \o Put(Len(entry.content), Wide)])
Header(image) ==
    <<Magic, Version, image.metadata.uuid>> \o Put(Len(image.metadata.label), 1)
      \o image.metadata.label \o Put(Len(image.entries), 1) \o Put(DataStart(image), Wide)

Encoded(image) ==
    LET contents == FlattenSeq([i \in 1 .. Len(image.entries) |-> image.entries[i].content])
        InBlocks(out) == Padded(out, Aligned(Len(out), BlockAlign))
    IN  InBlocks(Padded(Header(image) \o Table(image), DataStart(image)) \o contents)

encode(image) ==
    LET TooLarge(end) == end >= Limit \/ ~AlignFits(end, BlockAlign)
        Checked(input) ==
          CASE ~input.ok -> input
            [] \/ ~AlignFits(encoded_table_len(image), DataAlign)
               \/ TooLarge(OffsetOf(image, Len(image.entries) + 1)) -> Refused("ImageTooLarge")
            [] Len(image.entries) >= Base -> Refused("TooManyEntries")
            [] \E i \in 1 .. Len(image.entries) : Len(image.entries[i].path) >= Base ->
                  Refused("PathTooLong")
            [] OTHER -> Done(Encoded(image))
    IN  Checked(with_metadata(image))

-----------------------------------------------------------------------------
(* AssetImageProbe::probe and AssetImageView::decode *)

\* read_header: the cursor is left behind the header.
read_header(bytes) ==
    LET label == ReadExact(bytes, 4, bytes[4])
        metadata == [uuid |-> bytes[3], label |-> label]
        count == 4 + bytes[4]
        start == ReadInt(bytes, count + 1, Wide)
    IN  CASE ~Has(bytes, 0, 1) -> Refused("UnexpectedEof")
          [] bytes[1] # Magic -> Refused("InvalidMagic")
          [] ~Has(bytes, 1, 1) -> Refused("UnexpectedEof")
          [] bytes[2] # Version -> Refused("UnsupportedVersion")
          [] ~Has(bytes, 2, 2) \/ ~Has(bytes, 4, bytes[4]) -> Refused("UnexpectedEof")
          [] ToSet(label) \cap BrokenByte # {} -> Refused("InvalidUtf8Label")
          [] validate_metadata(metadata) # "none" -> Refused(validate_metadata(metadata))
          [] ~Has(bytes, count, 1 + Wide) -> Refused("UnexpectedEof")
          [] start < HEADER_FIXED_LEN \/ start % DataAlign # 0 -> Refused("InvalidDataOffset")
          [] OTHER -> Done([metadata |-> metadata, entry_count |-> bytes[count + 1],
                            data_start |-> start, cursor |-> count + 1 + Wide])

probe(bytes) == read_header(bytes)

\* One entry of the table: its record and the cursor behind it.
ReadRecord(bytes, cursor, start) ==
    LET len == bytes[cursor + 1]
        path == ReadExact(bytes, cursor + 1, len)
        at == cursor + 1 + len
        offset == ReadInt(bytes, at, Wide)
    IN  CASE ~Has(bytes, cursor, 1) \/ ~Has(bytes, cursor + 1, len) -> Refused("UnexpectedEof")
          [] ToSet(path) \cap BrokenByte # {} -> Refused("InvalidUtf8Path")
          [] ~Has(bytes, at, 2 * Wide) -> Refused("UnexpectedEof")
          [] offset < start -> Refused("InvalidDataOffset")
          [] OTHER -> Done([record |-> [path |-> path, offset |-> offset,
                                        len |-> ReadInt(bytes, at + Wide, Wide)],
                            cursor |-> at + 2 * Wide])

\* The room that is asked for entry_count records before one is read is left out.
ReadTable(bytes, header) ==
    LET Next(table, i) ==
            IF ~table.ok THEN table
            ELSE LET entry == ReadRecord(bytes, table.value.cursor, header.data_start)
                 IN  IF entry.ok
                     THEN Done([records |-> Append(table.value.records, entry.value.record),
                                cursor |-> entry.value.cursor])
                     ELSE entry
    IN  FoldLeft(Next, Done([records |-> <<>>, cursor |-> header.cursor]),
                 [i \in 1 .. header.entry_count |-> i])

\* The table has to end before the contents begin.
EndsAnywhere(cursor, start) == TRUE     \* faulty variant
EndsBefore(cursor, start) == cursor <= start

decode(bytes) ==
    LET Recorded(header, records, error) ==
          CASE error # "none" -> Refused(error)
            [] \E i \in 1 .. Len(records) : ~Has(bytes, records[i].offset, records[i].len) ->
                  Refused("UnexpectedEof")
            [] OTHER ->
                  Done([metadata |-> header.metadata,
                        entries |-> [i \in 1 .. Len(records) |->
                           [path |-> records[i].path, offset |-> records[i].offset,
                            content |-> ReadExact(bytes, records[i].offset, records[i].len)]]])
        Tabled(header, table) ==
          CASE ~table.ok -> table
            [] ~EndsBefore(table.value.cursor, header.data_start) -> Refused("InvalidDataOffset")
            [] OTHER -> Recorded(header, table.value.records,
                                 validate_records(table.value.records))
        Headed(header) == IF header.ok THEN Tabled(header.value, ReadTable(bytes, header.value))
                          ELSE header
    IN  Headed(read_header(bytes))

\* AssetImage::decode: the same entries without their places, checked once more.
Owned(view) ==
    IF ~view.ok THEN view
    ELSE with_metadata([metadata |-> view.value.metadata,
                        entries |-> [i \in DOMAIN view.value.entries |->
                           [path |-> view.value.entries[i].path,
                            content |-> view.value.entries[i].content]]])
decode_owned(bytes) == Owned(decode(bytes))

\* AssetImageView::entry looks a path up by halving the table, entries lo to
\* hi - 1 of it being left: 0 when it is not there.
RECURSIVE Halve(_, _, _, _)
Halve(view, path, lo, hi) ==
    LET mid == (lo + hi) \div 2
    IN  CASE lo >= hi -> 0
          [] view.entries[mid].path = path -> mid
          [] Before(view.entries[mid].path, path) -> Halve(view, path, mid + 1, hi)
          [] OTHER -> Halve(view, path, lo, mid)
entry(view, path) == Halve(view, path, 1, Len(view.entries) + 1)

-----------------------------------------------------------------------------
(* Laws *)

\* What is written is read back, whole and in its place: the image that encode
\* made is cut in blocks, decodes to the entries it was made of, tells the same
\* of itself by its first page, and every path is found and only those.
ImageSurvives(image, paths) ==
    LET Found(view, path, i) ==
          IF i = 0 THEN \A e \in ToSet(image.entries) : e.path # path
          ELSE view.entries[i].path = path
        Viewed(view) ==
          /\ Owned(view) = Done(image)
          /\ \A path \in paths : Found(view.value, path, entry(view.value, path))
        Probed(bytes, header) ==
          /\ header.value.metadata = image.metadata
          /\ \A len \in DataStart(image) .. Len(bytes) : probe(ReadExact(bytes, 0, len)) = header
        Written(bytes) ==
          Len(bytes) % BlockAlign = 0 /\ Probed(bytes, probe(bytes)) /\ Viewed(decode(bytes))
        Made(result) == result.ok => Written(result.value)
    IN  Made(encode(image))

\* Whatever the bytes are, a decoded view is one that encode could have been asked
\* for: valid paths in order, each once, contents inside the device, behind the
\* table and apart from each other.
ViewIsSound(bytes) ==
    LET \* Where the table ends: behind the records of these entries.
        TableEnd(entries) ==
          read_header(bytes).value.cursor
            + Total([i \in DOMAIN entries |-> 1 + Len(entries[i].path) + 2 * Wide])
        Apart(entries, table) ==
          LET Start(i) == entries[i].offset
              End(i) == Start(i) + Len(entries[i].content)
          IN  \A i \in DOMAIN entries :
                /\ table <= Start(i) /\ End(i) <= Len(bytes)
                /\ \A j \in 1 .. i - 1 : End(j) <= Start(i) /\ Start(j) <= Start(i)
        Again(image, made) == made.ok => decode_owned(made.value) = image
        Kept(image) == image.ok /\ Again(image, encode(image.value))
        Viewed(view) ==
          view.ok => /\ Apart(view.value.entries, TableEnd(view.value.entries))
                     /\ Kept(Owned(view))
    IN  Viewed(decode(bytes))
=============================================================================
