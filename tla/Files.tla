-------------------------------- MODULE Files --------------------------------
(***************************************************************************)
(* The workspace as the agent's file tools (tools.rs) and the file         *)
(* built-ins of Stone (stone_file_ops.rs and their calls in stone_eval.rs) *)
(* see and change it: a tree of directories and files, the current         *)
(* directory of the program, and the last answer.                          *)
(*                                                                         *)
(* A path is the sequence of its names. With a Gateway attached the files  *)
(* under /app are those of the Gateway's transaction: tools reach them by  *)
(* a request, and a relative path of a program starts there. /task may be  *)
(* a read-only image (Assets) that no directory stands for.                *)
(***************************************************************************)
EXTENDS Text

CONSTANTS
  RawPaths, ScriptPaths, Texts, Counts, Patterns, Matchers,  \* what calls are made with
  Rooms,          \* how many bytes the file system may still take from a call
  Rank,           \* the order of names: a function to the naturals
  Suffix,         \* the file extension of a name, "" when it has none
  Spelling,       \* the characters of a name
  Assets,         \* the entries of the task image in order, <<>> without one
  MaxReadBytes, MaxWriteBytes, MaxListEntries, MaxFindEntries,
  MaxSearchFiles, MaxSearchFileBytes, MaxSearchMatches, MaxSuggestions

\* Calls are made with paths of names, of "." and of "..", and with texts; "app"
\* is the name of the transaction.
Name == DOMAIN Rank \cup {".", "..", "app"}
ASSUME CallsAssumption ==
  /\ \A raw \in RawPaths : raw \in Seq(Name)
  /\ \A script \in ScriptPaths : script.parts \in Seq(Name)
  /\ \A text \in Texts : text \in Seq(STRING)
  /\ Rooms \subseteq Nat

VARIABLES
  tree, cwd,
  attached,       \* whether a Gateway is attached
  answer          \* the last call and its result
filesVars == <<tree, cwd, attached, answer>>

Dir == [kind |-> "dir", bytes |-> <<>>]
File(bytes) == [kind |-> "file", bytes |-> bytes]
IsDir(t, p) == p = <<>> \/ (p \in DOMAIN t /\ t[p].kind = "dir")
IsFile(t, p) == p \in DOMAIN t /\ t[p].kind = "file"
Exists(t, p) == IsDir(t, p) \/ IsFile(t, p)
Put(t, p, node) == [q \in DOMAIN t \cup {p} |-> IF q = p THEN node ELSE t[q]]
Prune(t, p) == [q \in {r \in DOMAIN t : ~IsPrefix(p, r)} |-> t[q]]

\* Names compare by Rank, and a directory comes before what it holds.
Before(a, b) ==
  \E k \in 1 .. Len(b) :
    /\ k <= Len(a) + 1
    /\ Taken(a, k - 1) = Taken(b, k - 1)
    /\ k <= Len(a) => Rank[a[k]] < Rank[b[k]]

Sorted(S, less(_, _)) ==
  [i \in 1 .. Cardinality(S) |->
     CHOOSE x \in S : Cardinality({y \in S : less(y, x)}) = i - 1]

\* Breadth first, each directory's children in the order of their names.
Walk(t, root) ==
  Sorted({p \in DOMAIN t : IsPrefix(root, p)},
         LAMBDA a, b : Len(a) < Len(b) \/ (Len(a) = Len(b) /\ Before(a, b)))

Children(t, p) == Sorted({q \in DOMAIN t : q # <<>> /\ Front(q) = p}, Before)

-----------------------------------------------------------------------------
(* Access *)

Roots == {"app", "task", "work", "result", "tmp"}

root_allows(access) ==
  CASE access \in {"read", "search"} -> Roots \ {"tmp"}
    [] access \in {"write", "edit"}  -> {"work", "result", "tmp"}
    [] access \in {"find", "list"}   -> Roots

normalize_guest_path(raw) ==
  LET Component(parts, part) ==
        CASE part = "."  -> parts
          [] part = ".." -> IF parts = <<>> THEN parts ELSE Front(parts)
          [] OTHER       -> Append(parts, part)
      parts[n \in 0 .. Len(raw)] ==
        IF n = 0 THEN <<>> ELSE Component(parts[n - 1], raw[n])
  IN parts[Len(raw)]

Refused(code) == [ok |-> FALSE, code |-> code]

\* Faulty variant: judges the path as it is spelled.
resolveSpelled(access, raw) ==
  IF raw = <<>> \/ Head(raw) \notin Roots THEN Refused("path_outside_workspace")
  ELSE IF Head(raw) \notin root_allows(access) THEN Refused("access_denied")
  ELSE Success(normalize_guest_path(raw))

resolve(access, raw) ==
  LET path == normalize_guest_path(raw)
  IN CASE path = <<>> \/ Head(path) \notin Roots -> Refused("path_outside_workspace")
       [] path # <<>> /\ Head(path) \in Roots \ root_allows(access) ->
            Refused("access_denied")
       [] OTHER -> Success(path)

\* A file on the way is no directory; anything else missing is not found.
io_tool_error(t, path) ==
  Refused(IF \E n \in 1 .. Len(path) - 1 : IsFile(t, Taken(path, n))
          THEN "io_error" ELSE "not_found")

\* Files of the same root with the name that was not found, then with its
\* extension; a file named twice takes two of the places.
nearby_path_suggestions(t, path) ==
  LET files == Sorted({p \in DOMAIN t : IsFile(t, p) /\ Head(p) = Head(path)}, Before)
      named == Taken(SelectSeq(files, LAMBDA p : Last(p) = Last(path)), MaxSuggestions)
      alike == IF Suffix[Last(path)] = "" THEN <<>>
               ELSE Taken(SelectSeq(files, LAMBDA p : Suffix[Last(p)] = Suffix[Last(path)]),
                          MaxSuggestions - Len(named))
  IN Sorted(ToSet(named) \cup ToSet(alike), Before)

NotFound(t, path) ==
  LET error == io_tool_error(t, path)
  IN [ok |-> FALSE, code |-> error.code,
      suggestions |-> IF error.code = "not_found" THEN nearby_path_suggestions(t, path)
                      ELSE <<>>]

-----------------------------------------------------------------------------
(* The task image *)

OnAssets(path) == Head(path) = "task" /\ Assets # <<>>
AssetPath(entry) == <<"task">> \o entry.path

task_asset_entry(path) == {i \in DOMAIN Assets : AssetPath(Assets[i]) = path}
task_asset_descendants(path) ==
  SelectSeq(Assets, LAMBDA entry : IsStrictPrefix(path, AssetPath(entry)))
task_asset_is_dir(path) == path = <<"task">> \/ task_asset_descendants(path) # <<>>

\* The entry itself or all below it, in the order of the image.
Candidates(path) ==
  IF task_asset_entry(path) # {} THEN <<Assets[CHOOSE i \in task_asset_entry(path) : TRUE]>>
  ELSE task_asset_descendants(path)

\* Directories are what the paths of the entries imply: they have no entry.
list_task_asset_tool(path, max_entries) ==
  LET names == {AssetPath(e)[Len(path) + 1] : e \in ToSet(task_asset_descendants(path))}
      Kind(name) == IF task_asset_entry(Append(path, name)) # {} THEN "file" ELSE "prefix"
      entries == [i \in 1 .. Cardinality(names) |->
                    LET q == Sorted({<<n>> : n \in names}, Before)[i]
                    IN <<Head(q), Kind(Head(q))>>]
  IN CASE task_asset_entry(path) # {} -> Refused("not_directory")
       [] task_asset_entry(path) = {} /\ ~task_asset_is_dir(path) -> Refused("not_found")
       [] OTHER -> [ok |-> TRUE, entries |-> Taken(entries, max_entries),
                    truncated |-> Len(entries) > max_entries]

-----------------------------------------------------------------------------
(* The tools of the agent *)

read_bytes_success(path, bytes, truncated) ==
  [ok |-> TRUE, path |-> path, count |-> Len(bytes),
   content |-> IF IsUtf8(bytes) THEN bytes ELSE "binary",
   truncated |-> truncated, value_truncated |-> truncated \/ ~IsUtf8(bytes)]

ReadPart(path, bytes, offset, limit) ==
  read_bytes_success(path, Taken(Without(bytes, offset), limit),
                     Len(Without(bytes, offset)) > limit)

read_tool(t, raw, offset, max_bytes) ==
  LET resolved == resolve("read", raw)
      path == resolved.value
      limit == Least(max_bytes, MaxReadBytes)
  IN CASE ~resolved.ok -> resolved
       [] resolved.ok /\ OnAssets(path) ->
            IF task_asset_is_dir(path) THEN Refused("is_directory")
            ELSE IF task_asset_entry(path) = {} THEN Refused("not_found")
            ELSE ReadPart(path, Candidates(path)[1].bytes, offset, limit)
       [] resolved.ok /\ ~OnAssets(path) ->
            IF IsDir(t, path) THEN Refused("is_directory")
            ELSE IF ~IsFile(t, path) THEN NotFound(t, path)
            ELSE ReadPart(path, t[path].bytes, offset, limit)

\* Every directory above path; the program fails when a file is in the way.
MakeDirs(t, path) ==
  [q \in DOMAIN t \cup {Taken(path, n) : n \in 1 .. Len(path)} |->
     IF q \in DOMAIN t THEN t[q] ELSE Dir]
Blocked(t, path) == \E n \in 1 .. Len(path) : IsFile(t, Taken(path, n))

\* What a call leaves behind, and what it answers.
Left(t, a) == [tree |-> t, answer |-> a]
Written(path, bytes) == [ok |-> TRUE, path |-> path, count |-> Len(bytes)]

\* Faulty variant: takes what write() wrote for everything.
write_some(t, path, kept, content, room, told) ==
  Left(Put(t, path, File(kept \o Taken(content, room))), told)

\* The file was opened, and emptied but for what is kept of it; a write that
\* fails half-way leaves what it has written.
write_all(t, path, kept, content, room, told) ==
  Left(Put(t, path, File(kept \o Taken(content, room))),
       IF Len(content) <= room THEN told ELSE Refused("io_error"))

\* open() and write_all() with the flags of a mode.
OpenAndWrite(t, path, content, mode, room) ==
  CASE mode = "create" /\ Exists(t, path) -> Left(t, Refused("already_exists"))
    [] Blocked(t, Front(path)) -> Left(t, Refused("io_error"))
    [] ~(mode = "create" /\ Exists(t, path)) /\ ~Blocked(t, Front(path)) ->
         IF IsDir(t, path) THEN Left(t, Refused("io_error"))
         ELSE write_all(t, path,
                        IF mode = "append" /\ IsFile(t, path) THEN t[path].bytes ELSE <<>>,
                        content, room, Written(path, content))

\* The size is checked before the path, the directories are made before the
\* file is opened.
write_tool(t, raw, content, mode, create_parent_dirs, room) ==
  LET resolved == resolve("write", raw)
      parent == Front(resolved.value)
  IN IF Len(content) > MaxWriteBytes THEN Left(t, Refused("write_too_large"))
     ELSE IF ~resolved.ok THEN Left(t, resolved)
     ELSE IF create_parent_dirs
     THEN IF Blocked(t, parent) THEN Left(t, Refused("io_error"))
          ELSE OpenAndWrite(MakeDirs(t, parent), resolved.value, content, mode, room)
     ELSE IF ~Exists(t, parent) THEN Left(t, Refused("parent_missing"))
     ELSE OpenAndWrite(t, resolved.value, content, mode, room)

edit_tool(t, raw, old, new, replace_all, room) ==
  LET resolved == resolve("edit", raw)
      path == resolved.value
      content == t[path].bytes
      found == matches(content, old)
      edited == replace(content, old, new, IF replace_all THEN found ELSE 1)
  IN IF ~resolved.ok THEN Left(t, resolved)
     ELSE IF IsDir(t, path) THEN Left(t, Refused("io_error"))
     ELSE IF ~IsFile(t, path) THEN Left(t, io_tool_error(t, path))
     ELSE IF Len(content) > MaxReadBytes THEN Left(t, Refused("file_too_large"))
     ELSE IF ~IsUtf8(content) THEN Left(t, Refused("non_utf8_file"))
     ELSE IF old = <<>> THEN Left(t, Refused("empty_match"))
     ELSE IF found = 0 THEN Left(t, Refused("match_not_found"))
     ELSE IF found > 1 /\ ~replace_all THEN Left(t, Refused("multiple_matches"))
     ELSE IF Len(edited) > MaxWriteBytes THEN Left(t, Refused("edit_result_too_large"))
     ELSE write_all(t, path, <<>>, edited, room,
                    [Written(path, edited) EXCEPT !.count = IF replace_all THEN found ELSE 1])

list_tool(t, raw, max_entries) ==
  LET resolved == resolve("list", raw)
      path == resolved.value
      limit == Least(max_entries, MaxListEntries)
      all == Children(t, path)
  IN IF ~resolved.ok THEN resolved
     ELSE IF OnAssets(path) THEN list_task_asset_tool(path, limit)
     ELSE IF IsFile(t, path) THEN Refused("not_directory")
     ELSE IF ~IsDir(t, path) THEN io_tool_error(t, path)
     ELSE [ok |-> TRUE, truncated |-> Len(all) > limit,
           entries |-> [i \in 1 .. Least(limit, Len(all)) |->
                          <<Last(all[i]), t[all[i]].kind>>]]

\* The first entries with the name, in the order of the walk; one that finds
\* the answer full ends it.
Found(walk, contains, glob, limit) ==
  LET named == SelectSeq(walk, LAMBDA p : find_name_matches(Spelling[Last(p)], contains, glob))
  IN [ok |-> TRUE, entries |-> Taken(named, limit), truncated |-> Len(named) > limit]

find_tool(t, raw, contains, glob, max_entries) ==
  LET resolved == resolve("find", raw)
      path == resolved.value
      limit == Least(max_entries, MaxFindEntries)
      found == Found(Walk(t, path), contains, glob, limit)
      candidates == Candidates(path)
  IN IF ~resolved.ok THEN resolved
     ELSE IF OnAssets(path)
     THEN IF candidates = <<>> /\ path # <<"task">> THEN Refused("not_found")
          ELSE Found([i \in DOMAIN candidates |-> AssetPath(candidates[i])],
                     contains, glob, limit)
     ELSE IF Exists(t, path)
          THEN [found EXCEPT !.entries = Sorted(ToSet(found.entries), Before)]
          ELSE io_tool_error(t, path)

\* Visits one path of a walk, a directory having no bytes of its own.  A file is
\* passed over when the pattern does not match all of it as one text.
Visit(s, path, is_file, bytes, matcher, limit) ==
  IF s.stop THEN s
  ELSE IF s.files_visited >= MaxSearchFiles \/ Len(s.matches) >= limit
  THEN [s EXCEPT !.truncated = TRUE, !.stop = TRUE]
  ELSE IF ~is_file \/ Len(bytes) > MaxSearchFileBytes THEN s
  ELSE LET visited == [s EXCEPT !.files_visited = @ + 1]
       IN IF bytes_look_binary(bytes) \/ ~is_match(matcher, bytes) THEN visited
          ELSE push_search_line_matches_bytes(visited, path, bytes, matcher, limit)

EmptyNeedle(matcher) == matcher.text = <<>> /\ ~matcher.start /\ ~matcher.end

NothingFound == [matches |-> <<>>, truncated |-> FALSE, files_visited |-> 0, stop |-> FALSE]

search_tool(t, raw, matcher, max_matches) ==
  LET resolved == resolve("search", raw)
      path == resolved.value
      limit == Least(max_matches, MaxSearchMatches)
      OfTree(s, p) == Visit(s, p, IsFile(t, p), t[p].bytes, matcher, limit)
      OfAssets(s, e) == Visit(s, AssetPath(e), TRUE, e.bytes, matcher, limit)
      inTree == FoldLeft(OfTree, NothingFound, Walk(t, path))
      inAssets == FoldLeft(OfAssets, NothingFound, Candidates(path))
      Earlier(a, b) == Before(a[1], b[1]) \/ (a[1] = b[1] /\ a[2] < b[2])
  IN IF EmptyNeedle(matcher) THEN Refused("empty_needle")
     ELSE IF ~resolved.ok THEN resolved
     ELSE IF OnAssets(path)
     THEN IF Candidates(path) = <<>> /\ path # <<"task">> THEN Refused("not_found")
          ELSE [ok |-> TRUE, matches |-> inAssets.matches, truncated |-> inAssets.truncated]
     ELSE IF ~Exists(t, path) THEN io_tool_error(t, path)
     ELSE [ok |-> TRUE, matches |-> Sorted(ToSet(inTree.matches), Earlier),
           truncated |-> inTree.truncated]

-----------------------------------------------------------------------------
(* The transaction of the Gateway *)

\* Taken before the path is normalised.
path_is_under_app(raw) == raw # <<>> /\ Head(raw) = "app"

\* Whatever goes wrong at the Gateway or on the way back is one error.
Reply(left, lost) ==
  IF left.answer.ok /\ ~lost THEN left
  ELSE Left(left.tree, Refused("workspace_rpc_error"))

\* Offsets are not passed on, limits of list neither, and "create" writes over
\* what is there; only reading and writing a directory is refused by what the
\* Gateway does (external).  The reply to a write may be lost.
gateway_workspace_request(t, tool, path, max_bytes, content, mode, room, lost) ==
  CASE tool = "read" ->
         Left(t, IF ~IsFile(t, path) THEN Refused("workspace_rpc_error")
                 ELSE LET bytes == Taken(t[path].bytes, max_bytes)
                      IN [read_bytes_success(path, bytes, FALSE)
                            EXCEPT !.truncated = ~IsUtf8(bytes)])
    [] tool = "write" ->
         IF IsDir(t, path) \/ Blocked(t, Front(path))
         THEN Left(t, Refused("workspace_rpc_error"))
         ELSE Reply(OpenAndWrite(MakeDirs(t, Front(path)), path, content,
                                 IF mode = "append" THEN mode ELSE "replace", room), lost)
    [] tool = "list" ->
         Left(t, IF ~IsDir(t, path) THEN Refused("workspace_rpc_error")
                 ELSE LET all == Children(t, path)
                      IN [ok |-> TRUE, truncated |-> FALSE,
                          entries |-> [i \in DOMAIN all |-> <<Last(all[i]), t[all[i]].kind>>]])
    [] OTHER -> Left(t, Refused("workspace_rpc_tool_unsupported"))

\* Whether the request goes to the Gateway at all.
remote_workspace_tool(raw) == attached /\ path_is_under_app(raw)

-----------------------------------------------------------------------------
(* The built-ins of a Stone program *)

\* A change to the transaction is a request too.
Confirmed(left, lost) == IF attached THEN Reply(left, lost) ELSE left

\* A relative path starts at the current directory, or in the transaction.
resolve_script_path(path) ==
  IF path.absolute THEN path.parts
  ELSE IF attached THEN <<"app">> \o path.parts ELSE cwd \o path.parts

ensure_parent_dir_for_write(t, path) ==
  IF Blocked(t, Front(path)) THEN t ELSE MakeDirs(t, Front(path))

write_text(t, path, text, append, room, lost) ==
  Confirmed(OpenAndWrite(ensure_parent_dir_for_write(t, path), path, text,
                         IF append THEN "append" ELSE "replace", room), lost)

read_text(t, path, offset, max_bytes) ==
  IF IsFile(t, path) THEN read_text_range(t[path].bytes, offset, max_bytes)
  ELSE IF IsDir(t, path) THEN Refused("io_error") ELSE io_tool_error(t, path)

\* The end of the file, from the byte that leaves tail_bytes.
read_tail(t, path, tail_bytes, max_bytes) ==
  IF ~IsFile(t, path) THEN Refused("io_error")
  ELSE LET size == Len(t[path].bytes)
       IN read_text(t, path, size - Least(size, tail_bytes), Least(max_bytes, tail_bytes))

\* Reads everything that decodes and writes everything it has read.
edit_text_file(t, path, old, new, replace_all, room, lost) ==
  LET text == read_text(t, path, 0, Len(t[path].bytes))
      found == matches(text.value, old)
      count == IF replace_all THEN found ELSE 1
      written == write_text(t, path, replace(text.value, old, new, count), FALSE, room, lost)
  IN IF old = <<>> THEN Left(t, Failure)
     ELSE IF ~IsFile(t, path) THEN Left(t, io_tool_error(t, path))
     ELSE IF ~text.ok THEN Left(t, text)
     ELSE IF found = 0 THEN Left(t, Failure)
     ELSE Left(written.tree,
               IF written.answer.ok THEN [ok |-> TRUE, path |-> path, count |-> count]
               ELSE written.answer)

save_value_file(t, path, bytes, append, force, room, lost) ==
  IF Exists(t, path) /\ ~append /\ ~force THEN Left(t, Refused("exists"))
  ELSE write_text(t, path, bytes, append, room, lost)

create_dir_all(t, path, lost) ==
  Confirmed(IF Blocked(t, path) THEN Left(t, Refused("io_error"))
            ELSE Left(MakeDirs(t, path), [ok |-> TRUE]), lost)

\* With force a path that is not there is passed over, and the guest looks for
\* it in its own file system, where nothing of the transaction is.  A directory
\* goes with all it holds.
ThereLocally(t, path) == Exists(t, path) /\ ~attached
remove_path(force, t, path, lost) ==
  IF force /\ ~ThereLocally(t, path) THEN Left(t, [ok |-> TRUE])
  ELSE IF ~Exists(t, path) THEN Left(t, io_tool_error(t, path))
  ELSE Confirmed(Left(Prune(t, path), [ok |-> TRUE]), lost)

find_records(t, root, contains, glob, kind_filter, max_depth) ==
  LET near == SelectSeq(Walk(t, root), LAMBDA p : Len(p) - Len(root) <= max_depth)
      Matches(p) == /\ find_name_matches(Spelling[Last(p)], contains, glob)
                    /\ kind_filter \in {"any", t[p].kind}
  IN IF ~Exists(t, root) THEN io_tool_error(t, root)
     ELSE [ok |-> TRUE,
           entries |-> Sorted(ToSet(Taken(SelectSeq(near, Matches), MaxFindEntries)), Before)]

\* Neither limit is told to the program.
search_records(t, root, matcher) ==
  LET Step(s, p) ==
        IF s.files_visited >= MaxSearchFiles \/ Len(s.matches) >= MaxSearchMatches THEN s
        ELSE IF ~IsFile(t, p) \/ Len(t[p].bytes) > MaxSearchFileBytes THEN s
        ELSE [files_visited |-> s.files_visited + 1,
              matches |-> IF bytes_look_binary(t[p].bytes) \/ ~is_match(matcher, t[p].bytes)
                          THEN s.matches
                          ELSE push_stone_search_line_matches(s.matches, p, t[p].bytes,
                                                              matcher, MaxSearchMatches)]
  IN IF EmptyNeedle(matcher) \/ ~Exists(t, root) THEN Failure
     ELSE [ok |-> TRUE,
           matches |-> FoldLeft(Step, [files_visited |-> 0, matches |-> <<>>],
                                Walk(t, root)).matches]

\* A path outside the mount is refused by the Gateway's client.
workspace_path(path) == ~attached \/ (path # <<>> /\ Head(path) = "app")

-----------------------------------------------------------------------------
(* Calls *)

Answers(op, args, left) ==
  /\ tree' = left.tree
  /\ answer' = [op |-> op, args |-> args, result |-> left.answer]
  /\ UNCHANGED <<cwd, attached>>

NoFilter == [given |-> FALSE]
Filters == {NoFilter} \cup [given : {TRUE}, value : Patterns]

\* dispatch_tool_json_with_host_rpc: the Gateway's answer, or the tool's.
Tool(tool, raw, max, content, mode, room, lost, left) ==
  Answers(tool, [raw |-> raw, max |-> max, content |-> content, mode |-> mode],
          IF remote_workspace_tool(raw)
          THEN gateway_workspace_request(tree, tool, raw, max, content, mode, room, lost)
          ELSE left)

ReadTool == \E raw \in RawPaths, offset, max \in Counts :
  Tool("read", raw, max, offset, "", 0, FALSE, Left(tree, read_tool(tree, raw, offset, max)))
WriteTool == \E raw \in RawPaths, content \in Texts, mode \in {"create", "replace", "append"},
            parents \in BOOLEAN, room \in Rooms, lost \in {FALSE, attached} :
  Tool("write", raw, 0, content, mode, room, lost,
       write_tool(tree, raw, content, mode, parents, room))
EditTool == \E raw \in RawPaths, old, new \in Texts, all \in BOOLEAN, room \in Rooms :
  Tool("edit", raw, 0, <<old, new>>, all, room, FALSE,
       edit_tool(tree, raw, old, new, all, room))
ListTool == \E raw \in RawPaths, max \in Counts :
  Tool("list", raw, max, "", "", 0, FALSE, Left(tree, list_tool(tree, raw, max)))
FindTool == \E raw \in RawPaths, max \in Counts, contains, glob \in Filters :
  Tool("find", raw, max, <<contains, glob>>, "", 0, FALSE,
       Left(tree, find_tool(tree, raw, contains, glob, max)))
SearchTool == \E raw \in RawPaths, max \in Counts, matcher \in Matchers :
  Tool("search", raw, max, matcher, "", 0, FALSE,
       Left(tree, search_tool(tree, raw, matcher, max)))

\* A call of a built-in on one path.
Builtin(op, script, more, Call(_, _)) ==
  LET path == resolve_script_path(script)
  IN Answers(op, [path |-> path, more |-> more],
             IF workspace_path(path) THEN Call(tree, path) ELSE Left(tree, Failure))

ReadText == \E script \in ScriptPaths, offset, max \in Counts, tail \in BOOLEAN :
  Builtin("read_text", script, <<offset, max, tail>>, LAMBDA t, p :
    Left(t, IF tail THEN read_tail(t, p, offset, max) ELSE read_text(t, p, offset, max)))
WriteText == \E script \in ScriptPaths, text \in Texts, append \in BOOLEAN,
               room \in Rooms, lost \in {FALSE, attached} :
  Builtin("write_text", script, <<text, append>>,
          LAMBDA t, p : write_text(t, p, text, append, room, lost))
Save == \E script \in ScriptPaths, text \in Texts, append, force \in BOOLEAN,
          room \in Rooms, lost \in {FALSE, attached} :
  Builtin("save", script, <<text, append, force>>,
          LAMBDA t, p : save_value_file(t, p, text, append, force, room, lost))
EditText == \E script \in ScriptPaths, old, new \in Texts, all \in BOOLEAN,
              room \in Rooms, lost \in {FALSE, attached} :
  Builtin("edit_text", script, <<old, new, all>>,
          LAMBDA t, p : edit_text_file(t, p, old, new, all, room, lost))

\* The paths one by one, up to the first that fails: two of them, of which the
\* reply to one may be lost.
OnPaths(op, scripts, lost, Call(_, _, _)) ==
  LET paths == [i \in 1 .. 2 |-> resolve_script_path(scripts[i])]
      One(t, i) == IF workspace_path(paths[i]) THEN Call(t, paths[i], lost = i)
                   ELSE Left(t, Failure)
      first == One(tree, 1)
  IN Answers(op, [paths |-> paths], IF first.answer.ok THEN One(first.tree, 2) ELSE first)

LostOf(n) == IF attached THEN 0 .. n ELSE {0}
Mkdir == \E scripts \in ScriptPaths \X ScriptPaths, lost \in LostOf(2) :
  OnPaths("mkdir", scripts, lost, create_dir_all)
Rm == \E scripts \in ScriptPaths \X ScriptPaths, force \in BOOLEAN, lost \in LostOf(2) :
  OnPaths("rm", scripts, lost, LAMBDA t, p, missed : remove_path(force, t, p, missed))
FindBuiltin == \E script \in ScriptPaths, glob \in Filters, depth \in Counts,
                  kind \in {"file", "dir", "any"} :
  Builtin("find_records", script, <<glob, kind, depth>>,
          LAMBDA t, p : Left(t, find_records(t, p, NoFilter, glob, kind, depth)))
SearchBuiltin == \E script \in ScriptPaths, matcher \in Matchers :
  Builtin("search_records", script, matcher,
          LAMBDA t, p : Left(t, search_records(t, p, matcher)))

\* The directory must be one of the guest's own.
Cd == \E script \in ScriptPaths :
  LET path == resolve_script_path(script)
      there == IsDir(tree, path) /\ ~attached
  IN /\ cwd' = IF there THEN path ELSE cwd
     /\ answer' = [op |-> "cd", args |-> path, result |-> [ok |-> there]]
     /\ UNCHANGED <<tree, attached>>

FilesNext ==
  \/ ReadTool \/ WriteTool \/ EditTool \/ ListTool \/ FindTool \/ SearchTool
  \/ ReadText \/ WriteText \/ Save \/ EditText \/ Mkdir \/ Rm
  \/ FindBuiltin \/ SearchBuiltin \/ Cd
-----------------------------------------------------------------------------
(* What the answers promise *)

Tools == {"read", "write", "edit", "list", "find", "search"}
FilesOf(t) == {p \in DOMAIN t : t[p].kind = "file"}
Bytes(t, p) == IF IsFile(t, p) THEN <<t[p].bytes>> ELSE <<>>
ChangedFiles == {p \in FilesOf(tree) \cup FilesOf(tree') : Bytes(tree, p) # Bytes(tree', p)}

\* However a path is spelled, a tool changes files only where it may write, or
\* in the transaction, and reads only where it may read (resolve,
\* root_allows, remote_workspace_tool_json).
ToolsKeepToTheirRoots ==
  [][answer'.op \in Tools =>
       /\ \A p \in DOMAIN tree \cup DOMAIN tree' :
            (p \notin DOMAIN tree \cap DOMAIN tree' \/ tree[p] # tree'[p]) =>
              Head(p) \in {"work", "result", "tmp"} \cup (IF attached THEN {"app"} ELSE {})
       /\ answer'.op = "read" /\ answer'.result.ok =>
            Head(answer'.result.path) \in Roots \ {"tmp"}]_filesVars

\* The file a call names, and the answers of a write that may have been done or
\* half done.
PathOf(op, args) ==
  IF op \notin Tools THEN args.path
  ELSE IF remote_workspace_tool(args.raw) THEN args.raw ELSE normalize_guest_path(args.raw)
Unsure == {Refused("io_error"), Refused("workspace_rpc_error")}

\* The text is written in full, or the answer says that it may be there in part;
\* what was there is kept when it is appended to, and was nothing when it is fresh.
WriteIsTold(result, path, text, appended, fresh) ==
  LET old == Bytes(tree, path)
      kept == IF appended /\ old # <<>> THEN old[1] ELSE <<>>
  IN /\ ChangedFiles \subseteq {path}
     /\ result.ok => Bytes(tree', path) = <<kept \o text>>
     /\ ChangedFiles # {} =>
          /\ result.ok \/ result \in Unsure
          /\ \E n \in 0 .. Len(text) : Bytes(tree', path) = <<kept \o Taken(text, n)>>
     /\ (result.ok \/ ChangedFiles # {}) /\ fresh => old = <<>>

\* As many replacements as the answer counts, the first of them at the first
\* match and the only one unless all are meant; or a first part of the new text.
EditIsTold(result, path, old, new, all) ==
  LET before == tree[path].bytes
      after == tree'[path].bytes
      first == NextMatch(before, old, 1)
      meant == replace(before, old, new, IF all THEN matches(before, old) ELSE 1)
  IN /\ ChangedFiles \subseteq {path}
     /\ ~result.ok /\ ChangedFiles # {} =>
          /\ result \in Unsure
          /\ IsUtf8(before) => \E n \in 0 .. Len(meant) : after = Taken(meant, n)
     /\ result.ok /\ IsUtf8(before) =>
          /\ first > 0
          /\ Len(after) = Len(before) + result.count * (Len(new) - Len(old))
          /\ Taken(after, first - 1 + Len(new)) = Taken(before, first - 1) \o new
          /\ ~all => Without(after, first - 1 + Len(new))
                       = Without(before, first - 1 + Len(old))

\* A success did to the file it names what it says, and nothing to any other;
\* an error leaves every file as it was, except that mkdir and rm keep what they
\* did before it, and that a write which failed, or whose reply was lost, may
\* have done a first part of what it should and then says so; nothing is written
\* over unless the call says so (write_tool, edit_tool, save_value_file,
\* edit_text_file, remove_path, gateway_workspace_request).
ChangeIsTold ==
  LET op == answer'.op  args == answer'.args  result == answer'.result
      path == PathOf(op, args)
  IN CASE op \in {"none", "mkdir", "cd", "read_text", "find_records", "search_records"}
                 \cup (Tools \ {"write", "edit"}) -> ChangedFiles = {}
       [] op = "rm" ->
            \A p \in ChangedFiles : /\ Bytes(tree', p) = <<>>
                                    /\ \E i \in 1 .. 2 : IsPrefix(args.paths[i], p)
       [] op = "write" ->
            WriteIsTold(result, path, args.content, args.mode = "append",
                        args.mode = "create" /\ ~attached)
       [] op = "write_text" ->
            WriteIsTold(result, path, args.more[1], args.more[2], FALSE)
       [] op = "save" ->
            WriteIsTold(result, path, args.more[1], args.more[2],
                        ~args.more[2] /\ ~args.more[3])
       [] op = "edit" ->
            EditIsTold(result, path, args.content[1], args.content[2], args.mode)
       [] op = "edit_text" ->
            EditIsTold(result, path, args.more[1], args.more[2], args.more[3])
ChangesAreTold == [][ChangeIsTold]_filesVars

\* Who is told of a limit gets everything below it: an answer that does not say
\* truncated has every file, entry or line there is, one that does is full; and
\* each holds only what is there, in order (find_tool, search_tool, list_tool,
\* find_records, search_records).  Of a search for a pattern with an anchor that
\* goes for the files which the pattern matches as a whole.
AnswersAreWhole ==
  [][LET op == answer'.op  args == answer'.args  result == answer'.result
         path == PathOf(op, args)
         InOrder(s) == \A i, j \in DOMAIN s : i < j => Before(s[i], s[j])
         limit == CASE op = "find" -> Least(args.max, MaxFindEntries)
                    [] op = "list" -> Least(args.max, MaxListEntries)
                    [] op = "search" -> Least(args.max, MaxSearchMatches)
                    [] OTHER -> MaxSearchMatches
         Named(p, contains, glob) == find_name_matches(Spelling[Last(p)], contains, glob)
         contents == IF OnAssets(path)
                     THEN [p \in {AssetPath(e) : e \in ToSet(Assets)} |->
                             (CHOOSE e \in ToSet(Assets) : AssetPath(e) = p).bytes]
                     ELSE [p \in FilesOf(tree) |-> tree[p].bytes]
         searched == {p \in DOMAIN contents : /\ IsPrefix(path, p)
                                              /\ Len(contents[p]) <= MaxSearchFileBytes
                                              /\ ~bytes_look_binary(contents[p])}
         lines(files, matcher) ==
           UNION {{<<p, n>> : n \in {m \in DOMAIN CutLines(contents[p]) :
                     is_match(matcher, trim_line_end(CutLines(contents[p])[m]))}} :
                  p \in files}
         whole(matcher) ==
           IF matcher.start \/ matcher.end
           THEN {p \in searched : is_match(matcher, contents[p])} ELSE searched
     IN (result.ok /\ op \in {"find", "list", "search", "find_records", "search_records"}) =>
        CASE op = "find" ->
               LET there == {p \in IF OnAssets(path) THEN DOMAIN contents ELSE DOMAIN tree :
                               /\ IsPrefix(path, p)
                               /\ Named(p, args.content[1], args.content[2])}
               IN /\ ToSet(result.entries) \subseteq there
                  /\ InOrder(result.entries)
                  /\ Len(result.entries) = Least(limit, Cardinality(there))
                  /\ result.truncated <=> Cardinality(there) > limit
          [] op = "list" /\ ~remote_workspace_tool(args.raw) ->
               /\ Len(result.entries) <= limit
               /\ \A i, j \in DOMAIN result.entries :
                    i < j => Rank[result.entries[i][1]] < Rank[result.entries[j][1]]
               /\ ~OnAssets(path) /\ ~result.truncated =>
                    Len(result.entries) = Len(Children(tree, path))
          [] op = "search" ->
               /\ ToSet(result.matches) \subseteq lines(searched, args.content)
               /\ Len(result.matches) = Cardinality(ToSet(result.matches))
               /\ Len(result.matches) <= limit
               /\ ~result.truncated =>
                    ToSet(result.matches) = lines(whole(args.content), args.content)
          [] op = "find_records" ->
               /\ InOrder(result.entries)
               /\ Len(result.entries) < MaxFindEntries =>
                    ToSet(result.entries) =
                      {p \in DOMAIN tree : /\ IsPrefix(path, p)
                                           /\ Len(p) - Len(path) <= args.more[3]
                                           /\ args.more[2] \in {"any", tree[p].kind}
                                           /\ Named(p, NoFilter, args.more[1])}
          [] op = "search_records" ->
               /\ ToSet(result.matches) \subseteq lines(whole(args.more), args.more)
               /\ Len(result.matches) <= limit
          [] OTHER -> TRUE]_filesVars
=============================================================================
