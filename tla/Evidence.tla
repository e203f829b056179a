------------------------------ MODULE Evidence ------------------------------
(***************************************************************************)
(* The evidence by which a stage of a workflow is done (stone_eval.rs):    *)
(* the contracts a program states, file_nonempty(), artifact(),            *)
(* file_valid(), command_succeeded(), stdout_nonempty(),                   *)
(* decision_recorded() and all_evidence(), what each of them finds in the  *)
(* workspace or in the outcome of the stage's last action, the claims of   *)
(* handlers, workflow_evidence(), and the advice given on a probe whose    *)
(* output is not enough.  Workflow takes the verdicts as given.            *)
(*                                                                         *)
(* A value is a pair of a type and what it holds, a text a sequence of     *)
(* characters in which a fixed wording is one character.  A file is        *)
(* looked at in one of two planes: the guest, that reads it itself, and    *)
(* the tool environment, where a shell script does.                        *)
(***************************************************************************)
EXTENDS Integers, Sequences, SequencesExt, FiniteSetsExt, Functions, TLC

CONSTANTS
    MaxSummary, MaxReferences, MaxReference,   \* 1024, 16, 256
    MaxPath, MaxArgv, MaxContracts,            \* 200, 64, 16
    MaxFields, MaxName, MaxQuestion,           \* 12, 64, 256
    MaxNeedles, MaxNeedle, MaxState,           \* 8, 128, 16
    MaxCode, MaxTail,                          \* 128, 640
    Identifier,                                \* what names are made of
    ToolPlane,                                 \* the text "/tmp/"
    Machine, Digits                            \* numbers of architectures, their base

Str(s) == <<"str", s>>
Flag(b) == <<"bool", b>>
IntV(n) == <<"int", n>>
List(s) == <<"list", s>>
Rec(f) == <<"rec", f>>
Is(v, type) == v[1] = type
Has(r, field) == field \in DOMAIN r[2]
HasOf(r, field, type) == Has(r, field) /\ Is(r[2][field], type)
Get(r, field) == r[2][field][2]
TextList(v) == Is(v, "list") /\ \A i \in DOMAIN v[2] : Is(v[2][i], "str")

Failed == [ok |-> FALSE]                      \* a ShellError
Done(v) == [ok |-> TRUE, value |-> v]

IsBlank(text) == ToSet(text) \subseteq {" "}    \* trim().is_empty()
Trim(text) ==
    LET ink == {i \in DOMAIN text : text[i] # " "}
    IN  IF ink = {} THEN <<>> ELSE SubSeq(text, Min(ink), Max(ink))
Within(text, max) == ~IsBlank(text) /\ Len(text) <= max
Shows(text, needle) ==
    \E i \in 0 .. Len(text) - Len(needle) : SubSeq(text, i + 1, i + Len(needle)) = needle
Joined(texts, by) ==
    FoldLeftDomain(LAMBDA all, i : all \o (IF i = 1 THEN <<>> ELSE by) \o texts[i], <<>>, texts)

\* Cut to max characters, the last or the first of which says so.
bounded_text(text, max) ==
    IF Len(text) <= max THEN text ELSE SubSeq(text, 1, max - 1) \o <<"~">>
bounded_tail_text(text, max) ==
    IF Len(text) <= max THEN text ELSE <<"~">> \o SubSeq(text, Len(text) - max + 2, Len(text))

-----------------------------------------------------------------------------
(* Contracts: a call has positional and named arguments, a named one being *)
(* a pair of its name and its value.                                       *)

\* The value given to a name, or what it is without.
Given(call, name, default) ==
    LET at == {i \in DOMAIN call.named : call.named[i][1] = name}
    IN  IF at = {} THEN default ELSE call.named[Min(at)][2]
\* Names that are known and given once, each with a value of its type.
NamedFit(call, types) ==
    /\ IsInjective([i \in DOMAIN call.named |-> call.named[i][1]])
    /\ \A i \in DOMAIN call.named :
          /\ call.named[i][1] \in DOMAIN types
          /\ Is(call.named[i][2], types[call.named[i][1]])

\* One positional path of some characters, not too many.
PathFits(call) ==
    Len(call.positional) = 1 /\ Is(call.positional[1], "str")
      /\ Within(call.positional[1][2], MaxPath)
Path(call) == call.positional[1][2]
Nothing == <<"nothing", 0>>

eval_file_nonempty_call(call) ==
    IF PathFits(call) /\ call.named = <<>>
    THEN Done([kind |-> "file_nonempty", path |-> Path(call)]) ELSE Failed

\* The only format is "elf", and only with it is there an architecture.
eval_artifact_call(call) ==
    LET format == Given(call, "format", Nothing)
        arch == Given(call, "arch", Nothing)
    IN  IF /\ PathFits(call)
           /\ NamedFit(call, [format |-> "str", arch |-> "str"])
           /\ format \in {Nothing, Str(<<"elf">>)}
           /\ arch # Nothing => format = Str(<<"elf">>) /\ arch[2] \in DOMAIN Machine
        THEN Done([kind |-> "artifact", path |-> Path(call), elf |-> format # Nothing, arch |-> arch])
        ELSE Failed

eval_file_valid_call(call) ==
    LET format == Given(call, "format", Nothing)
    IN  IF /\ PathFits(call)
           /\ NamedFit(call, [format |-> "str", nonempty |-> "bool"])
           /\ format \in {Nothing, Str(<<"bmp">>)}
        THEN Done([kind |-> "file_valid", path |-> Path(call), bmp |-> format # Nothing,
                   nonempty |-> Given(call, "nonempty", Flag(TRUE))[2]])
        ELSE Failed

eval_command_succeeded_call(call) ==
    IF /\ Len(call.positional) = 1 /\ call.named = <<>> /\ TextList(call.positional[1])
       /\ Len(call.positional[1][2]) \in 1 .. MaxArgv
    THEN Done([kind |-> "command", argv |-> call.positional[1][2]]) ELSE Failed

eval_stdout_nonempty_call(call) ==
    IF call.positional = <<>> /\ call.named = <<>> THEN Done([kind |-> "stdout"]) ELSE Failed

ProbeTools == {"read", "find", "search", "ensure_command", "run_linux", "run_complete"}

\* What a finding's evidence must show: at least one thing of three.
parse_workflow_finding_evidence_predicate(v) ==
    LET needles == CASE ~Has(v, "contains") -> <<>>
                     [] HasOf(v, "contains", "str") -> <<v[2].contains>>
                     [] OTHER -> Get(v, "contains")
        tool == IF Has(v, "tool") THEN Get(v, "tool") ELSE "any"
    IN  IF /\ Is(v, "rec")
           /\ DOMAIN v[2] \subseteq {"tool", "contains", "success"} /\ DOMAIN v[2] # {}
           /\ Has(v, "tool") => Is(v[2].tool, "str") /\ tool \in ProbeTools
           /\ Has(v, "contains") => Is(v[2].contains, "str") \/ TextList(v[2].contains)
           /\ Len(needles) <= MaxNeedles
           /\ \A i \in DOMAIN needles : Within(needles[i][2], MaxNeedle)
           /\ Has(v, "success") => Is(v[2].success, "bool")
           /\ Has(v, "tool") \/ Has(v, "success") \/ needles # <<>>
        THEN Done([tool |-> tool, contains |-> [i \in DOMAIN needles |-> needles[i][2]],
                   success |-> IF Has(v, "success") THEN v[2].success ELSE Nothing])
        ELSE Failed

\* A descriptor is a question, or a record of a kind, a question and a predicate.
DescriptorFits(d) ==
    \/ Is(d, "str") /\ Within(d[2], MaxQuestion)
    \/ /\ Is(d, "rec") /\ DOMAIN d[2] \subseteq {"kind", "question", "evidence"}
       /\ Has(d, "kind") => Is(d[2].kind, "str") /\ Get(d, "kind") \in {"text", "path", "file", "command"}
       /\ Has(d, "question") => Is(d[2].question, "str") /\ Within(Get(d, "question"), MaxQuestion)
       /\ Has(d, "evidence") => parse_workflow_finding_evidence_predicate(d[2].evidence).ok

IsName(text) == Len(text) \in 1 .. MaxName /\ ToSet(text) \subseteq Identifier

\* The fields of a decision: a list of names, or a record, whose keys are in the
\* sequence order, from the names to descriptors; under fields= as an action
\* states them, under resolved= as the runtime keeps them.
eval_decision_recorded_call(call) ==
    LET given == call.named[1][2]
        names == CASE call.named = <<>> -> <<>>
                   [] Is(given, "list") -> [i \in DOMAIN given[2] |-> given[2][i][2]]
                   [] OTHER -> call.named[1][3]
    IN  IF /\ call.positional = <<>> /\ Len(call.named) <= 1
           /\ call.named # <<>> =>
                 /\ call.named[1][1] \in {"fields", "resolved"}
                 /\ TextList(given) \/ Is(given, "rec")
                 /\ Is(given, "rec") => \A name \in DOMAIN given[2] : DescriptorFits(given[2][name])
           /\ Len(names) <= MaxFields
           /\ \A i \in DOMAIN names : IsName(names[i])
           /\ IsInjective(names)
        THEN Done([kind |-> "decision", fields |-> names,
                   resolved |-> call.named # <<>> /\ call.named[1][1] = "resolved"])
        ELSE Failed

\* A contract, or a handler: here what it will return.  all_evidence() takes
\* contracts, itself among them.
RECURSIVE eval_workflow_evidence_source(_)
eval_all_evidence_call(call) ==
    LET sources == [i \in DOMAIN call.positional |-> eval_workflow_evidence_source(call.positional[i])]
    IN  IF /\ call.named = <<>> /\ Len(sources) \in 1 .. MaxContracts
           /\ \A i \in DOMAIN sources : sources[i].ok
        THEN Done([kind |-> "all", sources |-> [i \in DOMAIN sources |-> sources[i].value]])
        ELSE Failed

eval_workflow_evidence_source(call) ==
    CASE call.name = "handler" -> Done([kind |-> "handler", returns |-> call.positional[1]])
      [] call.name = "file_nonempty" -> eval_file_nonempty_call(call)
      [] call.name = "artifact" -> eval_artifact_call(call)
      [] call.name = "file_valid" -> eval_file_valid_call(call)
      [] call.name = "command_succeeded" -> eval_command_succeeded_call(call)
      [] call.name = "stdout_nonempty" -> eval_stdout_nonempty_call(call)
      [] call.name = "decision_recorded" -> eval_decision_recorded_call(call)
      [] call.name = "all_evidence" -> eval_all_evidence_call(call)

-----------------------------------------------------------------------------
(* Verdicts.  A verdict is satisfied, tells why, and refers to what it was *)
(* seen in.                                                                *)

validate_workflow_evidence(satisfied, summary, references) ==
    IF Within(summary, MaxSummary) /\ (satisfied => references # <<>>)
    THEN Done([satisfied |-> satisfied, summary |-> summary, references |-> references])
    ELSE Failed

Number(n) == <<ToString(n)>>

\* A file is seen by its stat, that does not follow a link; a path outside of what
\* the plane has is an error.
file_regular_probe(file) ==
    CASE file.kind = "unreadable" -> Failed
      [] file.kind = "file" -> Done(<<Len(file.bytes)>>)
      [] OTHER -> Done(<<>>)
Size(file) == <<":size=">> \o Number(Len(file.bytes))

Unsatisfied(detail) == Done([satisfied |-> FALSE, detail |-> detail, reference |-> <<>>])
Satisfied(detail, reference) ==
    Done([satisfied |-> TRUE, detail |-> detail, reference |-> reference])

\* An ELF header, cut to what is looked at: a mark, the encoding, the machine.
HeaderLen == 4
ElfMark == 3
machine(bytes) == IF bytes[2] = 1 THEN bytes[3] + Digits * bytes[4] ELSE bytes[4] + Digits * bytes[3]

workflow_artifact_probe(file, elf, arch) ==
    LET bytes == file.bytes
    IN  CASE ~file_regular_probe(file).ok -> Failed
          [] file_regular_probe(file).value = <<>> -> Unsatisfied(<<"missing">>)
          [] bytes = <<>> -> Unsatisfied(<<"empty">>)
          [] ~elf -> Satisfied(<<"regular ">> \o Number(Len(bytes)), Size(file))
          [] Len(bytes) < HeaderLen \/ bytes[1] # ElfMark -> Unsatisfied(<<"no ELF">>)
          [] bytes[2] \notin {1, 2} -> Unsatisfied(<<"encoding ">> \o Number(bytes[2]))
          [] arch # Nothing /\ arch[2] \notin DOMAIN Machine -> Failed
          [] arch # Nothing /\ machine(bytes) # Machine[arch[2]] ->
                Unsatisfied(<<"machine ">> \o Number(machine(bytes)))
          [] OTHER -> Satisfied(<<"ELF ">> \o Number(Len(bytes)),
                                Size(file) \o <<":machine=">> \o Number(machine(bytes)))

BmpMark == <<1, 2>>

\* The guest's own look at a file.
GuestProbe(file, bmp, nonempty) ==
    CASE ~file_regular_probe(file).ok -> Failed
      [] file_regular_probe(file).value = <<>> -> Unsatisfied(<<"missing">>)
      [] nonempty /\ file.bytes = <<>> -> Unsatisfied(<<"empty">>)
      [] bmp /\ ~IsPrefix(BmpMark, file.bytes) -> Unsatisfied(<<"no BMP">>)
      [] OTHER -> Satisfied(Number(Len(file.bytes)), Size(file))

\* The script: test -f and the redirections follow links.  It exits with a message,
\* it may be stopped or fail with the words of a program it calls, and the request
\* that runs it may fail.
workflow_tool_environment_file_probe(file, bmp, nonempty, run) ==
    LET Exits(stderr) == Unsatisfied(IF IsBlank(stderr) THEN <<"probe failed">> ELSE stderr)
    IN  CASE run.kind = "lost" -> Failed
          [] run.kind = "stopped" -> Exits(run.stderr)
          [] file.kind \notin {"file", "link"} -> Exits(<<"missing">>)
          [] nonempty /\ file.bytes = <<>> -> Exits(<<"empty">>)
          [] bmp /\ ~IsPrefix(BmpMark, file.bytes) -> Exits(<<"no BMP">>)
          [] OTHER -> Satisfied(<<"tool ">> \o Number(Len(file.bytes)), <<":plane=tool">> \o Size(file))

\* With a Gateway, a path spelled from /tmp/ on is the tool environment's.
InToolPlane(path, world) == world.gateway /\ IsPrefix(ToolPlane, path)
workflow_file_valid_probe(source, world) ==
    IF InToolPlane(source.path, world)
    THEN workflow_tool_environment_file_probe(world.tool, source.bmp, source.nonempty, world.run)
    ELSE GuestProbe(world.file, source.bmp, source.nonempty)

\* What a probe of a path says, as evidence.
Probed(path, probe) ==
    IF ~probe.ok THEN Failed
    ELSE validate_workflow_evidence(probe.value.satisfied,
           <<"file ">> \o path \o (IF probe.value.satisfied THEN <<" valid ">> ELSE <<" not valid ">>)
             \o probe.value.detail,
           IF probe.value.satisfied THEN <<<<"file:">> \o path \o probe.value.reference>> ELSE <<>>)

\* The last action ran this very command and it did not fail; where there is no
\* exit code, ok alone says so.
workflow_command_evidence(outcome, argv) ==
    LET ok == Has(outcome, "ok") /\ Get(outcome, "ok")
        passed == ok /\ (HasOf(outcome, "exit_code", "int") => Get(outcome, "exit_code") = 0)
        Says(satisfied, why) ==
            validate_workflow_evidence(satisfied,
              bounded_text(<<"command ">> \o Joined([i \in DOMAIN argv |-> argv[i][2]], <<",">>) \o why,
                           MaxSummary),
              IF satisfied THEN <<<<"command:">>>> ELSE <<>>)
    IN  CASE outcome = Nothing \/ ~Has(outcome, "argv") -> Says(FALSE, <<" not run">>)
          [] ~TextList(outcome[2].argv) -> Failed
          [] Get(outcome, "argv") # argv -> Says(FALSE, <<" other">>)
          [] Has(outcome, "ok") /\ ~Is(outcome[2].ok, "bool") -> Failed
          [] OTHER -> Says(passed, IF passed THEN <<" succeeded">> ELSE <<" failed">>)

workflow_stdout_evidence(outcome) ==
    LET stdout == IF outcome # Nothing /\ Has(outcome, "stdout") THEN outcome[2].stdout ELSE Str(<<>>)
    IN  IF ~Is(stdout, "str") THEN Failed
        ELSE validate_workflow_evidence(stdout[2] # <<>>,
               <<"stdout ">> \o Number(Len(stdout[2])),
               IF stdout[2] # <<>> THEN <<<<"stdout:bytes=">> \o Number(Len(stdout[2]))>> ELSE <<>>)

\* What is wrong with the finding of a field: under fields= a text is enough, under
\* resolved= it is a record that says it is resolved, to what and why.
FindingProblem(findings, field, resolved) ==
    LET finding == findings[field]
        Holds(name, max) == HasOf(finding, name, "str") /\ Within(Get(finding, name), max)
    IN  CASE field \notin DOMAIN findings -> "missing"
          [] ~resolved ->
                IF Is(finding, "str") /\ Within(finding[2], 2 * MaxSummary) THEN "none" ELSE "invalid"
          [] ~Is(finding, "rec") \/ ~Holds("state", MaxState) \/ ~Holds("value", 2 * MaxSummary)
             \/ ~Holds("basis", MaxSummary) -> "invalid"
          [] Get(finding, "state") = <<"resolved">> -> "none"
          [] Get(finding, "state") = <<"unknown">> -> "unresolved"
          [] OTHER -> "invalid"

\* The last action is an explicit decision, and every field has its finding, in the
\* outcome or in what the runtime keeps.
workflow_decision_evidence(context, fields, resolved) ==
    LET outcome == context.outcome
        decided == /\ outcome # Nothing /\ HasOf(outcome, "kind", "str") /\ HasOf(outcome, "message", "str")
                   /\ Get(outcome, "kind") \in {<<"decision_recorded">>, <<"finish_requested">>}
                   /\ ~IsBlank(Get(outcome, "message"))
        findings == IF resolved THEN context.findings
                    ELSE IF HasOf(outcome, "findings", "rec") THEN Get(outcome, "findings") ELSE <<>>
        Of(problem) ==
            SelectSeq(fields, LAMBDA field : FindingProblem(findings, field, resolved) = problem)
        problems == SelectSeq(<<"missing", "unresolved", "invalid">>, LAMBDA p : Of(p) # <<>>)
        names == Joined(IF problems = <<>> THEN fields
                        ELSE FlattenSeq([i \in DOMAIN problems |-> Of(problems[i])]), <<", ">>)
    IN  CASE outcome # Nothing /\ \E f \in {"kind", "message"} : Has(outcome, f) /\ ~HasOf(outcome, f, "str") ->
                Failed
          [] ~decided -> validate_workflow_evidence(FALSE, <<"undecided">>, <<>>)
          [] problems # <<>> -> validate_workflow_evidence(FALSE, problems \o names, <<>>)
          [] OTHER -> validate_workflow_evidence(TRUE, <<"decided ">> \o names, <<<<"decision:">>>>)

\* A composite is satisfied with all of its contracts and tells of those, or of
\* the ones that are missing.
combine_workflow_evidence(evidence) ==
    LET done == SelectSeq(evidence, LAMBDA e : e.satisfied)
        satisfied == Len(done) = Len(evidence)
        told == IF satisfied THEN evidence ELSE SelectSeq(evidence, LAMBDA e : ~e.satisfied)
        references == IF satisfied THEN FlattenSeq([i \in DOMAIN evidence |-> evidence[i].references])
                      ELSE <<>>
    IN  validate_workflow_evidence(satisfied,
          bounded_text(<<ToString(Len(done)), "of ">>
                         \o Joined([i \in DOMAIN told |-> told[i].summary], <<"; ">>), MaxSummary),
          SubSeq(references, 1, Min({Len(references), MaxReferences})))

-----------------------------------------------------------------------------
(* Claims: workflow_evidence() makes the record that a handler returns,    *)
(* and the handler's return is read back.                                  *)

workflow_evidence_references(v) ==
    IF /\ TextList(v) /\ Len(v[2]) <= MaxReferences
       /\ \A i \in DOMAIN v[2] : Within(v[2][i][2], MaxReference)
    THEN Done([i \in DOMAIN v[2] |-> v[2][i][2]]) ELSE Failed

\* What the record of a failed action tells: its exit code and its code, and the
\* end of the first text that says something.
Diagnostic(record) ==
    LET Text(field) == IF HasOf(record, field, "str") THEN Trim(Get(record, field)) ELSE <<>>
        summary == IF HasOf(record, "explanation", "rec") /\ HasOf(record[2].explanation, "summary", "str")
                   THEN Trim(Get(record[2].explanation, "summary")) ELSE <<>>
        texts == SelectSeq(<<Text("stderr"), Text("message"), Text("reason"), summary>>,
                           LAMBDA text : text # <<>>)
        context == (IF HasOf(record, "exit_code", "int") THEN <<<<"exit ">>>> ELSE <<>>)
                     \o (IF HasOf(record, "code", "str") /\ Get(record, "code") # <<>>
                         THEN <<<<"code=">> \o bounded_text(Get(record, "code"), MaxCode)>> ELSE <<>>)
                     \o (IF texts # <<>> THEN <<bounded_tail_text(texts[1], MaxTail)>> ELSE <<>>)
    IN  <<"failed">> \o Joined(context, <<", ">>)

\* Done with whether it is satisfied and with a diagnostic that may be empty.
workflow_evidence_satisfaction(v) ==
    CASE Is(v, "bool") -> Done(<<v[2], <<>>>>)
      [] Is(v, "rec") /\ HasOf(v, "ok", "bool") ->
            Done(<<Get(v, "ok"), IF Get(v, "ok") THEN <<>> ELSE Diagnostic(v)>>)
      [] OTHER -> Failed

\* References of what is not satisfied are dropped, after they were judged.
eval_workflow_evidence_call(claim, summary, given) ==
    LET satisfaction == workflow_evidence_satisfaction(claim)
        references == workflow_evidence_references(given)
        satisfied == satisfaction.value[1]
        diagnostic == satisfaction.value[2]
    IN  IF ~Is(summary, "str") \/ ~satisfaction.ok \/ ~references.ok THEN Failed
        ELSE validate_workflow_evidence(satisfied,
               IF diagnostic = <<>> THEN summary[2]
               ELSE bounded_text(summary[2] \o <<"; ">> \o diagnostic, MaxSummary),
               IF satisfied THEN references.value ELSE <<>>)

workflow_evidence_value(evidence) ==
    Rec([kind |-> Str(<<"workflow_evidence">>), satisfied |-> Flag(evidence.satisfied),
         summary |-> Str(evidence.summary),
         evidence |-> List([i \in DOMAIN evidence.references |-> Str(evidence.references[i])])])

\* All four fields and no other, of their types.
parse_workflow_evidence(v) ==
    LET references == workflow_evidence_references(v[2].evidence)
    IN  IF /\ Is(v, "rec") /\ DOMAIN v[2] = {"kind", "satisfied", "summary", "evidence"}
           /\ v[2].kind = Str(<<"workflow_evidence">>)
           /\ Is(v[2].satisfied, "bool") /\ Is(v[2].summary, "str") /\ references.ok
        THEN validate_workflow_evidence(Get(v, "satisfied"), Get(v, "summary"), references.value)
        ELSE Failed

-----------------------------------------------------------------------------
(* The verdict on a source. *)

RECURSIVE invoke_workflow_evidence_source(_, _)
invoke_workflow_evidence_source(source, world) ==
    CASE source.kind = "handler" -> parse_workflow_evidence(source.returns)
      [] source.kind = "file_nonempty" ->
            LET found == file_regular_probe(world.file)
            IN  IF ~found.ok THEN Failed
                ELSE Probed(source.path, IF found.value = <<>> \/ found.value = <<0>> THEN Unsatisfied(<<"no">>)
                                         ELSE Satisfied(<<"exists">>, Size(world.file)))
      [] source.kind = "artifact" ->
            Probed(source.path, workflow_artifact_probe(world.file, source.elf, source.arch))
      [] source.kind = "file_valid" -> Probed(source.path, workflow_file_valid_probe(source, world))
      [] source.kind = "command" -> workflow_command_evidence(world.outcome, source.argv)
      [] source.kind = "stdout" -> workflow_stdout_evidence(world.outcome)
      [] source.kind = "decision" -> workflow_decision_evidence(world, source.fields, source.resolved)
      [] source.kind = "all" ->
            LET parts == [i \in DOMAIN source.sources |->
                            invoke_workflow_evidence_source(source.sources[i], world)]
            IN  IF \E i \in DOMAIN parts : ~parts[i].ok THEN Failed
                ELSE combine_workflow_evidence([i \in DOMAIN parts |-> parts[i].value])

-----------------------------------------------------------------------------
(* Probes: an outcome of tool for a field, whose predicate is a sequence   *)
(* of none or one, revision the times the field was probed before.         *)

TextFields == <<"content", "stdout_tail", "stderr_tail", "stdout", "stderr", "message">>
workflow_probe_summary(outcome) ==
    LET told == SelectSeq(TextFields, LAMBDA f : HasOf(outcome, f, "str") /\ ~IsBlank(Get(outcome, f)))
    IN  IF told = <<>> THEN <<>> ELSE bounded_text(Get(outcome, told[1]), 2 * MaxSummary)
workflow_probe_outcome_contains(outcome, needle) ==
    \E f \in ToSet(TextFields) : HasOf(outcome, f, "str") /\ Shows(Get(outcome, f), needle)
workflow_probe_content_truncated(outcome) ==
    HasOf(outcome, "content_truncated", "bool") /\ Get(outcome, "content_truncated")

\* The command prints all of the required text itself.  Of the generators, echo and
\* printf, the letter before the blank stands.
workflow_probe_generates_required_text(outcome, tool, predicate) ==
    LET command == Joined([i \in DOMAIN Get(outcome, "argv") |-> Get(outcome, "argv")[i][2]], <<" ">>)
    IN  /\ tool \in {"run_linux", "run_complete"} /\ predicate.contains # <<>>
        /\ HasOf(outcome, "argv", "list")
        /\ Shows(command, <<"echo", " ">>)
        /\ \A i \in DOMAIN predicate.contains : Shows(command, predicate.contains[i])

\* Output there must be, and all that the predicate asks; text of earlier probes,
\* matched, counts as long as it is not the command's own.
Assessed(spec, tool, outcome, matched) ==
    LET generated == spec # <<>> /\ workflow_probe_generates_required_text(outcome, tool, spec[1])
        shown(needle) == needle \in matched
                           \/ (~generated /\ workflow_probe_outcome_contains(outcome, needle))
        enough == /\ workflow_probe_summary(outcome) # <<>>
                  /\ spec # <<>> =>
                        /\ spec[1].tool \in {"any", tool}
                        /\ spec[1].success # Nothing => HasOf(outcome, "ok", "bool")
                                                        /\ outcome[2].ok = spec[1].success
                        /\ \A i \in DOMAIN spec[1].contains : shown(spec[1].contains[i])
    IN  IF enough /\ ~generated /\ ~workflow_probe_content_truncated(outcome)
        THEN "observed" ELSE "insufficient"

\* The warnings and the recommended tool, or "none".
workflow_probe_feedback(spec, tool, outcome, revision) ==
    LET insufficient == Assessed(spec, tool, outcome, {}) = "insufficient"
        truncated == workflow_probe_content_truncated(outcome)
        generated == spec # <<>> /\ workflow_probe_generates_required_text(outcome, tool, spec[1])
        literal == /\ tool = "search" /\ HasOf(outcome, "regex", "bool") /\ ~Get(outcome, "regex")
                   /\ HasOf(outcome, "needle", "str")
                   /\ ToSet(Get(outcome, "needle")) \cap {"|", "(", ")", "[", "]", "+", "?"} # {}
        empty == workflow_probe_summary(outcome) = <<>>
        expected == IF spec = <<>> THEN "any" ELSE spec[1].tool
        recommended == IF expected = "any" THEN tool ELSE expected
        wrong == expected \notin {"any", tool}
    IN  [warnings |-> (IF truncated THEN {"truncated"} ELSE {})
                        \cup (IF generated THEN {"generated"} ELSE {})
                        \cup (IF literal THEN {"literal"} ELSE {})
                        \cup (IF insufficient /\ revision >= 3 THEN {"repeated"} ELSE {}),
         tool |-> IF /\ insufficient \/ empty \/ truncated \/ generated \/ literal \/ wrong
                     /\ recommended \in ProbeTools
                  THEN recommended ELSE "none"]

-----------------------------------------------------------------------------
(* Laws *)

\* What a contract promises of the world, without the way it is looked up.
RECURSIVE Promised(_, _)
Promised(source, world) ==
    LET file == IF source.kind = "file_valid" /\ InToolPlane(source.path, world)
                THEN [world.tool EXCEPT !.kind = IF @ = "link" THEN "file" ELSE @] ELSE world.file
        Elf(order, number) ==
            LET low == number % Digits  high == number \div Digits
            IN  <<ElfMark, order>> \o (IF order = 1 THEN <<low, high>> ELSE <<high, low>>)
    IN  CASE source.kind = "handler" ->
                source.returns[2].satisfied = Flag(TRUE) /\ source.returns[2].evidence # List(<<>>)
          [] source.kind = "file_nonempty" -> file.kind = "file" /\ file.bytes # <<>>
          [] source.kind = "artifact" ->
                /\ file.kind = "file" /\ file.bytes # <<>>
                /\ source.elf =>
                      \E order \in {1, 2}, number \in 0 .. Digits ^ 2 - 1 :
                         /\ IsPrefix(Elf(order, number), file.bytes)
                         /\ source.arch # Nothing => number = Machine[source.arch[2]]
          [] source.kind = "file_valid" ->
                /\ file.kind = "file"
                /\ ~(InToolPlane(source.path, world) /\ world.run.kind = "stopped")
                /\ source.nonempty => file.bytes # <<>>
                /\ source.bmp => IsPrefix(BmpMark, file.bytes)
          [] source.kind = "command" ->
                /\ world.outcome # Nothing /\ HasOf(world.outcome, "argv", "list")
                /\ Get(world.outcome, "argv") = source.argv
                /\ HasOf(world.outcome, "ok", "bool") /\ Get(world.outcome, "ok")
                /\ ~(HasOf(world.outcome, "exit_code", "int") /\ Get(world.outcome, "exit_code") # 0)
          [] source.kind = "stdout" -> world.outcome # Nothing /\ HasOf(world.outcome, "stdout", "str")
                                       /\ Get(world.outcome, "stdout") # <<>>
          [] source.kind = "decision" ->
                /\ world.outcome # Nothing /\ HasOf(world.outcome, "kind", "str")
                /\ Get(world.outcome, "kind") # <<"still_running">>
                /\ HasOf(world.outcome, "message", "str") /\ ~IsBlank(Get(world.outcome, "message"))
                /\ \A i \in DOMAIN source.fields :
                      IF source.resolved
                      THEN /\ source.fields[i] \in DOMAIN world.findings
                           /\ world.findings[source.fields[i]]
                                = Rec([state |-> Str(<<"resolved">>), value |-> Str(<<"x">>),
                                       basis |-> Str(<<"x">>)])
                      ELSE HasOf(world.outcome, "findings", "rec")
                             /\ source.fields[i] \in DOMAIN Get(world.outcome, "findings")
          [] source.kind = "all" -> \A i \in DOMAIN source.sources : Promised(source.sources[i], world)

\* What may keep a contract that was taken from being judged: a file that cannot be
\* looked at, a lost request, a handler that returns no evidence, an outcome of
\* other types.
RECURSIVE MayFail(_, _)
MayFail(source, world) ==
    CASE source.kind = "handler" -> ~parse_workflow_evidence(source.returns).ok
      [] source.kind = "file_valid" /\ InToolPlane(source.path, world) -> world.run.kind = "lost"
      [] source.kind \in {"file_nonempty", "artifact", "file_valid"} -> world.file.kind = "unreadable"
      [] source.kind = "all" -> \E i \in DOMAIN source.sources : MayFail(source.sources[i], world)
      [] OTHER -> /\ world.outcome # Nothing
                  /\ \/ \E f \in {"stdout", "kind", "message"} :
                          Has(world.outcome, f) /\ ~Is(world.outcome[2][f], "str")
                     \/ Has(world.outcome, "ok") /\ ~Is(world.outcome[2].ok, "bool")
                     \/ Has(world.outcome, "argv") /\ ~TextList(world.outcome[2].argv)

\* A contract that is taken is judged, and satisfied exactly when the world is as it
\* says; then, and only then, it refers to what was seen, within the limits that are
\* set for what handlers say.
EvidenceIsEarned(call, world) ==
    LET Judged(source, verdict) ==
          IF ~verdict.ok THEN MayFail(source, world)
          ELSE /\ verdict.value.satisfied = Promised(source, world)
               /\ verdict.value.satisfied = (verdict.value.references # <<>>)
               /\ Len(verdict.value.references) <= MaxReferences
               /\ Within(verdict.value.summary, MaxSummary)
        Taken(source) ==
          source.ok => Judged(source.value, invoke_workflow_evidence_source(source.value, world))
    IN  Taken(eval_workflow_evidence_source(call))

\* What workflow_evidence() makes is evidence to who reads it back, unchanged.
ClaimsAreRead(claim, summary, given) ==
    LET Read(made) ==
          made.ok => /\ parse_workflow_evidence(workflow_evidence_value(made.value)) = made
                     /\ made.value.satisfied = (made.value.references # <<>>)
    IN  Read(eval_workflow_evidence_call(claim, summary, given))

\* A probe that is not enough is answered with advice of a tool that can be enough:
\* the one the predicate asks for, if it asks for one.  Text that was cut off or
\* that the command printed of its own is never enough.
AdviceHelps(descriptor, tool, outcome, revision) ==
    LET Said(spec, says, status) ==
          /\ status = "insufficient" =>
                IF spec # <<>> /\ spec[1].tool # "any" THEN says.tool = spec[1].tool
                ELSE tool \in ProbeTools => says.tool = tool
          /\ says.warnings \cap {"truncated", "generated", "repeated"} # {} => status = "insufficient"
          /\ status = "observed" /\ says.warnings = {} => says.tool = "none"
        Asked(spec) == Said(spec, workflow_probe_feedback(spec, tool, outcome, revision),
                            Assessed(spec, tool, outcome, {}))
        Parsed(predicate) == predicate.ok => Asked(<<predicate.value>>)
    IN  IF descriptor = Nothing THEN Asked(<<>>)
        ELSE Parsed(parse_workflow_finding_evidence_predicate(descriptor))
=============================================================================
