# Waymark: a TLA+ development

Waymark runs agent programs written in *Stone* inside a small VM. A Stone
program computes, reads and writes files, starts processes, asks models for
decisions, drives staged workflows, and starts child executions ("attempts")
that it supervises through scopes, compares by score and branches from
checkpoints. A host-side service, the *Gateway*, owns attempts, workspaces,
leases, checkpoints and runs; the code in this repository is its client. On the
host, an MCP server keeps a guest warm from call to call.

This directory models what is hard to test in that program: several actors whose
steps interleave, calls that fail half-way, clean-up that has to be right
whatever happened before, limits, and pure functions with many cases. TLC checks
the models on small instances, TLAPS proves the central properties for every
instance.

Source paths are under `src/crates/waymark-runtime/src/` unless they say
otherwise.

## 1. The system

### Components that are modelled

**Attempt scopes** (`stone_attempt_scope.rs`; the built-ins and
`close_attempt_scope` in `stone_eval.rs` 7240-9282; `stone_attempt_value.rs`).
*State:* per scope a `closed` flag and a list of children, each `joined` and
`resolved` or not; the outcomes and retained failures the program holds.
*Operations:* spawn, fork, branch, start, terminate, finish, report, join,
wait for any or all, add, accept, discard, retain a failure, close, and the close
of every open scope when the evaluation ends. *Interaction:* nearly every
operation is a Gateway call; children and their controllers run concurrently.
*Hard:* `close_attempt_scope` makes up to five calls per child and acts on what
the first one read; a call may be refused or lose its reply; a child may belong
to several scopes; a partly failed close is repeated. *Correct when* the marks
never claim more than the Gateway has done, and a clean-up that reports success
has left nothing.

**Selectors** (`stone_attempt_best.rs`, `stone_eval.rs` 8596-8932). *State:*
open, accepted or discarded, the retained candidate. *Operations:* create,
consider, accept, discard. *Hard:* the loser is discarded at the Gateway before
the winner is stored, and the program and other selectors may settle the same
child. *Correct when* the retained candidate is the best one decided on, losers
are reclaimed and what was accepted is merged.

**Semantic frontiers** (`stone_attempt_value.rs` 53-159, `stone_eval.rs`
7600-8046 and 9247-9282). *State:* per frontier a checkpoint and who released
it, and a list of at most 256 of them. *Operations:* create, branch, release,
release of the rest at the end. *Hard:* scopes must be closed before checkpoints
go, several frontiers may share a checkpoint, the list that drives the release is
also a bounded diagnostic. *Correct when* nothing is released under a live child
and a teardown without an error leaks nothing.

**VM supervisor** (`vm_supervisor.rs`, with the root's path through `task.rs`
and `gateway_runtime.rs` 225-273). *State:* Ready, Leased, Draining or Poisoned,
the generation, the root's thread, allocation domain and provider lease.
*Operations:* dispatch, spawn, initialise, attach, run, report, release, join,
decide. *Hard:* a panic or a failing call at each of these points. *Correct when*
a VM that takes a root owes nothing to an earlier one, and a success that the
host sees was reported.

**Workflows and their evidence** (`stone_eval.rs` 4530-6090 and
12059-14225).
*State:* the stage, its findings, probes, counters and reports; the outputs and
checkpoints of completed stages. *Operations:* declare, patch, run (admission of
inputs, evidence, action, evidence, repair, evidence, checkpoint, export),
publish. *Interaction:* handlers are program code; checkpoints, audits and reports
go to the Gateway; contracts look at files in the guest or in the tool
environment. *Hard:* findings are resolved on three paths over several attempts,
evidence grows stale with every repair, a checkpoint or a report may fail after
the stage has succeeded. *Correct when* nothing is resolved or completed without
evidence gathered after the last change, and reports tell what happened.

**External processes** (`linux_tools/process.rs`, `gateway_runtime.rs`
1409-1482). *State:* process, process id, capture files, handles and daemon
records, deadline. *Operations:* `run`, `run_complete` (`await run`), `run_wait`,
`run_status`, `run_terminate`, `start_daemon`, `stop_daemon`. *Hard:* a process
ends between any two looks at it, ids are used again, requests are refused or
lose their reply, time runs out. *Correct when* answers are true, only failed
calls leave anything behind, signals hit their own, calls with a timeout end.

**Host session** (`src/host/mcp/stone_mcp_server.py`, and the frame loop in
`server.rs`). *State:* the host's process and call, each guest's
frames, task and session. *Operations:* begin, start a guest, send, receive,
expire, fail, shut down; accept, refuse, finish, reply, leave. *Hard:* guests and
host crash anywhere, an answer may come after the deadline, a frame's id is never
compared. *Correct when* each call gets its own answer, once, in a session that
still has what earlier calls left there.

**Evaluator** (`stone_eval.rs` 397-2918 and 6142-6666, `stone_functions.rs`,
`stone_runtime_value.rs`). *State:* scopes of locals and files, caught errors,
async depth, the hook flag, the transition log, what a session keeps.
*Operations:* every construct, entered and left. *Hard:* control leaves a
construct by its end, `break`, `continue`, `return` or an error, at any depth,
also from within handlers and hooks. *Correct when* the state agrees with the
constructs being evaluated, handles reach their own files, a log of transitions
is whole.

**Agent loop and context** (`agent.rs`, `stone_context.rs`). *State:* counts,
trace and messages of an episode, runs that go on, the items of the working
memory with their revisions and sizes. *Operations:* rounds, turns, tool calls,
termination of runs, the several ways to end; write, read, project. *Hard:* an
episode ends in a dozen places, in the middle of an answer, and a run may go on
behind the model's back; three limits on the memory, with replaced and archived
items. *Correct when* trace, counts and result tell one story, runs are stopped
before the model hears of them, the memory counts what it holds and answers with
the best of it.

**Hot loops** (`stone_vm/`): loops the evaluator hands to a small VM or to a
native kernel over JSONL rows. *State:* a copy of the variables, or totals of the
kernel's own, and how far the loop has come. *Operations:* load, row, fall back,
commit. *Hard:* giving up in the middle, committing what an earlier row of a
failing loop has done, overflow. *Correct when* a program cannot tell the
difference.

**Files** (`tools.rs`, `stone_file_ops.rs` and the file built-ins of
`stone_eval.rs`, the requests of `gateway_runtime.rs`). *State:* a tree of files, the current
directory, whether a Gateway holds the workspace. *Operations:* read, write,
edit, list, find and search as tools, the built-ins of the same kind with `cd`,
`mkdir` and `rm`; `diff`, wildcards and tables as functions on texts. *Hard:* winding
paths, limits that cut answers, calls that fail after a file was opened. *Correct
when* a tool stays within its roots, errors leave the workspace alone, and an
answer is whole or says that it is not.

**Values** (`stone_builtins.rs`, calls in `stone_eval.rs`): arithmetic,
comparison, sorting, texts, lists, records, assignment through paths. Pure.
*Correct when* they keep the laws of `ValuesKeepTheirLaws` and `TextsSurvive`.

**Admission and correction** (`stone_admission.rs`, `stone_correction.rs`): what
a program may call, judged before it runs; names suggested for misspelt ones.
Pure. *Hard:* the whole text is judged, but names are bound in the order of
events; a correction may be applied to another text than it was made for.

**Documents** (`crates/asset-image`, `stone_json_schema.rs`,
`stone_json_view.rs`): the image of a task's files read from an unchecked device,
the schemas that answers must satisfy, and rows of JSON read without being
parsed. Pure. *Correct when* they are read as they were written.

### Components that are not modelled

| Component | Where | Why |
|---|---|---|
| parser | `stone_ast.rs`, `stone_frontend.rs`, `frontend.rs` | text to tree, no state; a model would repeat the grammar |
| run helpers | `stone_helpers.rs` | lookup of helper scripts by name, no state |
| help, display, hashes | `commands.rs`, `json.rs`, `stone_hash.rs`, printing of values | wording, layout, and library calls |
| VM-global state | `global_state.rs` and its audit | typed wrappers around a few statics |
| guest assembly | `lib.rs`, `crates/waymark` | entry points and wiring |
| wire formats | `gateway_env.rs`, `vsock.rs`, frame layouts | the effect of calls and frames is modelled, their bytes are not |
| text tools | `linux_tools/posix_tools.rs` | pure, each small, no state |
| benchmarks, examples, vendored crates | `src/host/bench`, `src/examples`, `src/vendor` | not part of the runtime |

Left out of the modelled components: the typed hooks of workflows that keep no
state, how an error is worded and how a clean-up error is attached to a program
error, the bounded diagnostics of the context, the checks of arguments of process
calls, `daemon_status` and `wait_port` (which only look), the optimiser of the
loop VM, rounding and infinities of floats, `isalpha`, `isalnum`, `lower`,
`upper`, display strings, and the cold one-shot mode of the host.

## 2. Modules

```
Gateway                   the attempt service, as its caller sees it (external)
   | EXTENDS
AttemptScope --INSTANCE--> AttemptSupervision   (abstract specification)
   |---- AttemptBest      selectors on top of scopes
   |---- SemanticFrontiers    checkpoints on top of scopes

VmSupervisor    Workflow    Processes    HostSession    Evaluator

Context  <---- Agent      an episode, and the memory its programs work with

Text  <---- Files ----.
LoopVm  --------------+-- MCData    what programs compute, one subject at a time
JsonlKernel  ---------'      |-- INSTANCE MCValues    (EXTENDS Values)
                             '-- INSTANCE MCSource    (INSTANCEs Admission, Correction,
                                    Evidence, AssetImage, JsonSchema, JsonView)

*_proofs     theorems about AttemptScope with AttemptBest and SemanticFrontiers
             (Attempt_proofs), VmSupervisor, Workflow, Processes, HostSession,
             Evaluator, Agent with Context, and LoopVm, JsonlKernel and
             Files with Text (Data_proofs)
MC*          instances for TLC
```

Definitions keep the names of the functions they model where there is one;
`PROJECT.json` maps each to its lines. Definitions under the heading "Faulty
variant" are used by no specification: each is a plausible mistake in the
definition after it, and some property of a run notices it.

### Attempts and checkpoints

`Gateway` is not code of this repository. It has the calls that `gateway_env.rs`
makes and as much of their effect as the evaluator relies on. Two constants keep
it from being more benign than it may be: `Faults` (a call is *refused*, without
effect, or *lost*, with its effect and without its reply) and `Lenient` (whether
repeating what is already done succeeds). A child may report, finish or lose its
controller at any moment.

`AttemptScope` has one action per built-in, because a built-in makes one Gateway
call and the evaluator is one thread; `attempt_spawn` with a scope is the action
`Spawn` that creates, starts and registers. `close_attempt_scope` is one action
per Gateway call - `Observe` (first read), `Cancel`, `AwaitChild`, `Recheck`
(second read), `RollBack`, then `EndClose` - with the function's local variables
in `closing`, so that children move between the calls. `EndProgram`, `EndScope`
and `EndEvaluation` are `close_open_attempt_scopes`. `FinishChild` tells no scope
that a child ended, `ResolveChild` marks it in *all* scopes, `ResolveOwn` only in
the scope being closed: the code's three different rules. Timeouts are choices.

`AttemptSupervision` is what scopes promise, without calls and faults: lives,
scopes, members, one verdict. `AttemptScope` implements it through the mapping
(`Life`, `Verdict`) at its end.

`AttemptBest` adds selectors; `Consider` is one step because it makes one Gateway
call, and a failing call leaves the selector as it was. `considered` is a history
variable. `SemanticFrontiers` adds frontiers, the bounded list (`Cap` is
`MAX_SEMANTIC_FRONTIER_DIAGNOSTICS`) and the teardown after the scopes.

`VmSupervisor` has one action per stretch between two calls that may fail;
`Panic` may strike on the root's thread in any of them. The supervisor's actions
and the root's alternate because the supervisor joins.

### Workflows

`Workflow` follows `workflow_run` from admission to publication: `CheckBefore`,
`Act`, `CheckAfterAction`, `Repair`, `CheckAfterRepair`, `Seal` (checkpoint and
export), `Return`, `PublishAudit`, `PublishReport`, with findings, probes and their
bases as the code keeps them. Handlers are program code and the outcome of an
action is any of `Outcomes`; evidence on the outcome and on findings is computed,
evidence a handler gives is free. `Evidence` is the other half, as functions: the
contracts a program states (`file_nonempty`, `artifact`, `file_valid`,
`command_succeeded`, `stdout_nonempty`, `decision_recorded`, `all_evidence`), what
each finds in the guest or, by a shell script, in the tool environment, what a
handler may claim, and the advice on a probe that is not enough.

### Processes, sessions, evaluator, agent

`Processes` has one action per request or system call; a process ends, a free id
is taken by another program, and a tick passes in between. `doomed` (a killed
process) is what makes a death certain.

`HostSession` has the host's thread (`Begin` to `Fail`) and any number of
guests; the pipe holds one frame each way. `piped` tells which guests still have
a host to write to, `memory` is what the client may count on.

`Evaluator` turns the evaluator's recursion into a stack of frames, one for each
construct, and a program into the choice of what to evaluate next. `Leave*`
actions are what the code does when control comes back by `flow`. The effect of a
`run()` is two steps with anything in between: the process ends (`Run`), helpers of the
program observe its record (`InvokeHelper`, `LeaveHelper`; they are functions, and may
start transitions inside the effect), and the effect is logged (`Observe`). `Effect` is
the rest: a model request, a run that was rejected, or one that failed.

`Agent` follows `agent.rs`: `StartRound`, `ModelAnswers`, `NextAction`, one
action for each tool, `TerminateActiveRun`, `ToolResult`, and the ways to end.
`Context` has `Write`, `Read` and `Project`, and the switch to a Gateway's memory.

### Data

`LoopVm` and `JsonlKernel` are state machines of two machines that run the same
loop: the VM or kernel row by row, and `Baseline`, the interpreter; `HandBack` is the
way back from a loop over files. `Files` has one action for each tool and built-in on a
tree; `Text` holds what they do to bytes. A write may be out of room (`Rooms`) after it
has emptied the file, and the Gateway's reply to a change may be lost after the change;
a pattern is a text with or without anchors. `Values`, `Admission`, `Correction`, `Evidence`, `AssetImage`,
`JsonSchema` and `JsonView` are operators with the laws they keep at the end.
`Admission` has two halves: `validate_program`, and a small evaluator that yields
every way a program may run, so that what is admitted can be held against what
happens.

## 3. What is checked

`CHECK_DEADLOCK FALSE` everywhere: evaluations, sessions and episodes end, a VM
may be poisoned for good, a subject of the data run is looked at once.

| Run (module, cfg) | Question and properties | Bounds and why they suffice |
|---|---|---|
| `pair` (MCAttemptScope_pair) | Is the bookkeeping truthful when every call can be refused or lost? `BookkeepingIsTrue`, `CleanupIsComplete`, `ImplementsSupervision` | two children of one scope, or one child that two scopes may own (`AtMostThree`): a pass fails for one child and succeeds for the other, closes are repeated, a scope meets a child that another has settled. `Lenient`; children are symmetric |
| `rank` (MCAttemptBest_rank) | Does a selector keep the best, and is what it decided carried out? `BestIsBest`, `DecisionsHold` | two children, two selectors that share them, two scores with ties, both objectives, two snapshots held at a time. Without faults; failing calls of scopes are in `pair`, and the proofs cover them for selectors |
| `teardown` (MCSemanticFrontiers_teardown) | Scopes before checkpoints, and an end? `CleanTeardownLeaksNothing`, `ChildrenBeforeCheckpoints`, `TeardownEnds` | three frontiers of one checkpoint and room for two, one child, every fault: the list overflows and a checkpoint is released twice |
| `evicted` (MCSemanticFrontiers_evicted) | Is every live frontier released? `EveryFrontierIsReleased`: **no** | two frontiers, room for one |
| `vm` (MCVmSupervisor) | Is a reused VM clean? `RootsAreApart`, `SuccessIsReported`, `DispatchSettles` | three dispatches of either kind: a leak can meet the next and the one after; every fault |
| `workflow` (MCWorkflow_workflow) | Is everything resolved, completed and published on evidence? `EvidenceIsReal`, `AdvanceIsProved`, `ReportIsHonest`, `PublicationAgrees`, `RunEnds` | two stages of four kinds (one with a predicate-backed and a plain finding, one that asks for the first, one judged by its command, one that asks for what is not declared), 18 outcomes, a patch, two runs, two attempts before the counter ends a stage without a bound |
| `data` (MCData_data) | Do the functions keep their laws, and the tools their promises? `LoopParity`, `JsonlParity`, `TextsSurvive`, `ValuesKeepTheirLaws`, `ProgramsAreJudged`, `DocumentsAreRead`, `ToolsKeepToTheirRoots`, `ChangesAreTold`, `AnswersAreWhole` | see below |
| `processes` (MCProcesses_processes) | Are answers true and is nothing left? `AnswersAreTrue`, `NothingIsLeftBehind`, `SignalsHitTheirOwn`, `CallsEnd` | two processes and two ids, both backends, every fault, timeouts of one and two ticks, a clock to two: each call can expire before, with and after the end of its process, and an id can be used again |
| `overdue` (MCProcesses_overdue) | Does a call with a timeout end when the clock is finer than a millisecond? `CallsEnd`: **no** | one process, two ticks to a millisecond |
| `session` (MCEvaluator_session) | Does the state agree with what is being evaluated? `StateMatchesFrames`, `HandlesReachTheirFile`, `ManagedFilesAreClosed`, `TransitionsAreWhole` | two evaluations of a session, five frames deep, two files, four transition events, one retry, six expressions and statements in all: every construct is left in every way from within every other, and a helper of one run starts another, with its hooks |
| `host` (MCHostSession_host) | Does every call get its own answer? `CallsAreApart`, `BindingsLast`, `CallsAreAnswered` | three calls, three guests, every fault: a late answer can meet the next call, and the one after |
| `agent` (MCAgent_agent) | Do trace, result, limits and memory agree? `EpisodeAccounts`, `RunsAreStopped`, `MemoryIsKept`, `AnswersAreBest` | limits (2,0), (0,2), (1,1), answers of up to two actions, two runs; three keys, room for two items and six bytes, four revisions. Runs and keys are symmetric. The memory is explored in the first action of a script only (`OneProgram`): no step of an episode looks at it |

The data run has one subject for each behaviour: every body the loop VM lowers
over all lists of up to three items of seven kinds, in three-bit integers, from
nine entries; the six shapes of the JSONL kernel with and without each list and
counter over two files of up to two and one rows that are good, lack or repeat a
field, overflow or are blank, and three shapes over files with a value without a path
behind them, in four-bit integers; a workspace with paths that are direct, winding and
refused, worked on by every tool and built-in in any order while it has at most
two files of four bytes and three more entries than its roots (`Kept`; limits are
two or three, so that each is met and passed, and the file system has room for three
bytes of a text or for none); all texts of up to four characters
for ranges, wildcards and differences, tables of up to two by two; the
functions on
values, with four-bit integers so that sums and products overflow, and floats of two
bits so that two integers round to one float; programs of two statements of
every kind around calls, awaits and bindings; errors and texts with every edit
away from a name; contracts in every form over every kind of file, outcome and
finding, with lengths around each (scaled-down) limit; images of up to two files
and every change of one of their bytes, whether or not their contents are said to begin
inside their table; schemas with one and two keywords over
values of every type; and rows of up to two fields with every kind of value,
repeated keys, blanks and escapes. States are told apart without the last answer (`Seen`), which
only the properties of steps look at.

What the less obvious properties say:

- `CleanupIsComplete`: a closed scope has resolved every child, a clean end has
  left no child active, and a child reported as discarded and clean has no
  controller that nobody asked to stop. It does not say that the controller is
  gone: a join that runs into its timeout is no error in the code.
- `EvidenceIsReal`: a stage finds every finding it asked for resolved, and a
  predicate-backed finding is resolved only by a probe that showed what its
  predicate needs, on a basis of attempts that probed it.
- `AdvanceIsProved` counts checks against actions and repairs: the last check came
  after the last change.
- `NothingIsLeftBehind` allows for calls that raised: the code leaves the process
  then, and says so.
- `BindingsLast` allows for a guest that died between two calls: it is replaced
  without a word (`stone_mcp_server.py:1180`).
- `TransitionsAreWhole`: events of one transition come in their order under an id of
  its own. A transition starts only when every other is complete or executes its run,
  and a run goes on only when what its helpers started is complete; an effect was
  executed exactly when the log says so, or will when its helpers are done.
- `LoopParity` allows a loop that fails to leave the variables as they were before
  it, where the interpreter leaves the rows done so far. It speaks of `Plain` loops,
  `JsonlParity` of `Tame` ones; on others VM and kernel differ from the interpreter
  (section 5). Of a loop over files that meets a value without a path `JsonlParity` does
  not say that it is as without the kernel, which it is not: it says that exactly the
  files before that value have been gone through twice, and nothing else has changed.
- `ValuesKeepTheirLaws`: equality and order are transitive on values that floats tell
  apart (`TellsApart`). An integer too wide for a float equals what it is rounded to,
  so two such integers equal one float and not each other.
- `DocumentsAreRead`: an image whose table reaches into its contents is refused, and a
  row reads as the parsed row does, field by field, where no key is repeated.
- `ProgramsAreJudged`: what admission refuses no run gets through; what it admits
  meets no unknown name except by an order of events; a correction that is applied
  changes the one use of the misspelt name; a contract is satisfied exactly when
  the world is as it says, in either plane.
- `ChangesAreTold`: a call that succeeds changed what it says and no more. One that
  reports an error has changed no file, but for what `rm` had removed by then, and for a
  write that failed or whose reply was lost: then the file it names holds a first part of
  what was meant, and the error is one of two that say so (`Unsure`).
- `AnswersAreWhole`: of a search for a pattern with an anchor it speaks of the files
  that match as a whole; the code passes over the others (section 5).

### Liveness and fairness

Fairness is assumed only of code whose every step ends, by a timeout or because it
waits for nobody.

- `TeardownEnds`: weak fairness of the clean-up and of the teardown, the steps of
  one thread whose Gateway calls carry a timeout. Nothing is assumed about the
  program, children or controllers.
- `DispatchSettles`: weak fairness of `Settle`, the supervisor and the root
  outside its task. The task may run for ever: the supervisor joins it without a
  timeout, and the property excludes that case.
- `RunEnds`: weak fairness of the kernel of a workflow between handlers and of the
  handlers' return; a handler that never returns is out of scope.
- `CallsEnd`: weak fairness of the call's own steps (`Serve`), of the clock, and of
  the death of a process that was sent SIGKILL. Processes are not assumed to end.
- `CallsAreAnswered`: weak fairness of the host's steps and of the clock. Nothing is
  assumed about guests.

### Findings

1. `evicted`: the list the teardown releases from is also the bounded diagnostic
   list. The 257th frontier pushes the oldest out, released or not, and its
   checkpoint stays held while the evaluation reports success
   (`stone_eval.rs:7787`; `docs/STONE_TYPED_WORKFLOWS.md:983` says that every
   frontier is released).
2. `overdue`: `run_complete` waits for what remains of its timeout, cut to whole
   milliseconds. With less than one left it asks for a wait of 0 ms, which is a
   wait without limit (`linux_tools/process.rs:366`, `gateway_runtime.rs:1476`;
   `docs/STONE_RUNTIME_OWNED_RUN_AWAIT.md:20` promises termination when the timeout
   expires).

## 4. What is proved

Eight modules of proofs, for every value of the constants that meets the
assumptions, and every behaviour.

**`Attempt_proofs`**, of scopes (any attempts and scopes, any faults, both readings of
repeated calls). The checked properties are not inductive: nothing in them says
why a pass without errors may close the scope. `Inv` adds `CleanupInv`: what the
bookkeeping means (`BookkeepingInv`), what a close in progress has established
(`ClosingInv`: while a pass is clean, every child behind it is resolved, and what
it read of the current child is still usable, because settling is final and a
controller asked to stop is not started again), and what the end of the evaluation
has visited (`EndingInv`). One group of lemmas says what a Gateway call can change
(`Evolves`), one lemma per built-in and per step of a close does the rest.
Results: `RecordsAreTrue` and `CleanupsAreComplete` (the two invariants of `pair`)
with their parts, `ClosedScopesAreFinal`, and `SupervisionImplemented`: every
behaviour implements `AttemptSupervision`. Assumptions: scopes are numbers, `None`
is neither a scope nor an attempt, `Faults` has only the two kinds.

Of frontiers: `Inv` goes on to hold, and `FrontierInv` adds where checkpoints are
(`CreatedInv`), how far the teardown is (`TeardownInv`), and that the list is
the youngest frontiers in order. Results: `CleanTeardownsLeakNothing`,
`ChildrenComeFirst`, `ReleasedAreReclaimed`, `DiagnosticsAccount`. Assumptions:
frontiers are positive numbers in creation order, `Cap` is positive.

Of selectors the module cannot use `Inv`: they settle children without telling
retained failures, which breaks a part of it (section 5). It proves what is left
(`RecordsInv`), that nothing a selector relies on is taken back (`Grows`), and
`SelectorInv` on top. Results: `BestStaysBest`, `LosersGone`, and, where the Gateway
refuses to merge a child twice (`~Lenient`), `AcceptedOnce` and
`DecisionsAreCarriedOut`. Assumption: scores are integers.

**`VmSupervisor_proofs`**: `VmInv` relates the VM's state, the step of the root and
the lease, domain and answer of each generation. Results: `RootsStayApart`,
`SuccessesAreReported`, `PoisonedVmsStayPoisoned`, `VmConsistency`. Assumption: the
bound on dispatches is positive.

**`Workflow_proofs`** (any stages, outcomes, bounds): five invariants on top of the
types, each with its own induction: `CountInv` (checks against attempts and repairs
at each point of a stage), `LedgerInv` (completed stages, reports and exports go
together), `PublishInv`, `HandoffInv` (each completed stage exported every finding it
declares), `ProbeInv` (finding, probe and trail of each field tell one story).
Results: `EvidenceHolds`, `AdvancesAreProved`, `ReportsAreHonest`,
`PublicationsAgree`. Assumptions: the types of declared stages and outcomes, no
needles without a predicate, a positive attempt limit.

**`Processes_proofs`** (any processes, ids, faults, timeouts): `CallInv` (what a call
has in hand at each step), `SpentInv` (a call that gives up has spent its timeout),
`OwnInv` (handles and capture files belong to whom they should), `PidInv` (a process
keeps its id until it is reaped). Results: `AnswersTrue`, `NothingLeftBehind`,
`SignalsOwn`. Assumptions: timeouts and slices are positive.

**`HostSession_proofs`** (any guests and calls, every fault): `FrameInv`, `TaskInv`,
`HistoryInv`, `HandInv` (until its frame is written nobody has the call; then exactly
one of request, evaluation and reply does, or it is lost), `LeftInv` (what outlives
a host), `MemoryInv`. Results: `CallsStayApart`, `SessionsLast`.

**`Evaluator_proofs`** (any names, errors and hooks, any depth, number of files,
events, retries, steps and evaluations, helpers and transitions nested at will): the
state of the evaluator is tied to a stack that every action moves, so the module says
first what a push and a pop do to the frames of a kind (`At`, `Scoped`, `HandlersUpTo`)
and to the sets of handles, then that every action is one of a few kinds of moves, and
only then that moves keep each part of `Inv`: `NestInv` (what may be on top of a hook, and that a helper is on top of a transition
only while that observes its run: without it the pop of a transition could take a frame
that others rest on); `TallyInv` (`StateMatchesFrames` of
any stack); `FileInv` (`HandlesReachTheirFile` is not inductive, since a file's id
starts anew with each evaluation: it needs every handle and every file of every scope
to agree on id and number, both below the next ones to be given out); `ManagedInv`
(`ManagedFilesAreClosed`, and that managed numbers were given out); `LogInv`
(transitions nest, so `TransitionsAreWhole` is not inductive: those on the stack have
started one after the other (`Ordered`), each agrees with the last event under its id
(`Agrees`), all others are complete (`Accounted`), and what was executed is what is
logged and the runs that are observed (`Watched`). That all but the top one observe
their runs follows from `NestInv`: hence a new one finds every other complete or
executing its run, and the one that goes on is the last that is not complete). Results:
`StacksAgree`, `HandlesAreRight`, `ManagedFilesClose`, `TransitionsStayWhole`,
`EvaluatorTypes`. Assumptions: bounds are naturals, `None` is no name and no error.

**`Agent_proofs`** (any limits, runs and batches): `AgentInv` says of every event of
the trace what its run is. `EpisodeInv` adds what has to be known of the trace's last
event in each phase (`Standing`), without which a result could be pushed after no call,
or an event after the end; that the messages are what the trace has shown in every phase
of `react`, not only when it asks; and what the result says. `ContextInv` adds to
`MemoryIsKept` that there are finitely many items and each is within its own limit: an
item's bytes are then a finite set, and bytes that are counted by differences are those
of the disjoint union (`BytesAdd`). It also says that no two items are of one revision.
Items ranked by relevance and revision are then in a strict total order (`Order`), so the
place of each is how many precede it, and the sorted sequence exists (`Placed`, `Sorted`).
What a projection has taken after n of them is `Taken`, which one more step keeps
(`TakenOne`): what was left out would not fit with the items ahead of it, and those that
come later rank below it. Results: `AgentIsTyped`, `ReportedRunsAreStopped`,
`EpisodesAddUp`, `MemoryIsAccounted`, `BestIsAnswered`. Assumptions: limits and sizes are
naturals, a text has finitely many tokens, `NoRun` is no run.

**`Data_proofs`**, of loops (any programs, any number of rows, any width of integers):
`LoopInv` relates the VM's copy of the variables to the rows done so far. While the VM
has the loop, its copy and the interpreter's variables after the same rows agree
(`Agree`); each kind of body keeps that, or gives the loop back at a row where nothing
of the row has been stored (`Parity`, one lemma for each body, statement by statement
for the general one). Result: `LoopsAgree`. Assumptions: 1 fits in an integer, the
programs are made of bodies and values of the shapes the VM lowers.

Of loops over JSONL rows (any files and rows, users, tags and width of integers): what
the interpreter does is nested, tags in statements in rows in files, each level going
on while the one below succeeds (`WhileOk`). `Done` names the function each such
level computes; it exists, is the only one (`DoneAgree`), and keeps what every item
keeps (`DoneWell`). In the middle is a lemma about one row: a body of any of the six
shapes that does not fail leaves what `RowIs` says, a kernel that does not refuse the
row leaves what `AddedIs` says, and from maps that agree these agree (`RowAlike`). A
kernel refuses a row for its fields before it has added anything; what it would add
and the interpreter could not is an overflow, which `Tame` excludes (`AddedRuns`).
`KernelGoesAlong` lifts this to the kernel's steps: between files the bindings are
those of the interpreter after the whole files (`AtStart`, `SameVars`), within one the
kernel's totals are those after the rows so far (`AgreeWith`), and between binding,
storing and counting the variables that are stored already are told from those that
are not (`Finished`). It needs that both maps have the same users after every row, not
only at the start. A pass may be the second one: it is told from the first by what it
starts with (`PassEntry`), which is what the whole files before the value without a path
leave, and `Tame` is asked of both. Result: `RowsAgree`. Assumptions: 1 fits in an integer; a row is a
finite sequence of fields whose values are of their types; loops have one of the six
shapes, at least one file, and start from variables of their types.

Of files (any tree, names, limits and texts): a path that has been normalised is of
names only, so what `resolve` lets through is below a root that allows it (`Under`),
and a tool changes what is below the path it resolved (`Differ`). Result:
`ToolsAreConfined`. That a call tells what it changed (`Tells`, one lemma for each tool
and built-in) needs the workspace to be a tree: every entry is a file or a directory
and has directories all the way above it (`WorkspaceIsSound`). Without it `edit_text`
could answer that it has edited a file when the write behind it failed on something in
the way, since it looks only at what it has read. Results: `WorkspacesStaySound`, and
`ChangesAreAsTold` from any workspace of that shape; `FreshWorkspaceIsSound` says that
the mounted directories alone are one. What an edit leaves follows from two lemmas on
texts: the matches that are counted do not overlap (`CountsAre`), and replacing the
first n of them changes the length n times by the difference (`RestLength`).
A write that fails may leave anything that is a first part of what was meant (`Rooms`),
and the error then is one that says so (`Unsure`), so that no other error may be
answered after a file was opened to write. Assumptions: calls are made with sequences of names and of characters.

Recursion in these modules is by functions over a bounded interval, and each is
unfolded once (`UpTo`, `CourseOfValues`): a statement about all of an interval that is
false has a least counterexample, the set of counterexamples being one of numbers. So
induction over data can be done for a definition at a time, and not once and for all.

Only model-checked: liveness (`TeardownEnds`, `DispatchSettles`, `RunEnds`, `CallsEnd`,
`CallsAreAnswered`; fairness is out of the prover's reach), and of the data run
`TextsSurvive`, `ValuesKeepTheirLaws`, `ProgramsAreJudged`, `DocumentsAreRead` and
`AnswersAreWhole`. They are laws of some sixty functions that compute by recursion,
folds or bits, each of which would need an induction of its own.

## 5. Assumptions, and what the models know of the code

**The Gateway** is atomic per call, settling is final, a settled attempt starts no
controller. `attempt_wait` polls, and its last poll is taken as one read. A Gateway
that calls a lease clean has released it. A run that is terminated is over.

**Left out of a modelled part.** The tree of `Files` has no symbolic links, a pattern
that does not compile is no pattern, and a removal that stops half-way is not modelled.
`must_run()` logs no transition and is no action of its own; its helpers are functions.
`Send` of `HostSession` is instantaneous: `write_frame` has no deadline
(`stone_mcp_server.py:1140`, `stone_mcp_server.py:1239`), so a guest that does not read
could hold a call, which `CallsAreAnswered` does not cover. The arithmetic of floats is
exact and without infinities, only conversions round. `ReadTable` reserves room for as
many entries as the header says (`Vec::with_capacity`) before it has read one; memory is
not modelled. The order of keys in a parsed row is not kept.

**Bounds** that are only the models': the dispatches of a VM, calls and guests of a
host, evaluations, frames and steps of a session, patches and runs of a workflow, the
clock of a call, revisions of the memory. The code's own limits appear scaled down
(`Cap`, `MaxItems`, `MaxBytes`, `MaxRead...`, and the constants of `Evidence`,
`JsonSchema` and `Correction`), so that they are met.

What follows was met while modelling. The models contain it, the properties are
stated so as to allow for it, and no run reports it.

*Attempts and the VM.* `attempt_spawn` creates and starts the child before it
registers it with the scope (`stone_eval.rs:7548`): in a closed scope the call fails
and the child lives on outside of every scope. A selector resolves children without
telling retained failures (`stone_eval.rs:8788`; `docs/STONE_LANGUAGE.md:206` says
that a retained failure is of an unresolved child). A selector whose incumbent was
settled elsewhere can replace it no more (`stone_eval.rs:8784`). With a lenient
Gateway a second selector accepts a child that another has accepted. A pass that
could not terminate a controller but discarded its child is unclean; the next skips
the child and closes the scope (`stone_eval.rs:9089`). The supervisor joins the root
without a timeout (`vm_supervisor.rs:249`).

*Workflows.* `workflow_patch` does not look again at the inputs of the replacement, nor
at those that name the stage it replaces (`stone_eval.rs:5496`;
`docs/STONE_TYPED_WORKFLOWS.md:667` says that each must identify an earlier stage): a
stage may ask for what nobody has, and fails when it starts. `HandoffIsResolved`
therefore speaks of unpatched workflows. With a Gateway, `file_valid()` of a path outside the workspace is judged in the tool
environment, while `file_nonempty()` and `artifact()` of the same path are errors
(`stone_eval.rs:5998`). The script's `test -f` follows links, the guest's own look
does not. `command_succeeded()` takes an outcome that is `ok` without an exit code.
The keywords suggested for `workflow_stage` (`stone_correction.rs` 16-98) lack `inputs`
and others that `stone_eval.rs` 4985-5050 accepts and `commands.rs:184` documents.

*Processes.* `run()` writes standard input before its timeout loop
(`linux_tools/process.rs:1789`): a child that does not read holds the call. A guest that
is killed leaves the children of its `run()` behind. A request error inside
`run_complete` loses the run's id.

*Evaluator and agent.* The targets of a comprehension are not restored when its body
fails. The transitions of a program that failed are not reported. A post hook that
raises discards the result of a run that goes on. Scripted control does not terminate
runs; a lost reply, or a Stone program that fails, leaves its run unknown to `react`.
A completion path that existed before the episode ends it on the first result that is
`ok` (`agent.rs:479`). With both limits 0 an episode may never end.

*Hot loops.* A body that assigns its own target, a counter whose map holds floats, and
an `append` to something that is no list behave differently in the VM
(`Plain`; `docs/STONE_LLM_COMPAT_ROADMAP.md:43` asks for equality). In the JSONL
kernel integer totals wrap, rows given as text apply no counter, and totals whose maps have
different users come out differently in its two variants
(`Tame`; `stone_vm/jsonl_runtime.rs:1281`). A loop over files that comes to a value
without a path is left to the interpreter, which starts with the first file again
(`stone_eval.rs:1247`, `stone_eval.rs:1217`): files before that value, totalled and stored
already, are counted twice, and then the loop fails at that value. Neither way binds
`rows`, the name the body gives to a file's rows, in the loop over files that runs
natively: the model has no such variable.

*Files and texts.* The search tool and `search()` look at a file only if their pattern
matches all of it as one text (`tools.rs:1283`, `stone_file_ops.rs:1148`): with `^foo`
a file whose later line begins with `foo` is passed over, and the answer is not called
truncated. A write empties the file when it opens it (`tools.rs:890`); if writing then
fails, the file holds a part and the call answers with an error, as it does when the
reply to a change in the Gateway's workspace is lost (`gateway_runtime.rs:1090`).
`search()` stops after its file or match limit, and `find()` after
its own, without a word. `rm(force=True)` through a Gateway asks the guest's file
system whether the path exists (`stone_eval.rs:3735`). A remote read ignores `offset`,
a remote write with `create` overwrites, a remote list ignores `max_entries`. A read
that ends inside a character drops it, or answers with bytes. `diff` ignores line ends.
A table whose row is one empty field loses that row.

*Values.* An integer that is compared with a float, or becomes one, is rounded as `as
f64` does (`Nearest`; `stone_builtins.rs:755`), so that equality is not transitive and
sorting such a mix puts it in no order. `<<` loses the bits it moves out
(`shift_value`), though `docs/STONE_LANGUAGE.md:120` calls integer overflow an error. `find()` and `index()`
answer in bytes. `unique()` and `set()` compare texts of values, so 1 and 1.0 differ,
while `==`, `in` and `where` call them equal. Sorting lists of lists panics when a
comparison fails (`stone_builtins.rs:1231`). An augmented assignment evaluates its
target's index twice (`stone_eval.rs:1055`). `s[a:b]` with `None` as a bound is an
error, `slice()` takes it.

*Admission and correction.* A function's name is a value that can be called under
another name, and is no data. The targets of a comprehension are looked up in all scopes
before its iterable is evaluated, and put back in the innermost one, or removed where
they were not bound (`stone_eval.rs:1816`, `stone_eval.rs:1839`). Indices of assignment targets are not validated; a variable
named like a built-in turns off the check of its keywords; defaults are evaluated in
the caller's scopes; functions see the scopes of their callers; the order of events is
not looked at. A correction may name a place in a string or a comment.

*Documents.* `const` and `enum` tell 1 from 1.0. A value deeper than the limit is taken
without being looked at. Of a repeated key the view takes the first and the parsed row
has the last (`stone_json_view.rs:516`); a view answers from rows that do not parse. An image whose label fills the first
4096 bytes is not found by `probe`.

## 6. What is left

- An abstract reusable VM after `docs/STONE_PROCESS_FORK_DESIGN.md`, and an abstract
  session that `HostSession` implements.
- The host session composed with the VM supervisor: a poisoned VM keeps its connection.
- Larger data: three stages in a workflow, rows of three fields, deeper programs for
  admission.
