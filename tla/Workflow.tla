------------------------------ MODULE Workflow ------------------------------
(***************************************************************************)
(* Stone's staged workflows: workflow() and workflow_patch() build a value,*)
(* workflow_run() takes its stages in order, and workflow_main() publishes *)
(* the report.  A stage is an action handler, perhaps a repair handler,    *)
(* and an evidence source; the kernel around them keeps the findings and   *)
(* probes of the stage, counts its attempts, checkpoints it when it was    *)
(* freshly completed and exports its findings to later stages.             *)
(*                                                                         *)
(* Handlers are user code and the evidence a handler or the workspace      *)
(* gives is whatever it gives: a free choice at every check.  Evidence on  *)
(* the latest outcome and on the retained findings is computed.  Texts,    *)
(* values of findings and sizes are left out; what a tool action shows is  *)
(* a set of required texts (Needle) and a quality.                         *)
(***************************************************************************)
EXTENDS Integers, Sequences

CONSTANTS
  StageName, Field, Needle, NoField, NoOutcome,
  Declared,      \* the stage declarations the program can name
  Outcomes,      \* what its action and repair handlers can return
  AttemptLimit,  \* the last value of the attempt counter (u32::MAX)
  MaxStages,     \* bound: stages of one workflow (64 in the code)
  MaxPatches,    \* bound: workflow_patch calls
  MaxRuns        \* bound: workflow_run and workflow_main calls

Quality == {"good", "wrong", "empty", "truncated", "generated", "barred"}

(***************************************************************************)
(* A stage declaration.  inputs are the stages it names, asks the typed    *)
(* fields it wants of each; fields are the findings decision_recorded(resolved=...)     *)
(* demands, backed those with an evidence predicate, needles the texts     *)
(* that predicate requires; free says that a handler or the workspace has  *)
(* a say in the evidence, command that the latest outcome has.             *)
(***************************************************************************)
StageType ==
  [name: StageName, inputs: SUBSET StageName, asks: [StageName -> SUBSET Field],
   fields: SUBSET Field, backed: SUBSET Field, needles: [Field -> SUBSET Needle],
   free: BOOLEAN, command: BOOLEAN, max: 0..AttemptLimit, repair: BOOLEAN,
   checkpoint: BOOLEAN]

(***************************************************************************)
(* What an action returns: the fields it interprets (probe_resolutions),   *)
(* the values it reports (finding_values), its finding_updates, the field  *)
(* its tool call probed, what that call showed and how; decision says that *)
(* it recorded a decision with a message, passed that the command the      *)
(* stage asks for exited 0.                                                *)
(***************************************************************************)
OutcomeType ==
  [decision: BOOLEAN, passed: BOOLEAN, resolves: SUBSET Field, values: SUBSET Field,
   updates: [Field -> {"none", "resolved", "unknown"}],
   field: Field \cup {NoField}, quality: Quality, shows: SUBSET Needle]

ASSUME DeclaredAssumption ==
  /\ Declared \subseteq StageType
  /\ \A st \in Declared :
       st.backed \subseteq st.fields /\ \A f \in Field \ st.backed : st.needles[f] = {}
ASSUME OutcomesAssumption == Outcomes \subseteq OutcomeType
ASSUME BoundsAssumption ==
  /\ AttemptLimit \in Nat \ {0} /\ MaxStages \in Nat /\ MaxPatches \in Nat /\ MaxRuns \in Nat
ASSUME NoneAssumption == NoField \notin Field /\ NoOutcome \notin Outcomes

VARIABLES
  workflow,   \* the workflow value the program holds: a sequence of stages
  patches,    \* the number of its patches
  runs,       \* workflow_run calls made (bounded by MaxRuns)
  phase,      \* where the program is
  idx,        \* the stage being run
  attempts, repairs, checks,  \* its counters
  finding,    \* its finding_state
  probe,      \* its probe_state
  outcome,    \* its latest_outcome
  outputs,    \* stage_outputs: the fields each completed stage exports resolved
  completed,  \* the names of the completed stages, in order
  reports,    \* the stage reports
  verdict,    \* what workflow_run returned: "none", "ok", "failed", "error"
  audit,      \* the Gateway's requirement.audit record
  published,  \* the last attempt_report
  trail       \* history: what the stage's tool calls really showed of each field

stage == <<attempts, repairs, checks, finding, probe, outcome, trail>>
program == <<workflow, patches, runs>>
ledger == <<outputs, completed, reports>>
gateway == <<audit, published>>
vars == <<program, phase, idx, stage, ledger, verdict, gateway>>

NoFinding == [state |-> "none", by |-> "none", basis |-> <<>>]
NoProbe == [status |-> "none", bases |-> <<>>, matched |-> {}]
NoTrail == [shown |-> {}, at |-> {}, latest |-> "none"]

Current == workflow[idx]
Names(w) == {w[i].name : i \in DOMAIN w}

-----------------------------------------------------------------------------
(* Building the workflow value *)

\* The declaration order and the typed inputs workflow() checks.
AdmitsInputs(w, i) ==
  \A n \in w[i].inputs :
    \E j \in 1..(i - 1) : w[j].name = n /\ w[i].asks[n] \subseteq w[j].fields

\* Faulty variant: typed fields are not compared with the producer's contract.
AdmitsWorkflowByName(w) ==
  /\ Len(w) \in 1..MaxStages
  /\ \A i \in DOMAIN w : w[i].inputs \subseteq {w[j].name : j \in 1..(i - 1)}
  /\ \A i, j \in DOMAIN w : w[i].name = w[j].name => i = j

AdmitsWorkflow(w) ==
  /\ Len(w) \in 1..MaxStages
  /\ \A i \in DOMAIN w : AdmitsInputs(w, i)
  /\ \A i, j \in DOMAIN w : w[i].name = w[j].name => i = j

Candidates == UNION {[1..n -> Declared] : n \in 1..MaxStages}

Compose(w) ==
  /\ phase = "compose" /\ workflow = <<>>
  /\ AdmitsWorkflow(w)
  /\ workflow' = w
  /\ UNCHANGED <<patches, runs, phase, idx, stage, ledger, verdict, gateway>>

\* workflow_patch: the replacement takes the target's place and must not
\* collide with another stage.  Its inputs, and those that name the target,
\* are not looked at again.
Patch(target, replacement) ==
  /\ phase = "compose" /\ patches < MaxPatches
  /\ \E i \in DOMAIN workflow :
       /\ workflow[i].name = target
       /\ replacement.name # target => replacement.name \notin Names(workflow)
       /\ workflow' = [workflow EXCEPT ![i] = replacement]
  /\ patches' = patches + 1
  /\ UNCHANGED <<runs, phase, idx, stage, ledger, verdict, gateway>>

-----------------------------------------------------------------------------
(* Evidence *)

DecisionHolds(st) ==
  st.fields # {} =>
    /\ outcome # NoOutcome /\ outcome.decision
    /\ \A f \in st.fields : finding[f].state = "resolved"

\* All the stage's contracts together; says is what its handler or the
\* workspace answers this time.
Evidence(st, says) ==
  /\ st.free => says
  /\ st.command => outcome # NoOutcome /\ outcome.passed
  /\ DecisionHolds(st)

-----------------------------------------------------------------------------
(* What the kernel retains of an action *)

\* The text the command itself prints does not count as observed.
Generated(st, f, o) == f \in st.backed /\ st.needles[f] # {} /\ o.quality = "generated"

Matched(st, f, o) ==
  probe[f].matched \cup (IF Generated(st, f, o) THEN {} ELSE o.shows \cap st.needles[f])

Sufficient(st, f, o) ==
  /\ o.quality \notin {"empty", "truncated"}
  /\ f \in st.backed =>
       /\ o.quality # "wrong"
       /\ st.needles[f] \subseteq Matched(st, f, o)
       /\ ~Generated(st, f, o)

LastBases(s) == IF Len(s) > 3 THEN SubSeq(s, Len(s) - 2, Len(s)) ELSE s

Observation(st, f, o) ==
  [status  |-> IF Sufficient(st, f, o) THEN "observed" ELSE "insufficient",
   bases   |-> Append(LastBases(probe[f].bases), attempts),
   matched |-> Matched(st, f, o)]

\* finding_state after the resolutions, the values and the updates of o, in
\* that order.
FindingsAfter(o) ==
  [f \in Field |->
     IF o.updates[f] # "none"
       THEN [state |-> o.updates[f], by |-> "update", basis |-> <<>>]
     ELSE IF f \in o.values
       THEN [state |-> "resolved", by |-> "value", basis |-> <<attempts - 1>>]
     ELSE IF f \in o.resolves
       THEN [state |-> "resolved", by |-> "probe", basis |-> probe[f].bases]
     ELSE finding[f]]

\* The field of which o leaves a new observation: none when the same action
\* resolved it.
ProbedField(o) ==
  IF o.field = NoField \/ FindingsAfter(o)[o.field].state = "resolved"
    THEN NoField ELSE o.field

ProbesAfter(st, o) ==
  [f \in Field |->
     IF f = ProbedField(o) THEN Observation(st, f, o)
     ELSE IF f \in o.resolves THEN [probe[f] EXCEPT !.status = "resolved"]
     ELSE probe[f]]

\* The errors of merge_workflow_finding_updates: anything else ends the run.
Accepts(st, o) ==
  /\ o.resolves \cup o.values \cup {f \in Field : o.updates[f] # "none"} \subseteq st.fields
  /\ \A f \in o.resolves : probe[f].status = "observed"
  /\ o.values # {} => outcome # NoOutcome /\ o.values \cap st.backed = {}
  /\ \A f \in st.backed : o.updates[f] # "resolved"
  /\ o.field # NoField =>
       /\ o.field \in st.fields
       /\ IF FindingsAfter(o)[o.field].state = "resolved"
            THEN o.field \in o.resolves
            ELSE o.quality # "barred"

\* History, not code: what the tool calls of this stage really showed.
TrailAfter(st, o) ==
  [f \in Field |->
     IF f = ProbedField(o)
       THEN [shown |-> trail[f].shown \cup (IF o.quality = "generated" THEN {} ELSE o.shows),
             at |-> trail[f].at \cup {attempts}, latest |-> o.quality]
       ELSE trail[f]]

Merge(st, o) ==
  /\ Accepts(st, o)
  /\ finding' = FindingsAfter(o)
  /\ probe' = ProbesAfter(st, o)
  /\ trail' = TrailAfter(st, o)
  /\ outcome' = o

-----------------------------------------------------------------------------
(* Running the stages *)

\* The state a stage starts with: local to one turn of run_workflow's loop, and
\* gone when it returns.
FreshStage ==
  /\ attempts' = 0 /\ repairs' = 0 /\ checks' = 0
  /\ finding' = [f \in Field |-> NoFinding]
  /\ probe' = [f \in Field |-> NoProbe]
  /\ outcome' = NoOutcome
  /\ trail' = [f \in Field |-> NoTrail]

StartRun ==
  /\ phase \in {"compose", "over"} /\ workflow # <<>> /\ runs < MaxRuns
  /\ runs' = runs + 1
  /\ phase' = "pre" /\ idx' = 1
  /\ FreshStage
  /\ outputs' = <<>> /\ completed' = <<>> /\ reports' = <<>>
  /\ verdict' = "none"
  /\ UNCHANGED <<workflow, patches, gateway>>

\* The program builds another workflow value between two runs.
Rebuild ==
  /\ phase = "over" /\ runs < MaxRuns
  /\ phase' = "compose"
  /\ UNCHANGED <<program, idx, stage, ledger, verdict, gateway>>

ReportAs(status, checked) ==
  reports' = Append(reports, [name |-> Current.name, status |-> status, attempts |-> attempts,
                              repairs |-> repairs, checks |-> checked])

StageOutput(st) == {f \in st.fields : finding[f].state = "resolved"}

Export ==
  /\ outputs' = [n \in DOMAIN outputs \cup {Current.name} |->
                   IF n = Current.name THEN StageOutput(Current) ELSE outputs[n]]
  /\ completed' = Append(completed, Current.name)

\* The stage is exported and listed, and the next one begins.
Advance(status, checked) ==
  /\ Export
  /\ ReportAs(status, checked)
  /\ FreshStage
  /\ idx' = idx + 1
  /\ IF idx = Len(workflow)
       THEN phase' = "returned" /\ verdict' = "ok"
       ELSE phase' = "pre" /\ UNCHANGED verdict

\* The run ends with a failed report.
GiveUp(status) ==
  /\ ReportAs(status, checks)
  /\ phase' = "returned" /\ verdict' = "failed"
  /\ FreshStage
  /\ UNCHANGED <<idx, outputs, completed>>

CheckBefore(says) ==
  /\ phase = "pre"
  /\ IF Evidence(Current, says)
       THEN Advance("already_satisfied", checks + 1)
       ELSE /\ phase' = "action" /\ attempts' = 1 /\ checks' = checks + 1
            /\ UNCHANGED <<idx, repairs, finding, probe, outcome, trail, ledger, verdict>>
  /\ UNCHANGED <<program, gateway>>

Act(o) ==
  /\ phase = "action"
  /\ Merge(Current, o)
  /\ phase' = "acted"
  /\ UNCHANGED <<program, idx, attempts, repairs, checks, ledger, verdict, gateway>>

\* The next attempt, or the end of the stage.
NextAttempt ==
  IF Current.max # 0 /\ attempts >= Current.max
    THEN phase' = "failing" /\ UNCHANGED <<idx, attempts, ledger, verdict>>
    ELSE /\ attempts < AttemptLimit
         /\ attempts' = attempts + 1 /\ phase' = "action"
         /\ UNCHANGED <<idx, ledger, verdict>>

CheckAfterAction(says) ==
  /\ phase = "acted"
  /\ checks' = checks + 1
  /\ IF Evidence(Current, says)
       THEN phase' = "sealing" /\ UNCHANGED <<idx, attempts, ledger, verdict>>
     ELSE IF Current.repair
       THEN phase' = "repair" /\ UNCHANGED <<idx, attempts, ledger, verdict>>
     ELSE NextAttempt
  /\ UNCHANGED <<program, repairs, finding, probe, outcome, trail, gateway>>

\* Faulty variant: the check of the action stands for the repaired stage.
RepairUnchecked(o) ==
  /\ phase = "repair"
  /\ Merge(Current, o)
  /\ repairs' = repairs + 1 /\ phase' = "sealing"
  /\ UNCHANGED <<program, idx, attempts, checks, ledger, verdict, gateway>>

\* Faulty variant: a repair that resolves nothing is called again at once.
RepairAgain(o) ==
  /\ phase = "repair"
  /\ Merge(Current, o)
  /\ IF o.resolves = {} THEN UNCHANGED <<phase, repairs>>
     ELSE repairs' = repairs + 1 /\ phase' = "repaired"
  /\ UNCHANGED <<program, idx, attempts, checks, ledger, verdict, gateway>>

Repair(o) ==
  /\ phase = "repair"
  /\ Merge(Current, o)
  /\ repairs' = repairs + 1 /\ phase' = "repaired"
  /\ UNCHANGED <<program, idx, attempts, checks, ledger, verdict, gateway>>

CheckAfterRepair(says) ==
  /\ phase = "repaired"
  /\ checks' = checks + 1
  /\ IF Evidence(Current, says)
       THEN phase' = "sealing" /\ UNCHANGED <<idx, attempts, ledger, verdict>>
       ELSE NextAttempt
  /\ UNCHANGED <<program, repairs, finding, probe, outcome, trail, gateway>>

\* Faulty variant: the stage is listed before its checkpoint is known.
SealEarly(created) ==
  /\ phase = "sealing"
  /\ IF Current.checkpoint /\ ~created
       THEN /\ Export
            /\ ReportAs("checkpoint_failed", checks)
            /\ FreshStage
            /\ phase' = "returned" /\ verdict' = "failed"
            /\ UNCHANGED idx
       ELSE Advance("completed", checks)
  /\ UNCHANGED <<program, gateway>>

\* A freshly completed stage is checkpointed if it asks for it.
Seal(created) ==
  /\ phase = "sealing"
  /\ IF Current.checkpoint /\ ~created
       THEN GiveUp("checkpoint_failed")
       ELSE Advance("completed", checks)
  /\ UNCHANGED <<program, gateway>>

Fail ==
  /\ phase = "failing"
  /\ GiveUp("failed")
  /\ UNCHANGED <<program, gateway>>

\* A handler raises, an evidence probe fails, an outcome is refused or the
\* attempt counter is exhausted: the reports so far are lost.
Abort ==
  /\ phase \in {"pre", "action", "acted", "repair", "repaired"}
  /\ phase' = "over" /\ verdict' = "error"
  /\ outputs' = <<>> /\ completed' = <<>> /\ reports' = <<>>
  /\ FreshStage
  /\ UNCHANGED <<program, idx, gateway>>

-----------------------------------------------------------------------------
(* Publishing the report *)

\* workflow_run, or workflow_main without a Gateway.
Return ==
  /\ phase = "returned"
  /\ phase' = "over"
  /\ UNCHANGED <<program, idx, stage, ledger, verdict, gateway>>

\* Faulty variant: the report goes out whether or not the audit was kept.
PublishAuditLoosely(kept) ==
  /\ phase = "returned"
  /\ audit' = IF kept THEN (IF verdict = "ok" THEN "verified" ELSE "contradicted") ELSE audit
  /\ phase' = "audited"
  /\ UNCHANGED <<program, idx, stage, ledger, verdict, published>>

PublishAudit(kept) ==
  /\ phase = "returned"
  /\ IF kept
       THEN /\ phase' = "audited"
            /\ audit' = IF verdict = "ok" THEN "verified" ELSE "contradicted"
            /\ UNCHANGED verdict
       ELSE phase' = "over" /\ verdict' = "error" /\ UNCHANGED audit
  /\ UNCHANGED <<program, idx, stage, ledger, published>>

PublishReport(kept) ==
  /\ phase = "audited"
  /\ phase' = "over"
  /\ IF kept
       THEN /\ published' = IF verdict = "ok" THEN "succeeded" ELSE "failed"
            /\ UNCHANGED verdict
       ELSE verdict' = "error" /\ UNCHANGED published
  /\ UNCHANGED <<program, idx, stage, ledger, audit>>

Init ==
  /\ workflow = <<>> /\ patches = 0 /\ runs = 0
  /\ phase = "compose" /\ idx = 1
  /\ attempts = 0 /\ repairs = 0 /\ checks = 0
  /\ finding = [f \in Field |-> NoFinding]
  /\ probe = [f \in Field |-> NoProbe]
  /\ outcome = NoOutcome
  /\ trail = [f \in Field |-> NoTrail]
  /\ outputs = <<>> /\ completed = <<>> /\ reports = <<>>
  /\ verdict = "none" /\ audit = "none" /\ published = "none"

\* The kernel's own steps: once a run has started they follow each other.
Kernel ==
  \/ \E says \in BOOLEAN : CheckBefore(says) \/ CheckAfterAction(says) \/ CheckAfterRepair(says)
  \/ \E o \in Outcomes : Act(o) \/ Repair(o)
  \/ \E created \in BOOLEAN : Seal(created)
  \/ Fail
  \/ Abort
  \/ Return
  \/ \E kept \in BOOLEAN : PublishAudit(kept) \/ PublishReport(kept)

Next ==
  \/ \E w \in Candidates : Compose(w)
  \/ \E target \in StageName, st \in Declared : Patch(target, st)
  \/ StartRun
  \/ Rebuild
  \/ Kernel

Spec == Init /\ [][Next]_vars /\ WF_vars(Kernel)

-----------------------------------------------------------------------------
(* Properties *)

Running == phase \in {"pre", "action", "acted", "repair", "repaired", "sealing", "failing"}
Listed(status) == status \in {"completed", "already_satisfied"}

FindingType == [state: {"none", "resolved", "unknown"},
                by: {"none", "probe", "value", "update"}, basis: Seq(Nat)]
ProbeType == [status: {"none", "observed", "insufficient", "resolved"},
              bases: Seq(Nat), matched: SUBSET Needle]
TrailType == [shown: SUBSET Needle, at: SUBSET Nat, latest: Quality \cup {"none"}]
ReportType == [name: StageName,
               status: {"already_satisfied", "completed", "checkpoint_failed", "failed"},
               attempts: Nat, repairs: Nat, checks: Nat]

\* Type invariant of the workflow kernel.
WorkflowTypeOK ==
  /\ workflow \in Seq(Declared) /\ patches \in 0..MaxPatches /\ runs \in 0..MaxRuns
  /\ phase \in {"compose", "pre", "action", "acted", "repair", "repaired", "sealing",
                "failing", "returned", "audited", "over"}
  /\ idx \in Nat \ {0} /\ (Running => idx \in DOMAIN workflow)
  /\ attempts \in 0..AttemptLimit /\ repairs \in Nat /\ checks \in Nat
  /\ finding \in [Field -> FindingType]
  /\ probe \in [Field -> ProbeType]
  /\ outcome \in Outcomes \cup {NoOutcome}
  /\ trail \in [Field -> TrailType]
  /\ DOMAIN outputs \subseteq StageName /\ \A n \in DOMAIN outputs : outputs[n] \subseteq Field
  /\ completed \in Seq(StageName)
  /\ reports \in Seq(ReportType)
  /\ verdict \in {"none", "ok", "failed", "error"}
  /\ audit \in {"none", "verified", "contradicted"}
  /\ published \in {"none", "succeeded", "failed"}

\* A stage of an unpatched workflow always finds, in step.stage_outputs, each
\* producer it names and, resolved, each typed field it asks of it.  workflow()
\* checks this once, statically; that it holds in the run rests on evidence
\* being refused while a demanded finding is open and on the export using the
\* findings that were judged.
HandoffIsResolved ==
  Running /\ patches = 0 =>
    \A n \in Current.inputs : n \in DOMAIN outputs /\ Current.asks[n] \subseteq outputs[n]

\* The basis of a finding resolved through its probe names attempts of this
\* stage that really probed that field, at least one and at most four.
ProbeBasisIsReal ==
  Running => \A f \in Field :
    finding[f].by = "probe" =>
      /\ Len(finding[f].basis) \in 1..4
      /\ \A i \in DOMAIN finding[f].basis : finding[f].basis[i] \in trail[f].at

\* A finding with an evidence predicate is resolved only through a probe that
\* satisfied it: the required texts were all really shown by this stage's tool
\* calls, and the call it was judged at was of the right kind, not empty, not
\* truncated and not printing the texts itself; and its basis is real.
ResolvedIsProved ==
  /\ Running => \A f \in Current.backed :
       finding[f].state = "resolved" =>
         /\ finding[f].by = "probe" /\ probe[f].status = "resolved"
         /\ Current.needles[f] \subseteq trail[f].shown
         /\ \/ trail[f].latest = "good"
            \/ trail[f].latest = "generated" /\ Current.needles[f] = {}
  /\ ProbeBasisIsReal

\* Nothing is resolved without evidence, or handed on without being resolved
\* (workflow_probe_evidence_assessment).
EvidenceIsReal == HandoffIsResolved /\ ResolvedIsProved

\* A stage is listed as completed only on evidence checked after its last action
\* and its last repair; attempts and repairs stay within what was declared.
AdvanceIsProved ==
  \A i \in DOMAIN reports :
    /\ reports[i].checks = 1 + reports[i].attempts + reports[i].repairs
    /\ reports[i].repairs <= reports[i].attempts
    /\ reports[i].status = "already_satisfied" <=> reports[i].attempts = 0

\* What workflow_run returns is what happened: ok exactly when every stage was
\* listed, in order; otherwise the last report alone is the failure; a stage
\* whose checkpoint failed is neither completed nor exported.
ReportIsHonest ==
  /\ verdict = "ok" => Len(completed) = Len(workflow)
  /\ verdict = "failed" => reports # <<>> /\ ~Listed(reports[Len(reports)].status)
  /\ \A i \in DOMAIN reports :
       IF Listed(reports[i].status)
         THEN i \in DOMAIN completed /\ completed[i] = reports[i].name
         ELSE i = Len(reports) /\ reports[i].name \notin {completed[j] : j \in DOMAIN completed}
  /\ DOMAIN outputs = {completed[j] : j \in DOMAIN completed}

\* When workflow_main has returned normally, the audit it retained and the report
\* it published speak of the same run.
PublicationAgrees ==
  [][phase = "audited" /\ published' # published =>
       (published' = "succeeded" <=> audit = "verified")]_vars

\* A run ends: every stage has an attempt bound, or the counter has one.
RunEnds == phase = "pre" ~> phase = "over"
=============================================================================
