-------------------------- MODULE Workflow_proofs --------------------------
(***************************************************************************)
(* Proofs about the workflow kernel, for every set of stage declarations,  *)
(* every set of outcomes and every bound.                                  *)
(***************************************************************************)
EXTENDS Workflow, SequenceTheorems, TLAPS

-----------------------------------------------------------------------------
(* Types *)

\* What the types need to be inductive: once a stage acts, its attempts count
\* from 1.
TypeInv ==
  /\ WorkflowTypeOK
  /\ phase \in {"action", "acted", "repair", "repaired", "sealing", "failing"} => attempts # 0

\* A stage the program can name, and the one being run, are declarations.
LEMMA CurrentType == ASSUME TypeInv, Running PROVE Current \in Declared /\ Current \in StageType
BY DeclaredAssumption, ElementOfSeq, LenProperties DEF TypeInv, WorkflowTypeOK, Current

\* The state a stage starts with has its types.
LEMMA FreshTypes ==
    ASSUME FreshStage
    PROVE  /\ attempts' = 0 /\ repairs' = 0 /\ checks' = 0
           /\ finding' \in [Field -> FindingType] /\ probe' \in [Field -> ProbeType]
           /\ trail' \in [Field -> TrailType] /\ outcome' = NoOutcome
<1>1. <<>> \in Seq(Nat)
  OBVIOUS
<1>2. NoFinding \in FindingType
  BY <1>1 DEF NoFinding, FindingType
<1>3. NoProbe \in ProbeType
  BY <1>1 DEF NoProbe, ProbeType
<1>4. NoTrail \in TrailType
  BY DEF NoTrail, TrailType
<1>. QED  BY <1>2, <1>3, <1>4 DEF FreshStage

\* At most three of the retained bases are kept beside a new one.
LEMMA LastBasesType ==
    ASSUME NEW s \in Seq(Nat)
    PROVE  /\ LastBases(s) \in Seq(Nat)
           /\ Len(LastBases(s)) <= 3
           /\ \A i \in 1..Len(LastBases(s)) : \E j \in 1..Len(s) : LastBases(s)[i] = s[j]
<1>1. CASE Len(s) > 3
  <2>1. Len(s) \in Nat /\ Len(s) - 2 \in 1..(Len(s) + 1) /\ Len(s) \in (Len(s) - 3)..Len(s)
    BY <1>1, LenProperties
  <2>2. LastBases(s) = SubSeq(s, Len(s) - 2, Len(s))
    BY <1>1 DEF LastBases
  <2>. QED  BY <2>1, <2>2, SubSeqProperties
<1>2. CASE ~(Len(s) > 3)
  BY <1>2, LenProperties DEF LastBases
<1>. QED  BY <1>1, <1>2

\* A new observation is a probe record; its bases are old ones and the current
\* attempt, at most four.
LEMMA ObservationFacts ==
    ASSUME NEW st \in StageType, NEW f \in Field, NEW o \in OutcomeType,
           probe \in [Field -> ProbeType], attempts \in Nat
    PROVE  LET ob == Observation(st, f, o) IN
           /\ ob \in ProbeType
           /\ ob.status \in {"observed", "insufficient"}
           /\ ob.status = "observed" <=> Sufficient(st, f, o)
           /\ ob.matched = Matched(st, f, o)
           /\ Len(ob.bases) \in 1..4
           /\ \A i \in 1..Len(ob.bases) :
                ob.bases[i] = attempts \/ \E j \in 1..Len(probe[f].bases) : ob.bases[i] = probe[f].bases[j]
<1> DEFINE s == probe[f].bases
<1>1. s \in Seq(Nat)
  BY DEF ProbeType
<1>2. /\ LastBases(s) \in Seq(Nat) /\ Len(LastBases(s)) \in Nat /\ Len(LastBases(s)) <= 3
      /\ \A i \in 1..Len(LastBases(s)) : \E j \in 1..Len(s) : LastBases(s)[i] = s[j]
  BY <1>1, LastBasesType, LenProperties
<1>3. LET t == Append(LastBases(s), attempts) IN
      /\ t \in Seq(Nat) /\ Len(t) = Len(LastBases(s)) + 1
      /\ \A i \in 1..Len(LastBases(s)) : t[i] = LastBases(s)[i]
      /\ t[Len(LastBases(s)) + 1] = attempts
  BY <1>2, AppendProperties
<1>4. Matched(st, f, o) \subseteq Needle
  <2>1. o.shows \subseteq Needle /\ probe[f].matched \subseteq Needle
    BY DEF OutcomeType, ProbeType
  <2>. QED  BY <2>1 DEF Matched
<1>5. Observation(st, f, o).bases = Append(LastBases(s), attempts)
  BY DEF Observation
<1>6. /\ Observation(st, f, o).status = (IF Sufficient(st, f, o) THEN "observed" ELSE "insufficient")
      /\ Observation(st, f, o).matched = Matched(st, f, o)
  BY DEF Observation
<1>7. Observation(st, f, o) \in ProbeType
  <2>1. Append(LastBases(s), attempts) \in Seq(Nat)
    BY <1>3
  <2>. QED  BY <1>4, <2>1 DEF Observation, ProbeType
<1>. QED  BY <1>2, <1>3, <1>5, <1>6, <1>7

\* What an accepted outcome leaves of one finding.
LEMMA FindingFacts ==
    ASSUME NEW o \in OutcomeType, NEW f \in Field, attempts \in Nat \ {0},
           finding \in [Field -> FindingType], probe \in [Field -> ProbeType]
    PROVE  FindingsAfter(o)[f] \in FindingType
<1>1. <<>> \in Seq(Nat) /\ <<attempts - 1>> \in Seq(Nat) /\ probe[f].bases \in Seq(Nat)
  BY DEF ProbeType
<1>2. o.updates[f] \in {"none", "resolved", "unknown"}
  BY DEF OutcomeType
<1>. QED  BY <1>1, <1>2 DEF FindingsAfter, FindingType

\* Merging an outcome keeps the types of what the kernel retains.
LEMMA MergeTypes ==
    ASSUME TypeInv, Running, attempts # 0, NEW o \in Outcomes, Merge(Current, o)
    PROVE  /\ finding' \in [Field -> FindingType] /\ probe' \in [Field -> ProbeType]
           /\ trail' \in [Field -> TrailType] /\ outcome' = o
<1>1. /\ Current \in StageType /\ o \in OutcomeType /\ attempts \in Nat \ {0}
      /\ finding \in [Field -> FindingType] /\ probe \in [Field -> ProbeType]
      /\ trail \in [Field -> TrailType]
  BY CurrentType, OutcomesAssumption, BoundsAssumption DEF TypeInv, WorkflowTypeOK
<1>2. finding' \in [Field -> FindingType]
  <2>1. \A f \in Field : FindingsAfter(o)[f] \in FindingType
    BY <1>1, FindingFacts
  <2>. QED  BY <2>1 DEF Merge, FindingsAfter
<1>3. probe' \in [Field -> ProbeType]
  <2>1. \A f \in Field : ProbesAfter(Current, o)[f] \in ProbeType
    <3>1. TAKE f \in Field
    <3>2. Observation(Current, f, o) \in ProbeType
      BY <1>1, ObservationFacts
    <3>3. probe[f] \in ProbeType /\ [probe[f] EXCEPT !.status = "resolved"] \in ProbeType
      BY <1>1 DEF ProbeType
    <3>. QED  BY <3>2, <3>3 DEF ProbesAfter
  <2>. QED  BY <2>1 DEF Merge, ProbesAfter
<1>4. trail' \in [Field -> TrailType]
  <2>1. \A f \in Field : TrailAfter(Current, o)[f] \in TrailType
    <3>1. TAKE f \in Field
    <3>2. trail[f] \in TrailType /\ o.shows \subseteq Needle /\ o.quality \in Quality
      BY <1>1 DEF OutcomeType
    <3>3. /\ trail[f].shown \cup (IF o.quality = "generated" THEN {} ELSE o.shows) \subseteq Needle
          /\ trail[f].at \cup {attempts} \subseteq Nat
      BY <1>1, <3>2 DEF TrailType
    <3>. QED  BY <3>2, <3>3 DEF TrailAfter, TrailType
  <2>. QED  BY <2>1 DEF Merge, TrailAfter
<1>. QED  BY <1>2, <1>3, <1>4 DEF Merge

\* A report has its type, and is added at the end.
LEMMA ReportFacts ==
    ASSUME TypeInv, Running, NEW checked \in Nat,
           NEW status \in {"already_satisfied", "completed", "checkpoint_failed", "failed"},
           ReportAs(status, checked)
    PROVE  /\ reports' \in Seq(ReportType) /\ Len(reports') = Len(reports) + 1
           /\ \A i \in 1..Len(reports) : reports'[i] = reports[i]
           /\ reports'[Len(reports) + 1] =
                [name |-> Current.name, status |-> status, attempts |-> attempts,
                 repairs |-> repairs, checks |-> checked]
<1> DEFINE r == [name |-> Current.name, status |-> status, attempts |-> attempts,
                 repairs |-> repairs, checks |-> checked]
<1>1. r \in ReportType
  <2>1. Current.name \in StageName
    BY CurrentType DEF StageType
  <2>. QED  BY <2>1, BoundsAssumption DEF TypeInv, WorkflowTypeOK, ReportType
<1>2. reports \in Seq(ReportType) /\ reports' = Append(reports, r)
  BY DEF TypeInv, WorkflowTypeOK, ReportAs
<1> HIDE DEF r
<1>3. /\ Append(reports, r) \in Seq(ReportType) /\ Len(Append(reports, r)) = Len(reports) + 1
      /\ \A i \in 1..Len(reports) : Append(reports, r)[i] = reports[i]
      /\ Append(reports, r)[Len(reports) + 1] = r
  BY <1>1, <1>2, AppendProperties
<1>. QED  BY <1>2, <1>3 DEF r

\* Exporting a stage adds its name and its resolved findings.
LEMMA ExportFacts ==
    ASSUME TypeInv, Running, Export
    PROVE  /\ DOMAIN outputs' = DOMAIN outputs \cup {Current.name}
           /\ \A n \in DOMAIN outputs' :
                outputs'[n] = IF n = Current.name THEN StageOutput(Current) ELSE outputs[n]
           /\ \A n \in DOMAIN outputs' : outputs'[n] \subseteq Field
           /\ DOMAIN outputs' \subseteq StageName
           /\ completed' \in Seq(StageName) /\ Len(completed') = Len(completed) + 1
           /\ \A i \in 1..Len(completed) : completed'[i] = completed[i]
           /\ completed'[Len(completed) + 1] = Current.name
<1>1. Current.name \in StageName /\ StageOutput(Current) \subseteq Field
  BY CurrentType DEF StageType, StageOutput
<1>2. completed \in Seq(StageName) /\ completed' = Append(completed, Current.name)
  BY DEF TypeInv, WorkflowTypeOK, Export
<1>3. /\ Append(completed, Current.name) \in Seq(StageName)
      /\ Len(Append(completed, Current.name)) = Len(completed) + 1
      /\ \A i \in 1..Len(completed) : Append(completed, Current.name)[i] = completed[i]
      /\ Append(completed, Current.name)[Len(completed) + 1] = Current.name
  BY <1>1, <1>2, AppendProperties
<1>4. /\ DOMAIN outputs' = DOMAIN outputs \cup {Current.name}
      /\ \A n \in DOMAIN outputs' :
           outputs'[n] = IF n = Current.name THEN StageOutput(Current) ELSE outputs[n]
  BY DEF Export
<1>5. DOMAIN outputs \subseteq StageName /\ \A n \in DOMAIN outputs : outputs[n] \subseteq Field
  BY DEF TypeInv, WorkflowTypeOK
<1>. QED  BY <1>1, <1>2, <1>3, <1>4, <1>5

\* Listing a stage and going on keeps the types.
LEMMA AdvanceTypes ==
    ASSUME TypeInv, Running, NEW checked \in Nat, NEW status \in {"already_satisfied", "completed"},
           Advance(status, checked), UNCHANGED <<program, gateway>>
    PROVE  TypeInv'
<1>1. /\ attempts' = 0 /\ repairs' = 0 /\ checks' = 0
      /\ finding' \in [Field -> FindingType] /\ probe' \in [Field -> ProbeType]
      /\ trail' \in [Field -> TrailType] /\ outcome' = NoOutcome
  BY FreshTypes DEF Advance
<1>2. /\ DOMAIN outputs' \subseteq StageName /\ completed' \in Seq(StageName)
      /\ \A n \in DOMAIN outputs' : outputs'[n] \subseteq Field
  BY ExportFacts DEF Advance
<1>3. reports' \in Seq(ReportType)
  BY ReportFacts DEF Advance
<1>4. /\ idx \in DOMAIN workflow /\ workflow \in Seq(Declared) /\ DOMAIN workflow = 1..Len(workflow)
      /\ Len(workflow) \in Nat
  BY LenProperties DEF TypeInv, WorkflowTypeOK
<1>5. /\ workflow' = workflow /\ idx' = idx + 1
      /\ IF idx = Len(workflow) THEN phase' = "returned" /\ verdict' = "ok"
         ELSE phase' = "pre" /\ verdict' = verdict
  BY DEF Advance, program
<1>6. idx' \in Nat \ {0} /\ (phase' = "pre" => idx' \in DOMAIN workflow')
  BY <1>4, <1>5
<1>7. /\ workflow' \in Seq(Declared) /\ patches' \in 0..MaxPatches /\ runs' \in 0..MaxRuns
      /\ audit' \in {"none", "verified", "contradicted"}
      /\ published' \in {"none", "succeeded", "failed"}
  BY <1>4 DEF TypeInv, WorkflowTypeOK, program, gateway
<1>8. /\ phase' \in {"pre", "returned"} /\ verdict' \in {"none", "ok", "failed", "error"}
      /\ Running' => idx' \in DOMAIN workflow'
  BY <1>5, <1>6 DEF TypeInv, WorkflowTypeOK, Running
<1>9. attempts' \in 0..AttemptLimit /\ repairs' \in Nat /\ checks' \in Nat
  BY <1>1, BoundsAssumption
<1>. QED  BY <1>1, <1>2, <1>3, <1>6, <1>7, <1>8, <1>9 DEF TypeInv, WorkflowTypeOK

\* Ending the run with a failed report keeps the types.
LEMMA GiveUpTypes ==
    ASSUME TypeInv, Running, NEW status \in {"checkpoint_failed", "failed"},
           GiveUp(status), UNCHANGED <<program, gateway>>
    PROVE  TypeInv'
<1>1. /\ attempts' = 0 /\ repairs' = 0 /\ checks' = 0
      /\ finding' \in [Field -> FindingType] /\ probe' \in [Field -> ProbeType]
      /\ trail' \in [Field -> TrailType] /\ outcome' = NoOutcome
  BY FreshTypes DEF GiveUp
<1>2. reports' \in Seq(ReportType)
  BY ReportFacts DEF GiveUp, TypeInv, WorkflowTypeOK
<1>. QED  BY <1>1, <1>2, BoundsAssumption
          DEF TypeInv, WorkflowTypeOK, program, gateway, Running, GiveUp

\* The initial state has its types.
LEMMA InitTypes == Init => TypeInv
<1> SUFFICES ASSUME Init PROVE TypeInv
  OBVIOUS
<1>1. /\ finding \in [Field -> FindingType] /\ probe \in [Field -> ProbeType]
      /\ trail \in [Field -> TrailType]
  <2>1. <<>> \in Seq(Nat)
    OBVIOUS
  <2>2. NoFinding \in FindingType /\ NoProbe \in ProbeType /\ NoTrail \in TrailType
    BY <2>1 DEF NoFinding, FindingType, NoProbe, ProbeType, NoTrail, TrailType
  <2>. QED  BY <2>2 DEF Init
<1>2. /\ <<>> \in Seq(Declared) /\ <<>> \in Seq(StageName) /\ <<>> \in Seq(ReportType)
      /\ DOMAIN outputs = {}
  BY DEF Init
<1>3. ~Running /\ phase = "compose"
  BY DEF Init, Running
<1>. QED  BY <1>1, <1>2, <1>3, BoundsAssumption DEF Init, TypeInv, WorkflowTypeOK

\* Building or patching the workflow value keeps the types.
LEMMA BuildTypes ==
    ASSUME TypeInv, \/ \E w \in Candidates : Compose(w)
                    \/ \E target \in StageName, st \in Declared : Patch(target, st)
    PROVE  TypeInv'
<1>1. ~Running /\ phase = "compose" /\ phase' = "compose" /\ UNCHANGED <<idx, stage, ledger, verdict, gateway, runs>>
  BY DEF Compose, Patch, Running
<1>2. workflow' \in Seq(Declared) /\ patches' \in 0..MaxPatches
  <2>1. ASSUME NEW w \in Candidates, Compose(w)
        PROVE  workflow' \in Seq(Declared) /\ patches' \in 0..MaxPatches
    BY <2>1, SeqDef, BoundsAssumption DEF Compose, Candidates, TypeInv, WorkflowTypeOK
  <2>2. ASSUME NEW target \in StageName, NEW st \in Declared, Patch(target, st)
        PROVE  workflow' \in Seq(Declared) /\ patches' \in 0..MaxPatches
    <3>1. PICK i \in DOMAIN workflow : workflow' = [workflow EXCEPT ![i] = st]
      BY <2>2 DEF Patch
    <3>2. workflow \in Seq(Declared) /\ i \in 1..Len(workflow)
      BY <3>1, LenProperties DEF TypeInv, WorkflowTypeOK
    <3>3. workflow' \in Seq(Declared)
      BY <3>1, <3>2, ExceptSeq
    <3>4. patches' \in 0..MaxPatches
      BY SMTT(30), <2>2, BoundsAssumption DEF Patch, TypeInv, WorkflowTypeOK
    <3>. QED  BY <3>3, <3>4
  <2>. QED  BY <2>1, <2>2
<1>. QED  BY <1>1, <1>2 DEF TypeInv, WorkflowTypeOK, Running, stage, ledger, gateway

\* A step that leaves the workflow value, the findings and the ledger alone
\* keeps their types.
LEMMA ControlTypes ==
    ASSUME TypeInv, UNCHANGED <<workflow, patches, idx, finding, probe, outcome, trail, ledger>>,
           runs' \in 0..MaxRuns, attempts' \in 0..AttemptLimit, repairs' \in Nat, checks' \in Nat,
           phase' \in {"compose", "action", "acted", "repair", "repaired", "sealing", "failing",
                       "audited", "over"},
           phase' \in {"action", "acted", "repair", "repaired", "sealing", "failing"} =>
             attempts' # 0 /\ Running,
           verdict' \in {"none", "ok", "failed", "error"},
           audit' \in {"none", "verified", "contradicted"},
           published' \in {"none", "succeeded", "failed"}
    PROVE  TypeInv'
BY DEF TypeInv, WorkflowTypeOK, Running, ledger

\* Each step of a run keeps the types.
LEMMA KernelTypes == ASSUME TypeInv, Kernel PROVE TypeInv'
<1>1. /\ runs \in 0..MaxRuns /\ attempts \in 0..AttemptLimit /\ repairs \in Nat /\ checks \in Nat
      /\ audit \in {"none", "verified", "contradicted"} /\ AttemptLimit \in Nat \ {0}
      /\ published \in {"none", "succeeded", "failed"}
      /\ verdict \in {"none", "ok", "failed", "error"}
      /\ phase \in {"action", "acted", "repair", "repaired", "sealing", "failing"} => attempts # 0
  BY BoundsAssumption DEF TypeInv, WorkflowTypeOK
<1>2. ASSUME NEW says \in BOOLEAN, CheckBefore(says) PROVE TypeInv'
  <2>1. phase = "pre" /\ Running
    BY <1>2 DEF CheckBefore, Running
  <2>2. CASE Evidence(Current, says)
    BY <1>1, <1>2, <2>1, <2>2, AdvanceTypes DEF CheckBefore
  <2>3. CASE ~Evidence(Current, says)
    BY <1>1, <1>2, <2>1, <2>3, ControlTypes DEF CheckBefore, program, gateway, ledger
  <2>. QED  BY <2>2, <2>3
<1>3. ASSUME NEW o \in Outcomes, Act(o) \/ Repair(o) PROVE TypeInv'
  <2>1. /\ Running /\ attempts # 0 /\ Merge(Current, o) /\ phase' \in {"acted", "repaired"}
        /\ repairs' \in Nat /\ UNCHANGED <<program, idx, attempts, checks, ledger, verdict, gateway>>
    BY <1>1, <1>3 DEF Act, Repair, Running
  <2>2. /\ finding' \in [Field -> FindingType] /\ probe' \in [Field -> ProbeType]
        /\ trail' \in [Field -> TrailType] /\ outcome' \in Outcomes \cup {NoOutcome}
    BY <2>1, MergeTypes
  <2>. QED  BY <1>1, <2>1, <2>2 DEF TypeInv, WorkflowTypeOK, Running, program, ledger, gateway
<1>4. ASSUME NextAttempt, phase \in {"acted", "repaired"}, checks' = checks + 1,
             UNCHANGED <<program, repairs, finding, probe, outcome, trail, gateway>>
      PROVE  TypeInv'
  <2>1. phase' \in {"failing", "action"} /\ attempts' \in 0..AttemptLimit /\ attempts' # 0
        /\ UNCHANGED <<idx, ledger, verdict>> /\ Running
    BY <1>1, <1>4 DEF NextAttempt, Running
  <2>. QED  BY <1>1, <1>4, <2>1, ControlTypes DEF program, gateway
<1>5. ASSUME NEW says \in BOOLEAN, CheckAfterAction(says) \/ CheckAfterRepair(says)
      PROVE  TypeInv'
  <2>1. /\ phase \in {"acted", "repaired"} /\ Running /\ checks' = checks + 1 /\ checks' \in Nat
        /\ UNCHANGED <<program, repairs, finding, probe, outcome, trail, gateway>>
        /\ \/ NextAttempt
           \/ phase' \in {"sealing", "repair"} /\ UNCHANGED <<idx, attempts, ledger, verdict>>
    BY <1>1, <1>5 DEF CheckAfterAction, CheckAfterRepair, Running
  <2>2. CASE NextAttempt
    BY <1>4, <2>1, <2>2
  <2>3. CASE phase' \in {"sealing", "repair"} /\ UNCHANGED <<idx, attempts, ledger, verdict>>
    BY <1>1, <2>1, <2>3, ControlTypes DEF program, gateway
  <2>. QED  BY <2>1, <2>2, <2>3
<1>6. ASSUME NEW created \in BOOLEAN, Seal(created) PROVE TypeInv'
  BY <1>1, <1>6, AdvanceTypes, GiveUpTypes DEF Seal, Running
<1>7. ASSUME Fail PROVE TypeInv'
  BY <1>7, GiveUpTypes DEF Fail, Running
<1>8. ASSUME Abort PROVE TypeInv'
  <2>1. /\ attempts' = 0 /\ repairs' = 0 /\ checks' = 0
        /\ finding' \in [Field -> FindingType] /\ probe' \in [Field -> ProbeType]
        /\ trail' \in [Field -> TrailType] /\ outcome' = NoOutcome
    BY <1>8, FreshTypes DEF Abort
  <2>2. /\ completed' \in Seq(StageName) /\ reports' \in Seq(ReportType) /\ DOMAIN outputs' = {}
    BY <1>8 DEF Abort
  <2>3. phase' = "over" /\ verdict' = "error" /\ UNCHANGED <<program, idx, gateway>>
    BY <1>8 DEF Abort
  <2>. QED  BY <1>1, <2>1, <2>2, <2>3 DEF TypeInv, WorkflowTypeOK, Running, program, gateway
<1>9. ASSUME \/ Return
             \/ \E kept \in BOOLEAN : PublishAudit(kept) \/ PublishReport(kept)
      PROVE  TypeInv'
  <2>1. /\ phase' \in {"audited", "over"} /\ UNCHANGED <<program, idx, stage, ledger>>
        /\ verdict' \in {"none", "ok", "failed", "error"}
        /\ audit' \in {"none", "verified", "contradicted"}
        /\ published' \in {"none", "succeeded", "failed"}
    BY <1>1, <1>9 DEF Return, PublishAudit, PublishReport, gateway
  <2>. QED  BY <1>1, <2>1, ControlTypes DEF program, stage
<1>. QED  BY <1>2, <1>3, <1>5, <1>6, <1>7, <1>8, <1>9 DEF Kernel

\* Each step keeps the types.
LEMMA NextTypes == TypeInv /\ [Next]_vars => TypeInv'
<1> SUFFICES ASSUME TypeInv, [Next]_vars PROVE TypeInv'
  OBVIOUS
<1>1. ASSUME StartRun PROVE TypeInv'
  <2>1. /\ attempts' = 0 /\ repairs' = 0 /\ checks' = 0
        /\ finding' \in [Field -> FindingType] /\ probe' \in [Field -> ProbeType]
        /\ trail' \in [Field -> TrailType] /\ outcome' = NoOutcome
    BY <1>1, FreshTypes DEF StartRun
  <2>2. /\ completed' \in Seq(StageName) /\ reports' \in Seq(ReportType) /\ DOMAIN outputs' = {}
    BY <1>1 DEF StartRun
  <2>3. 1 \in DOMAIN workflow /\ runs' \in 0..MaxRuns
    <3>1. workflow \in Seq(Declared) /\ workflow # <<>>
      BY <1>1 DEF StartRun, TypeInv, WorkflowTypeOK
    <3>2. Len(workflow) \in Nat \ {0} /\ DOMAIN workflow = 1..Len(workflow)
      BY <3>1, EmptySeq, LenProperties
    <3>. QED  BY <1>1, <3>2, BoundsAssumption DEF StartRun, TypeInv, WorkflowTypeOK
  <2>4. /\ phase' = "pre" /\ verdict' = "none" /\ idx' = 1
        /\ UNCHANGED <<workflow, patches, gateway>>
    BY <1>1 DEF StartRun
  <2>. QED  BY <2>1, <2>2, <2>3, <2>4, BoundsAssumption DEF TypeInv, WorkflowTypeOK, Running, gateway
<1>2. ASSUME Rebuild PROVE TypeInv'
  BY <1>2 DEF Rebuild, TypeInv, WorkflowTypeOK, Running, program, stage, ledger, gateway
<1>3. ASSUME UNCHANGED vars PROVE TypeInv'
  BY <1>3 DEF vars, TypeInv, WorkflowTypeOK, Running, program, stage, ledger, gateway
<1>. QED  BY <1>1, <1>2, <1>3, BuildTypes, KernelTypes DEF Next

\* The workflow kernel keeps its types, whatever its handlers do: the attempt
\* counter never passes its limit and a run never leaves its stages.
THEOREM WorkflowTypes == Spec => []WorkflowTypeOK
<1>1. Spec => []TypeInv
  BY InitTypes, NextTypes, PTL DEF Spec
<1>2. TypeInv => WorkflowTypeOK
  BY DEF TypeInv
<1>. QED  BY <1>1, <1>2, PTL

-----------------------------------------------------------------------------
(* Counters *)

\* One check came before the first attempt, one after each action and one after
\* each repair: how many there are at each point of a stage.
CountInv ==
  /\ AdvanceIsProved
  /\ phase = "pre" => attempts = 0 /\ repairs = 0 /\ checks = 0
  /\ phase \in {"action", "acted"} => repairs < attempts /\ checks = attempts + repairs
  /\ phase = "repair" => repairs < attempts /\ checks = 1 + attempts + repairs
  /\ phase = "repaired" => repairs <= attempts /\ checks = attempts + repairs
  /\ phase \in {"sealing", "failing"} => repairs <= attempts /\ checks = 1 + attempts + repairs

\* A report of balanced counters joins the others.
LEMMA BalancedReport ==
    ASSUME TypeInv, Running, AdvanceIsProved, NEW checked \in Nat,
           NEW status \in {"already_satisfied", "completed", "checkpoint_failed", "failed"},
           ReportAs(status, checked), checked = 1 + attempts + repairs, repairs <= attempts,
           status = "already_satisfied" <=> attempts = 0
    PROVE  AdvanceIsProved'
<1>1. /\ reports \in Seq(ReportType) /\ reports' \in Seq(ReportType) /\ Len(reports) \in Nat
      /\ DOMAIN reports = 1..Len(reports) /\ DOMAIN reports' = 1..Len(reports')
      /\ Len(reports') = Len(reports) + 1
      /\ \A i \in 1..Len(reports) : reports'[i] = reports[i]
      /\ reports'[Len(reports) + 1] =
           [name |-> Current.name, status |-> status, attempts |-> attempts,
            repairs |-> repairs, checks |-> checked]
  BY ReportFacts, LenProperties DEF TypeInv, WorkflowTypeOK
<1> SUFFICES ASSUME NEW i \in DOMAIN reports'
             PROVE  /\ reports'[i].checks = 1 + reports'[i].attempts + reports'[i].repairs
                    /\ reports'[i].repairs <= reports'[i].attempts
                    /\ reports'[i].status = "already_satisfied" <=> reports'[i].attempts = 0
  BY DEF AdvanceIsProved
<1>2. CASE i \in 1..Len(reports)
  BY <1>1, <1>2 DEF AdvanceIsProved
<1>3. CASE i = Len(reports) + 1
  BY <1>1, <1>3
<1>. QED  BY <1>1, <1>2, <1>3

\* Each step of a run keeps its counters balanced.
LEMMA KernelCounts == ASSUME TypeInv, CountInv, Kernel PROVE CountInv'
<1>1. attempts \in Nat /\ repairs \in Nat /\ checks \in Nat
  BY BoundsAssumption DEF TypeInv, WorkflowTypeOK
<1>2. ASSUME NEW says \in BOOLEAN, CheckBefore(says) PROVE CountInv'
  <2>1. phase = "pre" /\ Running /\ attempts = 0 /\ repairs = 0 /\ checks = 0
    BY <1>2 DEF CheckBefore, CountInv, Running
  <2>2. CASE Evidence(Current, says)
    <3>1. Advance("already_satisfied", checks + 1)
      BY <1>2, <2>2 DEF CheckBefore
    <3>2. AdvanceIsProved'
      <4>1. ReportAs("already_satisfied", checks + 1) /\ checks + 1 = 1 + attempts + repairs
        BY <1>1, <2>1, <3>1 DEF Advance
      <4>. QED  BY <1>1, <2>1, <4>1, BalancedReport DEF CountInv
    <3>3. /\ phase' \in {"pre", "returned"}
          /\ attempts' = 0 /\ repairs' = 0 /\ checks' = 0
      BY <3>1 DEF Advance, FreshStage
    <3>. QED  BY <3>2, <3>3 DEF CountInv
  <2>3. CASE ~Evidence(Current, says)
    BY <1>1, <1>2, <2>1, <2>3 DEF CheckBefore, CountInv, AdvanceIsProved, ledger
  <2>. QED  BY <2>2, <2>3
<1>3. ASSUME NEW o \in Outcomes, Act(o) \/ Repair(o) PROVE CountInv'
  BY <1>1, <1>3 DEF Act, Repair, CountInv, AdvanceIsProved, ledger
<1>4. ASSUME NEW says \in BOOLEAN, CheckAfterAction(says) \/ CheckAfterRepair(says)
      PROVE  CountInv'
  <2>1. reports' = reports /\ phase \in {"acted", "repaired"}
    BY <1>4 DEF CheckAfterAction, CheckAfterRepair, NextAttempt, ledger
  <2>2. AdvanceIsProved'
    BY <2>1 DEF CountInv, AdvanceIsProved
  <2>. QED  BY <1>1, <1>4, <2>2 DEF CheckAfterAction, CheckAfterRepair, NextAttempt, CountInv
<1>5. ASSUME Running, phase \in {"sealing", "failing"},
             NEW status \in {"completed", "checkpoint_failed", "failed"},
             GiveUp(status) \/ Advance(status, checks)
      PROVE  CountInv'
  <2>1. /\ ReportAs(status, checks) /\ checks = 1 + attempts + repairs /\ repairs <= attempts
        /\ phase' \in {"pre", "returned"} /\ attempts' = 0 /\ repairs' = 0 /\ checks' = 0
    BY <1>5 DEF GiveUp, Advance, CountInv, FreshStage
  <2>2. status # "already_satisfied" /\ attempts # 0
    BY <1>5 DEF TypeInv
  <2>3. AdvanceIsProved'
    BY <1>1, <1>5, <2>1, <2>2, BalancedReport DEF CountInv
  <2>. QED  BY <2>1, <2>3 DEF CountInv
<1>6. ASSUME NEW created \in BOOLEAN, Seal(created) PROVE CountInv'
  BY <1>5, <1>6 DEF Seal, Running
<1>7. ASSUME Fail PROVE CountInv'
  BY <1>5, <1>7 DEF Fail, Running
<1>8. ASSUME Abort PROVE CountInv'
  BY <1>8 DEF Abort, CountInv, AdvanceIsProved
<1>9. ASSUME \/ Return
             \/ \E kept \in BOOLEAN : PublishAudit(kept) \/ PublishReport(kept)
      PROVE  CountInv'
  BY <1>9 DEF Return, PublishAudit, PublishReport, CountInv, AdvanceIsProved, ledger
<1>. QED  BY <1>2, <1>3, <1>4, <1>6, <1>7, <1>8, <1>9 DEF Kernel

\* Each step keeps the counters balanced.
LEMMA NextCounts == TypeInv /\ CountInv /\ [Next]_vars => CountInv'
<1> SUFFICES ASSUME TypeInv, CountInv, [Next]_vars PROVE CountInv'
  OBVIOUS
<1>1. ASSUME StartRun PROVE CountInv'
  BY <1>1 DEF StartRun, FreshStage, CountInv, AdvanceIsProved
<1>2. ASSUME \/ Rebuild \/ \E w \in Candidates : Compose(w)
             \/ \E target \in StageName, st \in Declared : Patch(target, st)
      PROVE  CountInv'
  BY <1>2 DEF Rebuild, Compose, Patch, CountInv, AdvanceIsProved, ledger
<1>3. ASSUME UNCHANGED vars PROVE CountInv'
  BY <1>3 DEF vars, CountInv, AdvanceIsProved, stage, ledger
<1>. QED  BY <1>1, <1>2, <1>3, KernelCounts DEF Next

\* A stage is listed only on evidence that was checked after its last action and
\* its last repair.
THEOREM AdvancesAreProved == Spec => []AdvanceIsProved
<1>1. Init => TypeInv /\ CountInv
  BY InitTypes DEF Init, CountInv, AdvanceIsProved
<1>2. TypeInv /\ CountInv /\ [Next]_vars => (TypeInv /\ CountInv)'
  BY NextTypes, NextCounts
<1>3. CountInv => AdvanceIsProved
  BY DEF CountInv
<1>. QED  BY <1>1, <1>2, <1>3, PTL DEF Spec

-----------------------------------------------------------------------------
(* The ledger of completed stages *)

\* Where the ledger stands while a stage runs, and what makes the stages of a
\* workflow tell apart.
LedgerInv ==
  /\ ReportIsHonest
  /\ \A i, j \in DOMAIN workflow : workflow[i].name = workflow[j].name => i = j
  /\ workflow = <<>> => phase = "compose" /\ verdict = "none"
  /\ Running =>
       /\ Len(completed) = idx - 1 /\ Len(reports) = idx - 1
       /\ \A j \in 1..(idx - 1) : completed[j] = workflow[j].name
       /\ \A i \in DOMAIN reports : Listed(reports[i].status)
       /\ verdict = "none"

\* Listing a stage keeps the ledger.
LEMMA AdvanceLedger ==
    ASSUME TypeInv, LedgerInv, Running, NEW checked \in Nat,
           NEW status \in {"already_satisfied", "completed"},
           Advance(status, checked), UNCHANGED <<program, gateway>>
    PROVE  LedgerInv'
<1>1. /\ completed \in Seq(StageName) /\ completed' \in Seq(StageName)
      /\ reports \in Seq(ReportType) /\ reports' \in Seq(ReportType)
      /\ workflow \in Seq(Declared) /\ idx \in Nat \ {0} /\ idx \in DOMAIN workflow
  BY ReportFacts, ExportFacts DEF Advance, TypeInv, WorkflowTypeOK
<1>2. /\ Len(completed) = idx - 1 /\ Len(reports) = idx - 1
      /\ DOMAIN completed' = 1..idx /\ DOMAIN reports' = 1..idx
      /\ Len(completed') = idx /\ Len(reports') = idx
      /\ DOMAIN completed = 1..(idx - 1) /\ DOMAIN reports = 1..(idx - 1)
  <2>1. Len(completed) = idx - 1 /\ Len(reports) = idx - 1
    BY DEF LedgerInv
  <2>2. Len(completed') = Len(completed) + 1 /\ Len(reports') = Len(reports) + 1
    BY ReportFacts, ExportFacts DEF Advance
  <2>. QED  BY <1>1, <2>1, <2>2, LenProperties
<1>3. /\ \A i \in 1..(idx - 1) : completed'[i] = completed[i] /\ reports'[i] = reports[i]
      /\ completed'[idx] = Current.name
      /\ reports'[idx].name = Current.name /\ reports'[idx].status = status
  <2>1. /\ \A i \in 1..Len(completed) : completed'[i] = completed[i]
        /\ completed'[Len(completed) + 1] = Current.name
    BY ExportFacts DEF Advance
  <2>2. /\ \A i \in 1..Len(reports) : reports'[i] = reports[i]
        /\ reports'[Len(reports) + 1] =
             [name |-> Current.name, status |-> status, attempts |-> attempts,
              repairs |-> repairs, checks |-> checked]
    BY ReportFacts DEF Advance
  <2>3. Len(completed) + 1 = idx /\ Len(reports) + 1 = idx
    BY <1>1, <1>2
  <2>. QED  BY <1>2, <2>1, <2>2, <2>3
<1>4. /\ workflow' = workflow /\ idx' = idx + 1
      /\ IF idx = Len(workflow) THEN phase' = "returned" /\ verdict' = "ok"
         ELSE phase' = "pre" /\ verdict' = verdict
      /\ DOMAIN outputs' = DOMAIN outputs \cup {Current.name}
  BY ExportFacts DEF Advance, program
<1>5. \A i \in DOMAIN reports' : Listed(reports'[i].status) /\ completed'[i] = reports'[i].name
  <2>1. \A i \in DOMAIN reports : Listed(reports[i].status) /\ completed[i] = reports[i].name
    BY DEF LedgerInv, ReportIsHonest
  <2>. QED  BY <1>1, <1>2, <1>3, <2>1 DEF Listed
<1>6. DOMAIN outputs' = {completed'[j] : j \in DOMAIN completed'}
  <2>1. DOMAIN outputs = {completed[j] : j \in DOMAIN completed}
    BY DEF LedgerInv, ReportIsHonest
  <2>2. DOMAIN completed' = DOMAIN completed \cup {idx}
    BY <1>1, <1>2
  <2>. QED  BY SMTT(30), <1>2, <1>3, <1>4, <2>1, <2>2
<1>7. ReportIsHonest'
  <2>1. verdict' = "ok" => Len(completed') = Len(workflow')
    BY <1>2, <1>4 DEF LedgerInv
  <2>2. verdict' # "failed"
    BY <1>4 DEF LedgerInv
  <2>. QED  BY <1>2, <1>5, <1>6, <2>1, <2>2 DEF ReportIsHonest
<1>8. \A j \in 1..idx : completed'[j] = workflow'[j].name
  BY <1>1, <1>2, <1>3, <1>4 DEF LedgerInv, Current
<1>9. workflow # <<>>
  BY <1>1
<1>10. /\ Running' => verdict' = "none" /\ Len(completed') = idx' - 1 /\ Len(reports') = idx' - 1
       /\ idx' - 1 = idx
  BY <1>1, <1>2, <1>4 DEF LedgerInv, Running
<1>. QED  BY <1>4, <1>5, <1>7, <1>8, <1>9, <1>10 DEF LedgerInv

\* Ending the run with a failed report keeps the ledger.
LEMMA GiveUpLedger ==
    ASSUME TypeInv, LedgerInv, Running, NEW status \in {"checkpoint_failed", "failed"},
           GiveUp(status), UNCHANGED <<program, gateway>>
    PROVE  LedgerInv'
<1>1. /\ completed \in Seq(StageName) /\ completed' = completed /\ outputs' = outputs
      /\ reports \in Seq(ReportType) /\ reports' \in Seq(ReportType)
      /\ workflow \in Seq(Declared) /\ workflow' = workflow
      /\ idx \in Nat \ {0} /\ idx \in DOMAIN workflow
      /\ phase' = "returned" /\ verdict' = "failed" /\ checks \in Nat
  BY ReportFacts DEF GiveUp, TypeInv, WorkflowTypeOK, program
<1>2. /\ Len(completed) = idx - 1 /\ Len(reports) = idx - 1 /\ Len(reports') = idx
      /\ DOMAIN reports' = 1..idx /\ DOMAIN completed = 1..(idx - 1)
      /\ DOMAIN reports = 1..(idx - 1)
  <2>1. Len(completed) = idx - 1 /\ Len(reports) = idx - 1
    BY DEF LedgerInv
  <2>2. Len(reports') = Len(reports) + 1
    BY <1>1, ReportFacts DEF GiveUp
  <2>. QED  BY <1>1, <2>1, <2>2, LenProperties
<1>3. /\ \A i \in 1..(idx - 1) : reports'[i] = reports[i]
      /\ reports'[idx].name = Current.name /\ reports'[idx].status = status
  <2>1. /\ \A i \in 1..Len(reports) : reports'[i] = reports[i]
        /\ reports'[Len(reports) + 1] =
             [name |-> Current.name, status |-> status, attempts |-> attempts,
              repairs |-> repairs, checks |-> checks]
    BY <1>1, ReportFacts DEF GiveUp
  <2>2. Len(reports) + 1 = idx
    BY <1>1, <1>2
  <2>. QED  BY <1>2, <2>1, <2>2
<1>4. ~Listed(reports'[idx].status)
  BY <1>3 DEF Listed
<1>5. Current.name \notin {completed[j] : j \in DOMAIN completed}
  <2>1. SUFFICES ASSUME NEW j \in 1..(idx - 1), completed[j] = Current.name PROVE FALSE
    BY <1>2
  <2>2. workflow[j].name = workflow[idx].name
    BY <2>1 DEF LedgerInv, Current
  <2>3. j \in DOMAIN workflow /\ j # idx
    BY <1>1, LenProperties
  <2>. QED  BY <1>1, <2>2, <2>3 DEF LedgerInv
<1>6. \A i \in 1..(idx - 1) :
         Listed(reports'[i].status) /\ i \in DOMAIN completed /\ completed[i] = reports'[i].name
  BY <1>2, <1>3 DEF LedgerInv, ReportIsHonest
<1>7. ReportIsHonest'
  <2>1. verdict' = "failed" => reports' # <<>> /\ ~Listed(reports'[Len(reports')].status)
    BY <1>1, <1>2, <1>4
  <2>2. \A i \in DOMAIN reports' : i \in 1..(idx - 1) \/ i = idx
    BY <1>1, <1>2
  <2>3. DOMAIN outputs' = {completed'[j] : j \in DOMAIN completed'}
    BY <1>1 DEF LedgerInv, ReportIsHonest
  <2>. QED  BY <1>1, <1>2, <1>3, <1>4, <1>5, <1>6, <2>1, <2>2, <2>3 DEF ReportIsHonest
<1>8. workflow # <<>> /\ ~Running'
  BY <1>1 DEF Running
<1>. QED  BY <1>1, <1>7, <1>8 DEF LedgerInv

\* A step that changes neither the workflow nor the ledger keeps both in order.
LEMMA LedgerUntouched ==
    ASSUME TypeInv, LedgerInv, UNCHANGED <<workflow, ledger>>,
           Running' => Running /\ idx' = idx /\ verdict' = verdict,
           verdict' = verdict \/ verdict' = "error",
           phase = "compose" => UNCHANGED <<phase, verdict>>
    PROVE  LedgerInv'
BY DEF LedgerInv, ReportIsHonest, ledger, Listed

\* Each step of a run keeps the ledger.
LEMMA KernelLedger == ASSUME TypeInv, LedgerInv, Kernel PROVE LedgerInv'
<1>1. checks \in Nat
  BY DEF TypeInv, WorkflowTypeOK
<1>2. ASSUME NEW says \in BOOLEAN, CheckBefore(says) PROVE LedgerInv'
  <2>1. CASE Evidence(Current, says)
    BY <1>1, <1>2, <2>1, AdvanceLedger DEF CheckBefore, Running
  <2>2. CASE ~Evidence(Current, says)
    BY <1>2, <2>2, LedgerUntouched DEF CheckBefore, Running, program
  <2>. QED  BY <2>1, <2>2
<1>3. ASSUME NEW o \in Outcomes, Act(o) \/ Repair(o) PROVE LedgerInv'
  BY <1>3, LedgerUntouched DEF Act, Repair, Running, program
<1>4. ASSUME NEW says \in BOOLEAN, CheckAfterAction(says) \/ CheckAfterRepair(says)
      PROVE  LedgerInv'
  <2>1. /\ phase \in {"acted", "repaired"} /\ UNCHANGED <<workflow, idx, ledger, verdict>>
    BY <1>4 DEF CheckAfterAction, CheckAfterRepair, NextAttempt, program
  <2>. QED  BY <2>1, LedgerUntouched DEF Running
<1>5. ASSUME NEW created \in BOOLEAN, Seal(created) PROVE LedgerInv'
  BY <1>1, <1>5, AdvanceLedger, GiveUpLedger DEF Seal, Running
<1>6. ASSUME Fail PROVE LedgerInv'
  BY <1>6, GiveUpLedger DEF Fail, Running
<1>7. ASSUME Abort PROVE LedgerInv'
  <2>1. /\ completed' = <<>> /\ reports' = <<>> /\ DOMAIN outputs' = {} /\ verdict' = "error"
        /\ workflow' = workflow /\ phase' = "over" /\ phase # "compose"
    BY <1>7 DEF Abort, program
  <2>. QED  BY <2>1 DEF LedgerInv, ReportIsHonest, Running
<1>8. ASSUME \/ Return
             \/ \E kept \in BOOLEAN : PublishAudit(kept) \/ PublishReport(kept)
      PROVE  LedgerInv'
  <2>1. /\ phase \in {"returned", "audited"} /\ phase' \in {"audited", "over"}
        /\ UNCHANGED <<workflow, ledger>> /\ (verdict' = verdict \/ verdict' = "error")
    BY <1>8 DEF Return, PublishAudit, PublishReport, program
  <2>. QED  BY <2>1, LedgerUntouched DEF Running
<1>. QED  BY <1>2, <1>3, <1>4, <1>5, <1>6, <1>7, <1>8 DEF Kernel

\* Building or patching the workflow value keeps its stages apart and the ledger
\* of the last run as long as it was.
LEMMA BuildLedger ==
    ASSUME TypeInv, LedgerInv,
           \/ \E w \in Candidates : Compose(w)
           \/ \E target \in StageName, st \in Declared : Patch(target, st)
    PROVE  LedgerInv'
<1>1. phase' = "compose" /\ ~Running' /\ UNCHANGED <<ledger, verdict>>
  BY DEF Compose, Patch, Running
<1>2. ASSUME NEW w \in Candidates, Compose(w) PROVE LedgerInv'
  BY <1>1, <1>2 DEF Compose, AdmitsWorkflow, LedgerInv, ReportIsHonest, ledger, Listed
<1>3. ASSUME NEW target \in StageName, NEW st \in Declared, Patch(target, st) PROVE LedgerInv'
  <2>1. PICK i \in DOMAIN workflow :
          /\ workflow[i].name = target
          /\ st.name # target => st.name \notin Names(workflow)
          /\ workflow' = [workflow EXCEPT ![i] = st]
    BY <1>3 DEF Patch
  <2>2. workflow \in Seq(Declared) /\ i \in 1..Len(workflow) /\ DOMAIN workflow = 1..Len(workflow)
    BY <2>1, LenProperties DEF TypeInv, WorkflowTypeOK
  <2>3. /\ workflow' \in Seq(Declared) /\ Len(workflow') = Len(workflow)
        /\ \A j \in 1..Len(workflow) : workflow'[j] = IF j = i THEN st ELSE workflow[j]
    BY <2>1, <2>2, ExceptSeq
  <2>4. DOMAIN workflow' = DOMAIN workflow
    BY <2>2, <2>3, LenProperties
  <2>5. \A j, k \in DOMAIN workflow' : workflow'[j].name = workflow'[k].name => j = k
    <3>1. \A j \in DOMAIN workflow : j # i => workflow[j].name # st.name
      BY <2>1 DEF Names, LedgerInv
    <3>. QED  BY <2>2, <2>3, <2>4, <3>1 DEF LedgerInv
  <2>. QED  BY <1>1, <2>2, <2>3, <2>5 DEF LedgerInv, ReportIsHonest, ledger, Listed
<1>. QED  BY <1>2, <1>3

\* Each step keeps the ledger.
LEMMA NextLedger == TypeInv /\ LedgerInv /\ [Next]_vars => LedgerInv'
<1> SUFFICES ASSUME TypeInv, LedgerInv, [Next]_vars PROVE LedgerInv'
  OBVIOUS
<1>1. ASSUME StartRun PROVE LedgerInv'
  <2>1. /\ completed' = <<>> /\ reports' = <<>> /\ DOMAIN outputs' = {} /\ verdict' = "none"
        /\ workflow' = workflow /\ idx' = 1 /\ workflow # <<>>
    BY <1>1 DEF StartRun
  <2>2. Len(completed') = 0 /\ Len(reports') = 0 /\ DOMAIN reports' = {} /\ DOMAIN completed' = {}
    BY <2>1
  <2>. QED  BY <2>1, <2>2 DEF LedgerInv, ReportIsHonest, Listed
<1>2. ASSUME Rebuild PROVE LedgerInv'
  BY <1>2, LedgerUntouched DEF Rebuild, Running, program
<1>3. ASSUME UNCHANGED vars PROVE LedgerInv'
  BY <1>3, LedgerUntouched DEF vars, Running, program
<1>. QED  BY <1>1, <1>2, <1>3, BuildLedger, KernelLedger DEF Next

\* The workflow starts with an empty ledger.
LEMMA InitLedger == Init => LedgerInv
BY DEF Init, LedgerInv, ReportIsHonest, Running, Listed

\* What workflow_run returns is what happened, for every workflow and every
\* sequence of runs.
THEOREM ReportsAreHonest == Spec => []ReportIsHonest
<1>1. TypeInv /\ LedgerInv /\ [Next]_vars => (TypeInv /\ LedgerInv)'
  BY NextTypes, NextLedger
<1>2. LedgerInv => ReportIsHonest
  BY DEF LedgerInv
<1>. QED  BY <1>1, <1>2, InitTypes, InitLedger, PTL DEF Spec

-----------------------------------------------------------------------------
(* Publication *)

\* The audit that is kept says how the run it was made for ended.
PublishInv == phase = "audited" => (verdict = "ok" <=> audit = "verified")

\* Each step keeps the retained audit true of the run.
LEMMA NextPublish == PublishInv /\ [Next]_vars => PublishInv'
<1> SUFFICES ASSUME PublishInv, [Next]_vars PROVE PublishInv'
  OBVIOUS
<1>1. ASSUME Kernel PROVE PublishInv'
  BY <1>1 DEF Kernel, PublishInv, CheckBefore, Act, Repair, CheckAfterAction, CheckAfterRepair,
      Seal, Fail, Abort, Return, PublishAudit, PublishReport, NextAttempt, Advance, GiveUp
<1>2. ASSUME \/ StartRun \/ Rebuild \/ \E w \in Candidates : Compose(w)
             \/ \E target \in StageName, st \in Declared : Patch(target, st)
      PROVE  PublishInv'
  BY <1>2 DEF PublishInv, StartRun, Rebuild, Compose, Patch
<1>3. ASSUME UNCHANGED vars PROVE PublishInv'
  BY <1>3 DEF PublishInv, vars, gateway
<1>. QED  BY <1>1, <1>2, <1>3 DEF Next

\* The published report and the retained audit speak of the same run.
THEOREM PublicationsAgree == Spec => PublicationAgrees
<1>1. Init => PublishInv
  BY DEF Init, PublishInv
<1>2. PublishInv /\ [Next]_vars =>
        [phase = "audited" /\ published' # published =>
           (published' = "succeeded" <=> audit = "verified")]_vars
  <2> SUFFICES ASSUME PublishInv, Next, phase = "audited", published' # published
               PROVE  published' = "succeeded" <=> audit = "verified"
    OBVIOUS
  <2>1. PICK kept \in BOOLEAN : PublishReport(kept)
    BY DEF Next, Kernel, Compose, Patch, StartRun, Rebuild, CheckBefore, Act, Repair,
        CheckAfterAction, CheckAfterRepair, Seal, Fail, Abort, Return, PublishAudit
  <2>. QED  BY <2>1 DEF PublishReport, PublishInv
<1>. QED  BY <1>1, <1>2, NextPublish, PTL DEF Spec, PublicationAgrees

-----------------------------------------------------------------------------
(* The handoff between stages *)

\* An unpatched workflow is as it was admitted; each completed stage exported
\* every finding it declares; a stage about to be listed has resolved its own.
HandoffInv ==
  /\ patches = 0 /\ workflow # <<>> => AdmitsWorkflow(workflow)
  /\ Running => \A j \in 1..(idx - 1) :
       workflow[j].name \in DOMAIN outputs /\ outputs[workflow[j].name] = workflow[j].fields
  /\ phase = "sealing" => \A f \in Current.fields : finding[f].state = "resolved"

\* Evidence includes that every demanded finding is resolved.
LEMMA EvidenceResolves ==
    ASSUME NEW says \in BOOLEAN, Evidence(Current, says)
    PROVE  \A f \in Current.fields : finding[f].state = "resolved"
BY DEF Evidence, DecisionHolds

\* Listing a stage that has resolved its findings exports all of them.
LEMMA AdvanceHandoff ==
    ASSUME TypeInv, LedgerInv, HandoffInv, Running, NEW checked \in Nat,
           NEW status \in {"already_satisfied", "completed"},
           Advance(status, checked), UNCHANGED <<program, gateway>>,
           \A f \in Current.fields : finding[f].state = "resolved"
    PROVE  HandoffInv'
<1>1. /\ workflow' = workflow /\ patches' = patches /\ idx' = idx + 1
      /\ phase' \in {"pre", "returned"}
  BY DEF Advance, program
<1>2. /\ DOMAIN outputs' = DOMAIN outputs \cup {Current.name}
      /\ \A n \in DOMAIN outputs' :
           outputs'[n] = IF n = Current.name THEN StageOutput(Current) ELSE outputs[n]
  BY ExportFacts DEF Advance
<1>3. StageOutput(Current) = Current.fields
  BY DEF StageOutput
<1>4. /\ idx \in Nat \ {0} /\ idx \in DOMAIN workflow /\ DOMAIN workflow = 1..Len(workflow)
      /\ Len(workflow) \in Nat
  BY LenProperties DEF TypeInv, WorkflowTypeOK
<1>5. ASSUME NEW j \in 1..idx
      PROVE  workflow[j].name \in DOMAIN outputs' /\ outputs'[workflow[j].name] = workflow[j].fields
  <2>1. CASE j = idx
    BY <1>2, <1>3, <2>1 DEF Current
  <2>2. CASE j \in 1..(idx - 1)
    <3>1. workflow[j].name # Current.name
      BY <1>4, <2>2 DEF LedgerInv, Current
    <3>. QED  BY <1>2, <2>2, <3>1 DEF HandoffInv
  <2>. QED  BY <1>4, <2>1, <2>2
<1>6. \A j \in 1..(idx' - 1) :
        workflow'[j].name \in DOMAIN outputs' /\ outputs'[workflow'[j].name] = workflow'[j].fields
  BY <1>1, <1>4, <1>5
<1>7. patches' = 0 /\ workflow' # <<>> => AdmitsWorkflow(workflow')
  BY <1>1 DEF HandoffInv
<1>. QED  BY <1>1, <1>6, <1>7 DEF HandoffInv, AdmitsWorkflow, AdmitsInputs

\* A step within a stage keeps the handoff.
LEMMA WithinStage ==
    ASSUME TypeInv, HandoffInv, UNCHANGED <<workflow, patches, ledger>>,
           Running' => Running /\ idx' = idx,
           phase' = "sealing" =>
             Running /\ finding' = finding /\ \A f \in Current.fields : finding[f].state = "resolved"
    PROVE  HandoffInv'
<1>1. outputs' = outputs
  BY DEF ledger
<1>2. patches' = 0 /\ workflow' # <<>> => AdmitsWorkflow(workflow)'
  BY DEF HandoffInv, AdmitsWorkflow, AdmitsInputs
<1>3. Running' => \A j \in 1..(idx' - 1) :
        workflow'[j].name \in DOMAIN outputs' /\ outputs'[workflow'[j].name] = workflow'[j].fields
  BY <1>1 DEF HandoffInv
<1>4. phase' = "sealing" => \A f \in Current'.fields : finding'[f].state = "resolved"
  BY DEF Running, Current
<1>. QED  BY <1>2, <1>3, <1>4 DEF HandoffInv

\* Each step of a run keeps the handoff.
LEMMA KernelHandoff == ASSUME TypeInv, LedgerInv, HandoffInv, Kernel PROVE HandoffInv'
<1>1. checks \in Nat
  BY DEF TypeInv, WorkflowTypeOK
<1>2. ASSUME NEW says \in BOOLEAN, CheckBefore(says) PROVE HandoffInv'
  <2>1. CASE Evidence(Current, says)
    BY <1>1, <1>2, <2>1, AdvanceHandoff, EvidenceResolves DEF CheckBefore, Running
  <2>2. CASE ~Evidence(Current, says)
    BY <1>2, <2>2, WithinStage DEF CheckBefore, Running, program
  <2>. QED  BY <2>1, <2>2
<1>3. ASSUME NEW o \in Outcomes, Act(o) \/ Repair(o) PROVE HandoffInv'
  BY <1>3, WithinStage DEF Act, Repair, Running, program
<1>4. ASSUME NEW says \in BOOLEAN, CheckAfterAction(says) \/ CheckAfterRepair(says)
      PROVE  HandoffInv'
  <2>1. /\ phase \in {"acted", "repaired"} /\ UNCHANGED <<workflow, patches, idx, ledger, finding>>
        /\ phase' = "sealing" => Evidence(Current, says)
    BY <1>4 DEF CheckAfterAction, CheckAfterRepair, NextAttempt, program
  <2>. QED  BY <2>1, WithinStage, EvidenceResolves DEF Running
<1>5. ASSUME Running, NEW status \in {"checkpoint_failed", "failed"}, GiveUp(status),
             UNCHANGED <<program, gateway>>
      PROVE  HandoffInv'
  <2>1. patches' = 0 /\ workflow' # <<>> => AdmitsWorkflow(workflow)'
    BY <1>5 DEF program, HandoffInv, AdmitsWorkflow, AdmitsInputs
  <2>2. phase' = "returned"
    BY <1>5 DEF GiveUp
  <2>. QED  BY <2>1, <2>2 DEF HandoffInv, Running
<1>6. ASSUME NEW created \in BOOLEAN, Seal(created) PROVE HandoffInv'
  <2>1. \A f \in Current.fields : finding[f].state = "resolved"
    BY <1>6 DEF Seal, HandoffInv
  <2>. QED  BY <1>1, <1>5, <1>6, <2>1, AdvanceHandoff DEF Seal, Running
<1>7. ASSUME Fail PROVE HandoffInv'
  BY <1>5, <1>7 DEF Fail, Running
<1>8. ASSUME Abort PROVE HandoffInv'
  BY <1>8 DEF Abort, program, HandoffInv, AdmitsWorkflow, AdmitsInputs, Running
<1>9. ASSUME \/ Return
             \/ \E kept \in BOOLEAN : PublishAudit(kept) \/ PublishReport(kept)
      PROVE  HandoffInv'
  <2>1. phase' \in {"audited", "over"} /\ UNCHANGED <<workflow, patches, ledger>>
    BY <1>9 DEF Return, PublishAudit, PublishReport, program
  <2>. QED  BY <2>1, WithinStage DEF Running
<1>. QED  BY <1>2, <1>3, <1>4, <1>6, <1>7, <1>8, <1>9 DEF Kernel

\* Each step keeps the handoff.
LEMMA NextHandoff == TypeInv /\ LedgerInv /\ HandoffInv /\ [Next]_vars => HandoffInv'
<1> SUFFICES ASSUME TypeInv, LedgerInv, HandoffInv, [Next]_vars PROVE HandoffInv'
  OBVIOUS
<1>1. ASSUME StartRun PROVE HandoffInv'
  BY <1>1 DEF StartRun, HandoffInv, AdmitsWorkflow, AdmitsInputs
<1>2. ASSUME NEW w \in Candidates, Compose(w) PROVE HandoffInv'
  BY <1>2 DEF Compose, HandoffInv, AdmitsWorkflow, AdmitsInputs, Running
<1>3. ASSUME NEW target \in StageName, NEW st \in Declared, Patch(target, st) PROVE HandoffInv'
  <2>1. patches' # 0 /\ phase' = "compose"
    BY <1>3, BoundsAssumption DEF Patch, TypeInv, WorkflowTypeOK
  <2>. QED  BY <2>1 DEF HandoffInv, Running
<1>4. ASSUME Rebuild PROVE HandoffInv'
  BY <1>4, WithinStage DEF Rebuild, Running, program
<1>5. ASSUME UNCHANGED vars PROVE HandoffInv'
  BY <1>5 DEF vars, program, stage, ledger, HandoffInv, AdmitsWorkflow, AdmitsInputs, Running, Current
<1>. QED  BY <1>1, <1>2, <1>3, <1>4, <1>5, KernelHandoff DEF Next

\* A stage of an unpatched workflow finds each producer it names, with every typed
\* field it asks of it resolved.
THEOREM HandoffsAreResolved == Spec => []HandoffIsResolved
<1>1. Init => HandoffInv
  BY DEF Init, HandoffInv, Running
<1>2. TypeInv /\ LedgerInv /\ HandoffInv /\ [Next]_vars => (TypeInv /\ LedgerInv /\ HandoffInv)'
  BY NextTypes, NextLedger, NextHandoff
<1>3. TypeInv /\ HandoffInv => HandoffIsResolved
  <2> SUFFICES ASSUME TypeInv, HandoffInv, Running, patches = 0, NEW n \in Current.inputs
               PROVE  n \in DOMAIN outputs /\ Current.asks[n] \subseteq outputs[n]
    BY DEF HandoffIsResolved
  <2>1. idx \in DOMAIN workflow
    BY DEF TypeInv, WorkflowTypeOK
  <2>2. AdmitsInputs(workflow, idx)
    <3>1. workflow \in Seq(Declared) /\ workflow # <<>>
      BY <2>1 DEF TypeInv, WorkflowTypeOK
    <3>. QED  BY <2>1, <3>1 DEF HandoffInv, AdmitsWorkflow
  <2>3. PICK j \in 1..(idx - 1) : workflow[j].name = n /\ workflow[idx].asks[n] \subseteq workflow[j].fields
    BY <2>2 DEF AdmitsInputs, Current
  <2>. QED  BY <2>3 DEF HandoffInv, Current
<1>. QED  BY <1>1, <1>2, <1>3, InitTypes, InitLedger, PTL DEF Spec

-----------------------------------------------------------------------------
(* Probes *)

\* What the last tool call of a field must have been for its observation to count.
Convincing(st, f, latest, matched) ==
  /\ latest \notin {"none", "empty", "truncated", "barred"}
  /\ f \in st.backed =>
       /\ latest # "wrong"
       /\ st.needles[f] \subseteq matched
       /\ latest = "generated" => st.needles[f] = {}

\* What the kernel retains of one field against what its tool calls showed.
FieldProbed(st, f, fi, pr, tr) ==
  /\ pr.matched \subseteq tr.shown
  /\ \A i \in 1..Len(pr.bases) : pr.bases[i] \in tr.at
  /\ pr.status # "none" => Len(pr.bases) \in 1..4
  /\ pr.status = "observed" => Convincing(st, f, tr.latest, pr.matched)
  /\ fi.by = "probe" =>
       /\ Len(fi.basis) \in 1..4
       /\ \A i \in 1..Len(fi.basis) : fi.basis[i] \in tr.at
  /\ f \in st.backed /\ fi.state = "resolved" =>
       /\ fi.by = "probe" /\ pr.status = "resolved"
       /\ Convincing(st, f, tr.latest, pr.matched)

ProbeInv == Running => \A f \in Field : FieldProbed(Current, f, finding[f], probe[f], trail[f])

\* A field nothing is known of is probed as it should.
LEMMA FreshField == ASSUME NEW st, NEW f PROVE FieldProbed(st, f, NoFinding, NoProbe, NoTrail)
BY DEF FieldProbed, NoFinding, NoProbe, NoTrail

\* A new observation is retained as it was made.
LEMMA ObservedField ==
    ASSUME TypeInv, Running, ProbeInv, attempts # 0, NEW o \in Outcomes, Merge(Current, o),
           NEW f \in Field, f = ProbedField(o)
    PROVE  FieldProbed(Current, f, finding'[f], probe'[f], trail'[f])
<1>1. /\ Current \in StageType /\ o \in OutcomeType /\ attempts \in Nat
      /\ probe \in [Field -> ProbeType] /\ trail \in [Field -> TrailType]
  BY CurrentType, OutcomesAssumption, BoundsAssumption DEF TypeInv, WorkflowTypeOK
<1> DEFINE ob == Observation(Current, f, o)
<1>2. /\ probe'[f] = ob /\ finding'[f] = FindingsAfter(o)[f]
      /\ trail'[f] = [shown |-> trail[f].shown \cup (IF o.quality = "generated" THEN {} ELSE o.shows),
                      at |-> trail[f].at \cup {attempts}, latest |-> o.quality]
  BY DEF Merge, ProbesAfter, TrailAfter
<1>3. f = o.field /\ FindingsAfter(o)[f].state # "resolved" /\ o.field # NoField
  BY NoneAssumption DEF ProbedField
<1>4. o.quality # "barred" /\ o.quality \in Quality
  BY <1>1, <1>3 DEF Merge, Accepts, OutcomeType
<1>5. FieldProbed(Current, f, finding[f], probe[f], trail[f])
  BY DEF ProbeInv
<1>6. /\ ob.status \in {"observed", "insufficient"}
      /\ ob.matched = Matched(Current, f, o) /\ Len(ob.bases) \in 1..4
      /\ \A i \in 1..Len(ob.bases) :
           ob.bases[i] = attempts \/ \E j \in 1..Len(probe[f].bases) : ob.bases[i] = probe[f].bases[j]
  BY <1>1, ObservationFacts
<1>61. ob.status = "observed" <=> Sufficient(Current, f, o)
  BY <1>1, ObservationFacts
<1> HIDE DEF ob
<1>7. ob.matched \subseteq trail'[f].shown
  <2>1. CASE o.quality = "generated"
    <3>1. f \notin Current.backed => Current.needles[f] = {}
      BY CurrentType, DeclaredAssumption
    <3>2. Matched(Current, f, o) \subseteq probe[f].matched
      BY <2>1, <3>1 DEF Matched, Generated
    <3>. QED  BY <1>2, <1>5, <1>6, <3>2 DEF FieldProbed
  <2>2. CASE o.quality # "generated"
    <3>1. Matched(Current, f, o) \subseteq probe[f].matched \cup o.shows
      BY DEF Matched
    <3>. QED  BY <1>2, <1>5, <1>6, <2>2, <3>1 DEF FieldProbed
  <2>. QED  BY <2>1, <2>2
<1>8. \A i \in 1..Len(ob.bases) : ob.bases[i] \in trail'[f].at
  BY <1>2, <1>5, <1>6 DEF FieldProbed
<1>9. ob.status = "observed" => Convincing(Current, f, o.quality, ob.matched)
  BY <1>4, <1>6, <1>61 DEF Sufficient, Convincing, Generated, Quality
<1>10. trail'[f].latest = o.quality /\ trail[f].at \subseteq trail'[f].at
  BY <1>2
<1>11. finding'[f].by = "probe" =>
         /\ Len(finding'[f].basis) \in 1..4
         /\ \A i \in 1..Len(finding'[f].basis) : finding'[f].basis[i] \in trail'[f].at
  <2>1. FindingsAfter(o)[f].by = "probe" => FindingsAfter(o)[f] = finding[f]
    BY <1>3 DEF FindingsAfter
  <2>. QED  BY <1>2, <1>5, <1>10, <2>1 DEF FieldProbed
<1>12. Len(ob.bases) \in 1..4 /\ ob.status # "resolved"
  BY <1>6, Zenon
<1>13. finding'[f].state # "resolved" /\ probe'[f] = ob
  BY <1>2, <1>3
<1>14. /\ probe'[f].matched \subseteq trail'[f].shown
       /\ \A i \in 1..Len(probe'[f].bases) : probe'[f].bases[i] \in trail'[f].at
       /\ probe'[f].status = "observed" => Convincing(Current, f, trail'[f].latest, probe'[f].matched)
  BY <1>7, <1>8, <1>9, <1>10, <1>13
<1>15. probe'[f].status # "none" => Len(probe'[f].bases) \in 1..4
  BY <1>12, <1>13, Zenon
<1>. QED  BY <1>11, <1>13, <1>14, <1>15, Zenon DEF FieldProbed

\* A field that is not probed changes only through what the outcome says of it.
LEMMA UnprobedField ==
    ASSUME TypeInv, Running, ProbeInv, attempts # 0, NEW o \in Outcomes, Merge(Current, o),
           NEW f \in Field, f # ProbedField(o)
    PROVE  FieldProbed(Current, f, finding'[f], probe'[f], trail'[f])
<1>1. /\ probe'[f] = IF f \in o.resolves THEN [probe[f] EXCEPT !.status = "resolved"] ELSE probe[f]
      /\ trail'[f] = trail[f] /\ finding'[f] = FindingsAfter(o)[f]
  BY DEF Merge, ProbesAfter, TrailAfter
<1>2. FieldProbed(Current, f, finding[f], probe[f], trail[f]) /\ probe[f] \in ProbeType
  BY DEF ProbeInv, TypeInv, WorkflowTypeOK
<1>3. /\ f \in o.resolves => probe[f].status = "observed"
      /\ f \in o.values => f \notin Current.backed
      /\ f \in Current.backed => o.updates[f] # "resolved"
  BY DEF Merge, Accepts
<1>4. CASE f \in o.resolves
  <2>1. /\ probe'[f].status = "resolved" /\ probe'[f].bases = probe[f].bases
        /\ probe'[f].matched = probe[f].matched
    BY <1>1, <1>2, <1>4 DEF ProbeType
  <2>2. probe[f].status = "observed"
    BY <1>3, <1>4
  <2>21. Convincing(Current, f, trail[f].latest, probe[f].matched)
    BY <1>2, <2>2, Zenon DEF FieldProbed
  <2>22. Len(probe[f].bases) \in 1..4
    BY <1>2, <2>2, Zenon DEF FieldProbed
  <2>3. \/ finding'[f] = [state |-> o.updates[f], by |-> "update", basis |-> <<>>] /\ o.updates[f] # "none"
        \/ finding'[f] = [state |-> "resolved", by |-> "value", basis |-> <<attempts - 1>>] /\ f \in o.values
        \/ finding'[f] = [state |-> "resolved", by |-> "probe", basis |-> probe[f].bases]
    BY <1>1, <1>4 DEF FindingsAfter
  <2>. QED  BY <1>1, <1>2, <1>3, <2>1, <2>21, <2>22, <2>3 DEF FieldProbed
<1>5. CASE f \notin o.resolves
  <2>1. probe'[f] = probe[f]
    BY <1>1, <1>5
  <2>2. \/ finding'[f] = [state |-> o.updates[f], by |-> "update", basis |-> <<>>] /\ o.updates[f] # "none"
        \/ finding'[f] = [state |-> "resolved", by |-> "value", basis |-> <<attempts - 1>>] /\ f \in o.values
        \/ finding'[f] = finding[f]
    BY <1>1, <1>5 DEF FindingsAfter
  <2>. QED  BY <1>1, <1>2, <1>3, <2>1, <2>2 DEF FieldProbed
<1>. QED  BY <1>4, <1>5

\* A step that leaves what the kernel retained alone keeps it proved.
LEMMA ProbeUntouched ==
    ASSUME TypeInv, ProbeInv, UNCHANGED <<workflow, finding, probe, trail>>,
           Running' => Running /\ idx' = idx
    PROVE  ProbeInv'
BY DEF ProbeInv, Current

\* A stage that begins knows nothing.
LEMMA FreshProbes == ASSUME FreshStage PROVE ProbeInv'
<1>1. \A f \in Field : finding'[f] = NoFinding /\ probe'[f] = NoProbe /\ trail'[f] = NoTrail
  BY DEF FreshStage
<1>2. \A f \in Field : FieldProbed(Current', f, NoFinding, NoProbe, NoTrail)
  BY FreshField
<1>. QED  BY <1>1, <1>2 DEF ProbeInv

\* Each step keeps the retained findings proved.
LEMMA NextProbes == TypeInv /\ ProbeInv /\ [Next]_vars => ProbeInv'
<1> SUFFICES ASSUME TypeInv, ProbeInv, [Next]_vars PROVE ProbeInv'
  OBVIOUS
<1>1. ASSUME NEW says \in BOOLEAN, CheckBefore(says) PROVE ProbeInv'
  <2>1. CASE Evidence(Current, says)
    BY <1>1, <2>1, FreshProbes DEF CheckBefore, Advance
  <2>2. CASE ~Evidence(Current, says)
    BY <1>1, <2>2, ProbeUntouched DEF CheckBefore, Running, program
  <2>. QED  BY <2>1, <2>2
<1>2. ASSUME NEW o \in Outcomes, Act(o) \/ Repair(o) PROVE ProbeInv'
  <2>1. Running /\ attempts # 0 /\ Merge(Current, o) /\ UNCHANGED <<workflow, idx>>
    BY <1>2 DEF Act, Repair, Running, TypeInv, program
  <2>2. \A f \in Field : FieldProbed(Current, f, finding'[f], probe'[f], trail'[f])
    BY <2>1, ObservedField, UnprobedField
  <2>. QED  BY <2>1, <2>2 DEF ProbeInv, Current
<1>3. ASSUME NEW says \in BOOLEAN, CheckAfterAction(says) \/ CheckAfterRepair(says)
      PROVE  ProbeInv'
  <2>1. phase \in {"acted", "repaired"} /\ UNCHANGED <<workflow, idx, finding, probe, trail>>
    BY <1>3 DEF CheckAfterAction, CheckAfterRepair, NextAttempt, program
  <2>. QED  BY <2>1, ProbeUntouched DEF Running
<1>4. ASSUME StartRun \/ Abort \/ Fail \/ \E created \in BOOLEAN : Seal(created) PROVE ProbeInv'
  BY <1>4, FreshProbes DEF StartRun, Abort, Fail, Seal, Advance, GiveUp
<1>5. ASSUME \/ Return
             \/ \E kept \in BOOLEAN : PublishAudit(kept) \/ PublishReport(kept)
             \/ Rebuild
      PROVE  ProbeInv'
  <2>1. phase' \in {"audited", "over", "compose"}
    BY <1>5 DEF Return, PublishAudit, PublishReport, Rebuild
  <2>. QED  BY <2>1 DEF ProbeInv, Running
<1>6. ASSUME \/ \E w \in Candidates : Compose(w)
             \/ \E target \in StageName, st \in Declared : Patch(target, st)
      PROVE  ProbeInv'
  <2>1. phase' = "compose"
    BY <1>6 DEF Compose, Patch
  <2>. QED  BY <2>1 DEF ProbeInv, Running
<1>7. ASSUME UNCHANGED vars PROVE ProbeInv'
  BY <1>7, ProbeUntouched DEF vars, program, stage, Running
<1>. QED  BY <1>1, <1>2, <1>3, <1>4, <1>5, <1>6, <1>7 DEF Next, Kernel

\* The retained findings are proved throughout.
LEMMA ProbesHold == Spec => [](TypeInv /\ ProbeInv)
<1>1. Init => ProbeInv
  BY DEF Init, ProbeInv, Running
<1>2. TypeInv /\ ProbeInv /\ [Next]_vars => (TypeInv /\ ProbeInv)'
  BY NextTypes, NextProbes
<1>. QED  BY <1>1, <1>2, InitTypes, PTL DEF Spec

\* The basis of a finding resolved through its probe names actions of the stage
\* that probed the field.
THEOREM ProbeBasesAreReal == Spec => []ProbeBasisIsReal
<1>1. TypeInv /\ ProbeInv => ProbeBasisIsReal
  <2> SUFFICES ASSUME TypeInv, ProbeInv, Running, NEW f \in Field, finding[f].by = "probe"
               PROVE  /\ Len(finding[f].basis) \in 1..4
                      /\ \A i \in DOMAIN finding[f].basis : finding[f].basis[i] \in trail[f].at
    BY DEF ProbeBasisIsReal
  <2>1. DOMAIN finding[f].basis = 1..Len(finding[f].basis)
    BY LenProperties DEF TypeInv, WorkflowTypeOK, FindingType
  <2>. QED  BY <2>1 DEF ProbeInv, FieldProbed
<1>. QED  BY <1>1, ProbesHold, PTL

\* A finding with an evidence predicate is resolved only through a probe that
\* satisfied it, whatever the handlers return and in whatever order.
THEOREM ResolvedFindingsAreProved == Spec => []ResolvedIsProved
<1>1. ASSUME TypeInv, ProbeInv, Running, NEW f \in Current.backed,
             finding[f].state = "resolved"
      PROVE  /\ finding[f].by = "probe" /\ probe[f].status = "resolved"
             /\ Current.needles[f] \subseteq trail[f].shown
             /\ \/ trail[f].latest = "good"
                \/ trail[f].latest = "generated" /\ Current.needles[f] = {}
  <2>1. f \in Field
    BY <1>1, CurrentType DEF StageType
  <2>2. trail[f].latest \in Quality \cup {"none"}
    BY <1>1, <2>1 DEF TypeInv, WorkflowTypeOK, TrailType
  <2>. QED  BY <1>1, <2>1, <2>2 DEF ProbeInv, FieldProbed, Convincing, Quality
<1>2. TypeInv /\ ProbeInv /\ ProbeBasisIsReal => ResolvedIsProved
  BY <1>1 DEF ResolvedIsProved
<1>. QED  BY <1>2, ProbesHold, ProbeBasesAreReal, PTL

\* Nothing is resolved without evidence, or handed on without being resolved
\* (workflow_probe_evidence_assessment).
THEOREM EvidenceHolds == Spec => []EvidenceIsReal
BY HandoffsAreResolved, ResolvedFindingsAreProved, PTL DEF EvidenceIsReal

=============================================================================
