------------------------ MODULE VmSupervisor_proofs ------------------------
(***************************************************************************)
(* Proofs about the reusable VM, for every number of dispatches.           *)
(***************************************************************************)
EXTENDS VmSupervisor, TLAPS

\* The inductive invariant: types, what the state of a dispatch in progress
\* says about every dispatch, and what an answered success implies.
VmIndInv == VmTypeOK /\ VmInv /\ SuccessIsReported

\* A VM that has just booted satisfies the invariant.
LEMMA VmInitInv == VmInit => VmIndInv
BY MaxGenerationAssumption DEF VmInit, VmIndInv, VmTypeOK, VmInv, SuccessIsReported,
    NoRoot, Root, Generation, Kind, Step

\* The record of no root: what the fields of an idle supervisor are.
LEMMA NoRootFields ==
    /\ NoRoot \in Root
    /\ NoRoot.step = "idle" /\ NoRoot.gen = 0 /\ NoRoot.kind = "task" /\ ~NoRoot.ok
BY DEF NoRoot, Root, Generation, Kind, Step

\* Poisoning the VM while the dispatch with generation g ends keeps types.
LEMMA PoisonTypes ==
    ASSUME VmTypeOK, NEW g \in Generation, Poison(g)
    PROVE  /\ vm' = "Poisoned" /\ root' = NoRoot /\ root' \in Root
           /\ answer' \in [Generation -> {"none", "success", "failure", "vm_error"}]
           /\ \A h \in Generation \ {g} : answer'[h] = answer[h]
           /\ answer'[g] = "vm_error"
BY NoRootFields DEF VmTypeOK, Poison, Answer

\* Admitting a root, or failing to make its domain, keeps the invariant.
LEMMA DispatchInv == ASSUME VmIndInv, NEW kind \in Kind, Dispatch(kind) PROVE VmIndInv'
<1>1. /\ generation \in Generation /\ generation' = generation + 1 /\ vm = "Ready"
      /\ generation' \in 1 .. MaxGeneration + 1
  BY MaxGenerationAssumption DEF VmIndInv, VmTypeOK, Dispatch, Generation
<1>2. /\ lease' \in [Generation -> {"none", "held", "attached", "released"}]
      /\ \A g \in Generation \ {generation} : lease'[g] = lease[g]
      /\ lease'[generation] = IF kind = "lease" THEN "held" ELSE "none"
  BY <1>1 DEF VmIndInv, VmTypeOK, VmInv, Dispatch
<1>3. domains = {} /\ completed = generation - 1 /\ root.step = "idle"
  BY <1>1, MaxGenerationAssumption DEF VmIndInv, VmTypeOK, VmInv, Generation
<1>4. completed' = completed /\ reported' = reported
  BY DEF Dispatch
<1>5. CASE domains' = domains \cup {generation}
  <2>1. /\ vm' = "Leased" /\ answer' = answer
        /\ root' = [NoRoot EXCEPT !.gen = generation, !.kind = kind, !.step = "spawn"]
    BY <1>3, <1>5 DEF Dispatch
  <2>2. /\ root' \in Root /\ root'.gen = generation /\ root'.kind = kind
        /\ root'.step = "spawn" /\ ~root'.ok
    BY <2>1, <1>1 DEF NoRoot, Root, Kind, Step, Generation
  <2>3. VmTypeOK'
    BY <1>1, <1>2, <1>4, <1>5, <2>1, <2>2 DEF VmIndInv, VmTypeOK
  <2>4. VmInv'
    BY <1>1, <1>2, <1>3, <1>4, <1>5, <2>1, <2>2, MaxGenerationAssumption
       DEF VmIndInv, VmTypeOK, VmInv, Generation, Kind
  <2>5. SuccessIsReported'
    BY <1>1, <1>2, <1>4, <2>1 DEF VmIndInv, VmInv, SuccessIsReported, Generation
  <2>. QED  BY <2>3, <2>4, <2>5 DEF VmIndInv
<1>6. CASE Poison(generation) /\ domains' = domains
  <2>1. VmTypeOK'
    BY <1>1, <1>2, <1>4, <1>6, PoisonTypes DEF VmIndInv, VmTypeOK
  <2>2. VmInv'
    BY <1>1, <1>2, <1>3, <1>4, <1>6, PoisonTypes, NoRootFields, MaxGenerationAssumption
       DEF VmIndInv, VmTypeOK, VmInv, Generation
  <2>3. SuccessIsReported'
    BY <1>1, <1>2, <1>4, <1>6, PoisonTypes DEF VmIndInv, VmInv, SuccessIsReported
  <2>. QED  BY <2>1, <2>2, <2>3 DEF VmIndInv
<1>. QED  BY <1>5, <1>6 DEF Dispatch

\* Ending a dispatch in a poisoned VM keeps the invariant, whatever became of
\* its domain and whatever its lease is.
LEMMA PoisonInv ==
    ASSUME VmIndInv, root.step # "idle", Poison(root.gen),
           NEW released \in BOOLEAN, ReleaseDomain(root.gen, released),
           completed' \in Nat, UNCHANGED <<generation, lease, reported>>
    PROVE  VmIndInv'
<1>1. root.gen \in Generation /\ root.gen = generation - 1 /\ domains' \subseteq {root.gen}
  BY DEF VmIndInv, VmInv, ReleaseDomain
<1>2. VmTypeOK'
  BY <1>1, PoisonTypes DEF VmIndInv, VmTypeOK
<1>3. VmInv'
  BY <1>1, PoisonTypes, NoRootFields, MaxGenerationAssumption
     DEF VmIndInv, VmTypeOK, VmInv, Generation
<1>4. SuccessIsReported'
  BY <1>1, PoisonTypes DEF VmIndInv, SuccessIsReported
<1>. QED  BY <1>2, <1>3, <1>4 DEF VmIndInv

\* Starting the root's thread, or failing to, keeps the invariant.
LEMMA SpawnWorkerInv == ASSUME VmIndInv, SpawnWorker PROVE VmIndInv'
<1>1. root.step = "spawn" /\ UNCHANGED <<generation, completed, lease, reported>>
  BY DEF SpawnWorker
<1>2. CASE vm' = "Draining" /\ root' = [root EXCEPT !.step = "init"]
           /\ UNCHANGED <<domains, answer>>
  <2>1. /\ root' \in Root /\ root'.gen = root.gen /\ root'.kind = root.kind
        /\ root'.step = "init" /\ root'.ok = root.ok
    BY <1>2 DEF VmIndInv, VmTypeOK, Root, Step
  <2>2. VmTypeOK' /\ SuccessIsReported'
    BY <1>1, <1>2, <2>1 DEF VmIndInv, VmTypeOK, SuccessIsReported
  <2>3. vm # "Poisoned" /\ vm # "Ready"
    BY <1>1 DEF VmIndInv, VmInv
  <2>4. VmInv'
    BY <1>1, <1>2, <2>1, <2>3 DEF VmIndInv, VmInv
  <2>. QED  BY <2>2, <2>4 DEF VmIndInv
<1>3. CASE /\ \E released \in BOOLEAN : ReleaseDomain(root.gen, released)
           /\ Poison(root.gen)
  <2>1. completed' \in Nat
    BY <1>1 DEF VmIndInv, VmTypeOK
  <2>. QED  BY <1>1, <1>3, <2>1, PoisonInv
<1>. QED  BY <1>2, <1>3 DEF SpawnWorker

\* A step of the root's thread changes the root's record, its lease and its
\* report only; it keeps the invariant when the new record, lease and report
\* are those the invariant asks for.
LEMMA RootStepInv ==
    ASSUME VmIndInv, root.step # "idle",
           UNCHANGED <<vm, generation, completed, domains, answer>>,
           root' \in Root, root'.gen = root.gen, root'.kind = root.kind,
           root'.step \notin {"idle", "spawn", "attach"} \/ (root'.step = "attach" /\ ~root'.ok),
           root'.step # "init",
           root'.step \in {"attach", "report"} => root'.kind = "lease",
           lease' \in [Generation -> {"none", "held", "attached", "released"}],
           \A g \in Generation \ {root.gen} : lease'[g] = lease[g],
           lease'[root.gen] = "none" <=> lease[root.gen] = "none",
           reported \subseteq reported', reported' \subseteq reported \cup {root.gen},
           root'.step = "exited" /\ ~root'.cleanupError => lease'[root.gen] \in {"none", "released"},
           root'.step \in {"release", "exited"} /\ root'.ok /\ root'.kind = "lease" =>
               root'.gen \in reported'
    PROVE  VmIndInv'
<1>1. root.gen \in Generation /\ root.gen = generation - 1 /\ vm \notin {"Ready", "Poisoned"}
  BY DEF VmIndInv, VmInv
<1>2. VmTypeOK'
  BY <1>1 DEF VmIndInv, VmTypeOK
<1>3. answer[root.gen] = "none"
  BY <1>1 DEF VmIndInv, VmInv
<1>4. VmInv'
  <2>1. /\ root'.step # "idle" /\ vm' \notin {"Ready", "Poisoned"}
        /\ root'.gen = generation' - 1 /\ root'.gen \in Generation
        /\ domains' = {root'.gen} /\ completed' = generation' - 2
    BY <1>1 DEF VmIndInv, VmInv
  <2>2. ASSUME NEW g \in Generation
        PROVE  /\ g >= generation' => /\ lease'[g] = "none" /\ answer'[g] = "none"
                                      /\ g \notin domains' /\ g \notin reported'
               /\ g < generation' - 1 => lease'[g] \in {"none", "released"} /\ g \notin domains'
    <3>1. generation \in Nat /\ g \in Nat /\ generation' = generation
      BY MaxGenerationAssumption DEF VmIndInv, VmTypeOK, Generation
    <3>2. CASE g = root.gen
      BY <1>1, <3>1, <3>2
    <3>3. CASE g # root.gen
      BY <1>1, <3>1, <3>3 DEF VmIndInv, VmInv
    <3>. QED  BY <3>2, <3>3
  <2>3. \A g \in Generation : answer'[g] # "vm_error"
    BY <1>1 DEF VmIndInv, VmInv
  <2>4. root'.kind = "task" <=> lease'[root'.gen] = "none"
    BY DEF VmIndInv, VmInv
  <2>5. /\ root'.step \in {"spawn", "init", "attach"} => ~root'.ok
        /\ root'.step \in {"attach", "report"} => root'.kind = "lease"
        /\ answer'[root'.gen] = "none"
    BY <1>3
  <2>. QED  BY <2>1, <2>2, <2>3, <2>4, <2>5 DEF VmInv
<1>5. SuccessIsReported'
  BY <1>1, <1>3 DEF VmIndInv, SuccessIsReported
<1>. QED  BY <1>2, <1>4, <1>5 DEF VmIndInv

\* The steps of the root's thread keep the invariant.
LEMMA RootInv ==
    ASSUME VmIndInv, InitGuest \/ Attach \/ RunTask \/ Report \/ ReleaseLease \/ Panic
    PROVE  VmIndInv'
<1>. USE DEF VmIndInv
<1>1. CASE InitGuest
  <2>1. /\ root' \in Root /\ root'.gen = root.gen /\ root'.kind = root.kind /\ ~root'.ok
        /\ root'.step \in {"attach", "task", "release"}
        /\ root'.step = "attach" => root'.kind = "lease"
    BY <1>1 DEF InitGuest, VmTypeOK, VmInv, Root, Step
  <2>. QED  BY <1>1, <2>1, RootStepInv DEF InitGuest, VmTypeOK
<1>2. CASE Attach
  <2>1. PICK attached \in BOOLEAN, installed \in BOOLEAN :
          /\ lease' = IF attached THEN [lease EXCEPT ![root.gen] = "attached"] ELSE lease
          /\ root' = [root EXCEPT !.client = installed,
                                  !.step = IF installed THEN "task" ELSE "release"]
    BY <1>2 DEF Attach
  <2>2. /\ root' \in Root /\ root'.gen = root.gen /\ root'.kind = root.kind /\ ~root'.ok
        /\ root'.step \in {"task", "release"}
    BY <1>2, <2>1 DEF Attach, VmTypeOK, VmInv, Root, Step
  <2>3. lease[root.gen] # "none"
    BY <1>2 DEF Attach, VmInv
  <2>4. /\ lease' \in [Generation -> {"none", "held", "attached", "released"}]
        /\ \A g \in Generation \ {root.gen} : lease'[g] = lease[g]
        /\ lease'[root.gen] # "none"
    BY <2>1, <2>3 DEF VmTypeOK
  <2>. QED  BY <1>2, <2>2, <2>3, <2>4, RootStepInv DEF Attach
<1>3. CASE RunTask
  <2>1. /\ root' \in Root /\ root'.gen = root.gen /\ root'.kind = root.kind
        /\ root'.step = IF root.kind = "lease" THEN "report" ELSE "release"
    BY <1>3 DEF RunTask, VmTypeOK, Root, Step
  <2>. QED  BY <1>3, <2>1, RootStepInv DEF RunTask, VmTypeOK
<1>4. CASE Report
  <2>1. PICK arrived \in BOOLEAN, replied \in BOOLEAN :
          /\ replied => arrived
          /\ reported' = IF arrived THEN reported \cup {root.gen} ELSE reported
          /\ root' = [root EXCEPT !.ok = @ /\ replied, !.step = "release"]
    BY <1>4 DEF Report
  <2>2. /\ root' \in Root /\ root'.gen = root.gen /\ root'.kind = root.kind
        /\ root'.step = "release"
    BY <2>1 DEF VmTypeOK, Root, Step
  <2>3. root'.ok => replied
    BY <2>1 DEF VmTypeOK, Root
  <2>. QED  BY <1>4, <2>1, <2>2, <2>3, RootStepInv DEF Report, VmTypeOK
<1>5. CASE ReleaseLease
  <2>1. CASE root.kind = "lease" /\ root.client
    <3>1. PICK released \in BOOLEAN, clean \in BOOLEAN :
            /\ clean => released
            /\ lease' = IF released THEN [lease EXCEPT ![root.gen] = "released"] ELSE lease
            /\ root' = [root EXCEPT !.step = "exited", !.client = FALSE,
                                    !.cleanupError = ~clean]
      BY <1>5, <2>1 DEF ReleaseLease
    <3>2. /\ root' \in Root /\ root'.gen = root.gen /\ root'.kind = root.kind
          /\ root'.step = "exited" /\ (root'.ok => root.ok) /\ (~root'.cleanupError => clean)
      BY <3>1 DEF VmTypeOK, Root, Step
    <3>3. lease[root.gen] # "none" /\ root.gen \in Generation
      BY <1>5, <2>1 DEF ReleaseLease, VmInv
    <3>4. /\ lease' \in [Generation -> {"none", "held", "attached", "released"}]
          /\ \A g \in Generation \ {root.gen} : lease'[g] = lease[g]
          /\ lease'[root.gen] # "none" /\ (released => lease'[root.gen] = "released")
      BY <3>1, <3>3 DEF VmTypeOK
    <3>5. root.ok => root.gen \in reported
      BY <1>5, <2>1 DEF ReleaseLease, VmInv
    <3>6. /\ root.step # "idle" /\ reported' = reported
          /\ UNCHANGED <<vm, generation, completed, domains, answer>>
      BY <1>5 DEF ReleaseLease
    <3>7. /\ root'.step = "exited" /\ ~root'.cleanupError => lease'[root.gen] \in {"none", "released"}
          /\ root'.ok => root'.gen \in reported'
          /\ lease'[root.gen] = "none" <=> lease[root.gen] = "none"
      BY <3>1, <3>2, <3>3, <3>4, <3>5, <3>6
    <3>. QED  BY <3>2, <3>4, <3>6, <3>7, RootStepInv
  <2>2. CASE ~(root.kind = "lease" /\ root.client)
    <3>1. /\ root' = [root EXCEPT !.step = "exited", !.cleanupError = (root.kind = "lease")]
          /\ lease' = lease
      BY <1>5, <2>2 DEF ReleaseLease
    <3>2. /\ root' \in Root /\ root'.gen = root.gen /\ root'.kind = root.kind
          /\ root'.step = "exited" /\ (root'.ok => root.ok)
          /\ (~root'.cleanupError => root.kind = "task")
      BY <3>1 DEF VmTypeOK, Root, Step, Kind
    <3>3. root.kind = "task" => lease[root.gen] = "none"
      BY <1>5 DEF ReleaseLease, VmInv
    <3>4. root.ok /\ root.kind = "lease" => root.gen \in reported
      BY <1>5 DEF ReleaseLease, VmInv
    <3>5. /\ root.step # "idle" /\ reported' = reported
          /\ UNCHANGED <<vm, generation, completed, domains, answer>>
      BY <1>5 DEF ReleaseLease
    <3>6. /\ root'.step = "exited" /\ ~root'.cleanupError => lease'[root.gen] \in {"none", "released"}
          /\ root'.ok /\ root'.kind = "lease" => root'.gen \in reported'
      BY <3>1, <3>2, <3>3, <3>4, <3>5
    <3>. QED  BY <3>1, <3>2, <3>5, <3>6, RootStepInv DEF VmTypeOK
  <2>. QED  BY <2>1, <2>2
<1>6. CASE Panic
  <2>1. /\ root' \in Root /\ root'.gen = root.gen /\ root'.kind = root.kind
        /\ root'.step = "panicked"
    BY <1>6 DEF Panic, VmTypeOK, Root, Step
  <2>. QED  BY <1>6, <2>1, RootStepInv DEF Panic, VmTypeOK
<1>. QED  BY <1>1, <1>2, <1>3, <1>4, <1>5, <1>6

\* The decision after the join, ready or poisoned, keeps the invariant.
LEMMA CloseDispatchInv == ASSUME VmIndInv, CloseDispatch PROVE VmIndInv'
<1>1. PICK exhausted \in BOOLEAN, released \in BOOLEAN, unreadable \in BOOLEAN :
        /\ ReleaseDomain(root.gen, released)
        /\ IF \/ root.step = "panicked" \/ root.cleanupError
              \/ exhausted \/ ~released \/ unreadable
           THEN Poison(root.gen)
           ELSE /\ vm' = "Ready"
                /\ root' = NoRoot
                /\ Answer(root.gen, IF root.ok THEN "success" ELSE "failure")
  BY DEF CloseDispatch
<1>2. /\ root.step \in {"exited", "panicked"} /\ completed' = completed + 1
      /\ UNCHANGED <<generation, lease, reported>>
  BY DEF CloseDispatch
<1>3. completed' \in Nat
  BY <1>2 DEF VmIndInv, VmTypeOK
<1>4. CASE Poison(root.gen)
  BY <1>1, <1>2, <1>3, <1>4, PoisonInv
<1>5. CASE /\ root.step = "exited" /\ ~root.cleanupError /\ released
           /\ vm' = "Ready" /\ root' = NoRoot
           /\ Answer(root.gen, IF root.ok THEN "success" ELSE "failure")
  <2>1. /\ root.gen \in Generation /\ root.gen = generation - 1 /\ domains' = {}
        /\ completed' = generation' - 1 /\ vm \notin {"Ready", "Poisoned"}
        /\ generation \in Nat
    BY <1>1, <1>2, <1>5, MaxGenerationAssumption
       DEF VmIndInv, VmTypeOK, VmInv, ReleaseDomain, Generation
  <2>2. /\ answer' \in [Generation -> {"none", "success", "failure", "vm_error"}]
        /\ \A g \in Generation \ {root.gen} : answer'[g] = answer[g]
        /\ answer'[root.gen] = IF root.ok THEN "success" ELSE "failure"
    BY <1>5, <2>1 DEF VmIndInv, VmTypeOK, Answer
  <2>3. VmTypeOK'
    BY <1>2, <1>3, <1>5, <2>1, <2>2, NoRootFields DEF VmIndInv, VmTypeOK
  <2>4. /\ lease[root.gen] \in {"none", "released"}
        /\ root.ok /\ lease[root.gen] # "none" => root.gen \in reported
    BY <1>5 DEF VmIndInv, VmTypeOK, VmInv, Root, Kind
  <2>5. VmInv'
    BY <1>2, <1>5, <2>1, <2>2, <2>4, NoRootFields, MaxGenerationAssumption
       DEF VmIndInv, VmInv, Generation
  <2>6. SuccessIsReported'
    BY <1>2, <2>1, <2>2, <2>4 DEF VmIndInv, SuccessIsReported
  <2>. QED  BY <2>3, <2>5, <2>6 DEF VmIndInv
<1>. QED  BY <1>1, <1>2, <1>4, <1>5

\* Every step keeps the invariant.
LEMMA VmNextInv == VmIndInv /\ [VmNext]_vmVars => VmIndInv'
<1>. SUFFICES ASSUME VmIndInv, [VmNext]_vmVars PROVE VmIndInv'
  OBVIOUS
<1>1. CASE UNCHANGED vmVars
  BY <1>1 DEF VmIndInv, VmTypeOK, VmInv, SuccessIsReported, vmVars
<1>2. CASE VmNext
  BY <1>2, DispatchInv, SpawnWorkerInv, RootInv, CloseDispatchInv DEF VmNext, Settle
<1>. QED  BY <1>1, <1>2

\* The invariant holds in every state of every behaviour.
THEOREM VmInvariance == VmSpec => []VmIndInv
BY VmInitInv, VmNextInv, PTL DEF VmSpec

\* Every variable keeps its type.
THEOREM VmTypeCorrectness == VmSpec => []VmTypeOK
BY VmInvariance, PTL DEF VmIndInv

\* The VM's state, the root's step and what each dispatch holds go together.
THEOREM VmConsistency == VmSpec => []VmInv
BY VmInvariance, PTL DEF VmIndInv

\* A ready VM owes nothing to any root it ever ran.
THEOREM ReadyVmsAreClean == VmSpec => []ReadyIsClean
<1>1. VmIndInv => ReadyIsClean
  BY MaxGenerationAssumption DEF VmIndInv, VmTypeOK, VmInv, ReadyIsClean, Generation
<1>. QED  BY <1>1, VmInvariance, PTL

\* No two roots ever have a lease or a domain on the VM together.
THEOREM RootsAreExclusive == VmSpec => []OneRootAtATime
<1>1. VmIndInv => OneRootAtATime
  BY MaxGenerationAssumption DEF VmIndInv, VmTypeOK, VmInv, OneRootAtATime, Generation
<1>. QED  BY <1>1, VmInvariance, PTL

\* A success answered for a leased attempt was reported and its lease is back.
THEOREM SuccessesAreReported == VmSpec => []SuccessIsReported
BY VmInvariance, PTL DEF VmIndInv

\* A poisoned VM is never used again and was poisoned by its last dispatch.
THEOREM PoisonedVmsStayPoisoned == VmSpec => PoisonIsFinal
<1> DEFINE Final == /\ vm = "Poisoned" => vm' = "Poisoned" /\ generation' = generation
                    /\ vm' # "Poisoned" => \A g \in Generation : answer'[g] # "vm_error"
<1>1. VmIndInv /\ VmIndInv' /\ [VmNext]_vmVars => [Final]_vmVars
  <2>. SUFFICES ASSUME VmIndInv, VmIndInv', VmNext PROVE Final
    OBVIOUS
  <2>1. vm' # "Poisoned" => \A g \in Generation : answer'[g] # "vm_error"
    BY DEF VmIndInv, VmInv
  <2>2. ASSUME vm = "Poisoned" PROVE FALSE
    BY <2>2 DEF VmIndInv, VmInv, VmNext, Settle, Dispatch, SpawnWorker, InitGuest, Attach,
        RunTask, Report, ReleaseLease, Panic, CloseDispatch
  <2>. QED  BY <2>1, <2>2
<1>. QED  BY <1>1, VmInvariance, PTL DEF VmSpec, PoisonIsFinal

\* No root meets anything of another, before it or beside it (dispatch_operation).
THEOREM RootsStayApart == VmSpec => []RootsAreApart
BY ReadyVmsAreClean, RootsAreExclusive, PTL DEF RootsAreApart

=============================================================================
