---------------------------- MODULE VmSupervisor ----------------------------
(***************************************************************************)
(* The reusable VM: a supervisor that runs one root process after another, *)
(* each with its own thread, allocation domain and, for an attempt the     *)
(* Gateway places on the VM, a provider lease.  The VM takes the next root *)
(* only after a clean teardown of the last one; otherwise it is poisoned   *)
(* and stays so.  The supervisor and the root's thread never run at the    *)
(* same time (the supervisor joins), but the root can panic at any point,  *)
(* and every call of the kernel and of the Gateway can fail.               *)
(***************************************************************************)
EXTENDS Naturals

CONSTANT MaxGeneration  \* bound: the dispatches a behaviour contains

ASSUME MaxGenerationAssumption == MaxGeneration \in Nat \ {0}

VARIABLES
    vm,          \* VmLifecycleState
    generation,  \* next_generation
    completed,   \* completed_dispatches
    root,        \* the root process being dispatched
    domains,     \* allocation domains alive in the kernel, by generation
    lease,       \* Gateway: the provider lease a dispatch came with
    reported,    \* Gateway: the attempts whose result it has
    answer       \* what the dispatch answered to the host

vmVars == <<vm, generation, completed, root, domains, lease, reported, answer>>

Generation == 1 .. MaxGeneration
Kind == {"task", "lease"}
Step == {"idle", "spawn", "init", "attach", "task", "report", "release", "exited", "panicked"}

\* `client`: the shared Gateway client is installed in the root's thread.
Root == [gen : Generation \cup {0}, kind : Kind, step : Step,
         client : BOOLEAN, ok : BOOLEAN, cleanupError : BOOLEAN]

NoRoot == [gen |-> 0, kind |-> "task", step |-> "idle",
           client |-> FALSE, ok |-> FALSE, cleanupError |-> FALSE]

VmTypeOK ==
    /\ vm \in {"Ready", "Leased", "Draining", "Poisoned"}
    /\ generation \in 1 .. MaxGeneration + 1
    /\ completed \in Nat
    /\ root \in Root
    /\ domains \subseteq Generation
    /\ lease \in [Generation -> {"none", "held", "attached", "released"}]
    /\ reported \subseteq Generation
    /\ answer \in [Generation -> {"none", "success", "failure", "vm_error"}]

VmInit ==
    /\ vm = "Ready"
    /\ generation = 1
    /\ completed = 0
    /\ root = NoRoot
    /\ domains = {}
    /\ lease = [g \in Generation |-> "none"]
    /\ reported = {}
    /\ answer = [g \in Generation |-> "none"]

-----------------------------------------------------------------------------
(***************************************************************************)
(* The supervisor.                                                         *)
(***************************************************************************)
Answer(g, how) == answer' = [answer EXCEPT ![g] = how]

\* Faulty variant: the error is answered and the VM taken for ready again.
PoisonNobody(g) == vm' = "Ready" /\ root' = NoRoot /\ Answer(g, "vm_error")

Poison(g) == vm' = "Poisoned" /\ root' = NoRoot /\ Answer(g, "vm_error")

\* A VM that is not ready answers vm_not_ready and changes nothing.
Dispatch(kind) ==
    /\ vm = "Ready"
    /\ generation <= MaxGeneration
    /\ generation' = generation + 1
    /\ lease' = IF kind = "lease" THEN [lease EXCEPT ![generation] = "held"] ELSE lease
    /\ \/ /\ domains' = domains \cup {generation}
          /\ vm' = "Leased"
          /\ root' = [NoRoot EXCEPT !.gen = generation, !.kind = kind, !.step = "spawn"]
          /\ UNCHANGED answer
       \/ \* process_domain_create_failed
          /\ Poison(generation)
          /\ UNCHANGED domains
    /\ UNCHANGED <<completed, reported>>

\* Releasing a domain gives it back or fails.
ReleaseDomain(g, released) ==
    domains' = IF released THEN domains \ {g} ELSE domains

SpawnWorker ==
    /\ root.step = "spawn"
    /\ \/ /\ vm' = "Draining"
          /\ root' = [root EXCEPT !.step = "init"]
          /\ UNCHANGED <<domains, answer>>
       \/ \* process_spawn_failed
          /\ \E released \in BOOLEAN : ReleaseDomain(root.gen, released)
          /\ Poison(root.gen)
    /\ UNCHANGED <<generation, completed, lease, reported>>

\* Shared by the faulty variants below: the decision after the join, from which
\* steps of the root it is taken, what it counts and on which reason it poisons.
Decision(steps, next, poisoned) ==
    /\ root.step \in steps
    /\ completed' = completed + 1
    /\ generation' = next
    /\ ReleaseDomain(root.gen, TRUE)
    /\ IF poisoned THEN Poison(root.gen)
       ELSE /\ vm' = "Ready"
            /\ root' = NoRoot
            /\ Answer(root.gen, IF root.ok THEN "success" ELSE "failure")
    /\ UNCHANGED <<lease, reported>>

CloseDispatchUnchecked ==
    Decision({"exited", "panicked"}, generation, root.step = "panicked")
CloseDispatchUnjoined ==
    Decision({"exited"}, generation, root.cleanupError)

\* After the join: any reason at all poisons the VM, and the root's response
\* is answered only by a VM that is ready again.  `unreadable`: the promoted
\* response does not parse.
CloseDispatch ==
    /\ root.step \in {"exited", "panicked"}
    /\ completed' = completed + 1
    /\ \E exhausted, released, unreadable \in BOOLEAN :
          /\ ReleaseDomain(root.gen, released)
          /\ IF \/ root.step = "panicked" \/ root.cleanupError
                \/ exhausted \/ ~released \/ unreadable
             THEN Poison(root.gen)
             ELSE /\ vm' = "Ready"
                  /\ root' = NoRoot
                  /\ Answer(root.gen, IF root.ok THEN "success" ELSE "failure")
    /\ UNCHANGED <<generation, lease, reported>>

-----------------------------------------------------------------------------
(***************************************************************************)
(* The root process, on its own thread.                                    *)
(***************************************************************************)
\* A guest that cannot be initialised is an ordinary failed response.
InitGuest ==
    /\ root.step = "init"
    /\ root' = [root EXCEPT !.step = IF root.kind = "lease" THEN "attach" ELSE "task"]
       \/ root' = [root EXCEPT !.step = "release"]
    /\ UNCHANGED <<vm, generation, completed, domains, lease, reported, answer>>

\* Connecting attaches the lease to the channel.  A task that cannot be read
\* closes the channel again, so its client is never installed; the reply to
\* an attachment that took place may also be lost.
Attach ==
    /\ root.step = "attach"
    /\ \E attached, installed \in BOOLEAN :
          /\ installed => attached
          /\ lease' = IF attached THEN [lease EXCEPT ![root.gen] = "attached"] ELSE lease
          /\ root' = [root EXCEPT !.client = installed,
                                  !.step = IF installed THEN "task" ELSE "release"]
    /\ UNCHANGED <<vm, generation, completed, domains, reported, answer>>

RunTask ==
    /\ root.step = "task"
    /\ \E ok \in BOOLEAN :
          root' = [root EXCEPT !.ok = ok,
                               !.step = IF root.kind = "lease" THEN "report" ELSE "release"]
    /\ UNCHANGED <<vm, generation, completed, domains, lease, reported, answer>>

\* Faulty variant: a failed report does not change the response.
ReportUnchecked ==
    /\ root.step = "report"
    /\ \E arrived \in BOOLEAN :
          reported' = IF arrived THEN reported \cup {root.gen} ELSE reported
    /\ root' = [root EXCEPT !.step = "release"]
    /\ UNCHANGED <<vm, generation, completed, domains, lease, answer>>

\* A report that fails, or whose reply is lost, makes the response a failure.
Report ==
    /\ root.step = "report"
    /\ \E arrived, replied \in BOOLEAN :
          /\ replied => arrived
          /\ reported' = IF arrived THEN reported \cup {root.gen} ELSE reported
          /\ root' = [root EXCEPT !.ok = @ /\ replied, !.step = "release"]
    /\ UNCHANGED <<vm, generation, completed, domains, lease, answer>>

\* The Gateway finds a lease it releases clean or not; a lease it keeps is
\* never clean.  Without its client the root cannot ask at all.
ReleaseLease ==
    /\ root.step = "release"
    /\ IF root.kind = "lease" /\ root.client
       THEN \E released, clean \in BOOLEAN :
               /\ clean => released
               /\ lease' = IF released THEN [lease EXCEPT ![root.gen] = "released"] ELSE lease
               /\ root' = [root EXCEPT !.step = "exited", !.client = FALSE,
                                       !.cleanupError = ~clean]
       ELSE /\ root' = [root EXCEPT !.step = "exited",
                                    !.cleanupError = (root.kind = "lease")]
            /\ UNCHANGED lease
    /\ UNCHANGED <<vm, generation, completed, domains, reported, answer>>

\* The thread unwinds: its channel is dropped, its lease is not released.
Panic ==
    /\ root.step \in {"init", "attach", "task", "report", "release"}
    /\ root' = [root EXCEPT !.step = "panicked", !.client = FALSE]
    /\ UNCHANGED <<vm, generation, completed, domains, lease, reported, answer>>

-----------------------------------------------------------------------------
Settle == SpawnWorker \/ InitGuest \/ Attach \/ Report \/ ReleaseLease \/ CloseDispatch

VmNext == (\E kind \in Kind : Dispatch(kind)) \/ Settle \/ RunTask \/ Panic

VmSpec == VmInit /\ [][VmNext]_vmVars

\* The supervisor and a root outside its task proceed; a task may run for ever.
FairVmSpec == VmSpec /\ WF_vmVars(Settle)

-----------------------------------------------------------------------------
(***************************************************************************)
(* Properties.                                                             *)
(***************************************************************************)
\* A ready VM owes nothing to any root it ever ran: no allocation domain, no
\* provider lease, and each accepted dispatch was brought to its end.
ReadyIsClean ==
    vm = "Ready" =>
        /\ domains = {}
        /\ \A g \in Generation : lease[g] \in {"none", "released"}
        /\ completed = generation - 1

\* The VM never holds the lease or the domain of two roots, whatever failed
\* before: what a poisoned dispatch left behind is the last thing it left.
OneRootAtATime ==
    /\ \A g, h \in domains : g = h
    /\ \A g, h \in Generation :
          lease[g] \in {"held", "attached"} /\ lease[h] \in {"held", "attached"} => g = h

\* No root meets anything of another, before it or beside it (dispatch_operation).
RootsAreApart == ReadyIsClean /\ OneRootAtATime

\* A success answered for a leased attempt is known to the Gateway, and its
\* lease is back: no panic, lost reply or failed report hides behind it.
SuccessIsReported ==
    \A g \in Generation :
        answer[g] = "success" /\ lease[g] # "none" =>
            g \in reported /\ lease[g] = "released"

\* A poisoned VM is never used again, and it was the last dispatch that
\* poisoned it: every earlier one was answered with its own response.
PoisonIsFinal ==
    [][/\ vm = "Poisoned" => vm' = "Poisoned" /\ generation' = generation
       /\ vm' # "Poisoned" => \A g \in Generation : answer'[g] # "vm_error"]_vmVars

\* A dispatch whose task does not run for ever ends in a ready or in a
\* poisoned VM, whatever fails in its teardown.
DispatchSettles ==
    root.step \notin {"idle", "task"} ~> (root.step = "task" \/ vm \in {"Ready", "Poisoned"})

\* Inductive invariant: how the VM's state, the root's step and what the
\* current and the earlier dispatches hold go together.
VmInv ==
    /\ root.step = "idle" <=> vm \in {"Ready", "Poisoned"}
    /\ root.step # "idle" => /\ root.gen = generation - 1 /\ root.gen \in Generation
                             /\ domains = {root.gen} /\ completed = generation - 2
                             /\ answer[root.gen] = "none"
    /\ \A g \in Generation :
          /\ g >= generation => /\ lease[g] = "none" /\ answer[g] = "none"
                                /\ g \notin domains /\ g \notin reported
          /\ g < generation - 1 => lease[g] \in {"none", "released"} /\ g \notin domains
          /\ g = generation - 1 /\ vm = "Ready" =>
                lease[g] \in {"none", "released"} /\ g \notin domains
    /\ vm = "Ready" => completed = generation - 1
    /\ vm # "Poisoned" => \A g \in Generation : answer[g] # "vm_error"
    /\ root.step # "idle" => (root.kind = "task" <=> lease[root.gen] = "none")
    /\ root.step \in {"spawn", "init", "attach"} => ~root.ok
    /\ root.step \in {"attach", "report"} => root.kind = "lease"
    /\ root.step = "exited" /\ ~root.cleanupError => lease[root.gen] \in {"none", "released"}
    /\ root.step \in {"release", "exited"} /\ root.ok /\ root.kind = "lease" =>
          root.gen \in reported

=============================================================================
