--------------------------- MODULE Attempt_proofs ---------------------------
(***************************************************************************)
(* Proofs about attempts and what programs build on them, for every set of *)
(* attempts and scopes, every fault model and either reading of repeated   *)
(* Gateway calls: scopes first, then selectors with any scores, then       *)
(* semantic frontiers with any checkpoints and any list length.  Selectors *)
(* settle children behind the back of retained failures, so the invariant  *)
(* of scopes does not hold for them; what is left of it, and the way the   *)
(* records grow, is what they need.  What a step does to attempts and      *)
(* scopes in an evaluation with frontiers is taken from the proofs about   *)
(* scopes.                                                                 *)
(***************************************************************************)
EXTENDS AttemptBest, SemanticFrontiers, TLAPS

-----------------------------------------------------------------------------
(***************************************************************************)
(* Lemmas about the Gateway: how one call or one step of a child moves it. *)
(***************************************************************************)

\* Attempts never disappear, settling is final, and the controller of a
\* settled attempt is not started again.
Evolves ==
    \A a \in Attempt :
        /\ Exists(a) => Exists(a)'
        /\ Settled(a) => gState'[a] = gState[a]
        /\ Settled(a) /\ gController[a] # "running" => gController'[a] # "running"

\* No controller starts.
NothingStarts ==
    \A a \in Attempt : gController[a] # "running" => gController'[a] # "running"

\* Settled attempts stay so, hence a merged one is never active again.
MergedIsSettled == \A a \in gMerged : Settled(a)

\* attempt_spawn, attempt_fork and attempt_branch create at most the attempt asked for.
LEMMA CreateStep ==
    ASSUME GatewayTypeOK, MergedIsSettled, NEW a \in Attempt, NEW start \in BOOLEAN, NEW r,
           Create(a, start, r)
    PROVE  /\ GatewayTypeOK' /\ MergedIsSettled' /\ Evolves
           /\ r = "ok" => Exists(a)'
<1>1. CASE gState' = gState /\ gController' = gController
  BY <1>1, FaultsAssumption, LenientAssumption
  DEF Create, GatewayTypeOK, MergedIsSettled, Evolves, Exists, Settled, Unapplied, Applied,
      AttemptState
<1>2. CASE /\ gState' = [gState EXCEPT ![a] = "active"]
           /\ gController' = [gController EXCEPT ![a] = IF start THEN "running" ELSE "absent"]
  BY <1>2 DEF Create, GatewayTypeOK, MergedIsSettled, Evolves, Exists, Settled, AttemptState,
              ControllerState
<1>3. QED
  BY <1>1, <1>2 DEF Create

\* attempt_start moves no attempt's state and wakes no settled attempt.
LEMMA StartStep ==
    ASSUME GatewayTypeOK, MergedIsSettled, NEW a \in Attempt, NEW r, Start(a, r)
    PROVE  GatewayTypeOK' /\ MergedIsSettled' /\ Evolves
BY DEF Start, GatewayTypeOK, MergedIsSettled, Evolves, Exists, Settled, Active, AttemptState,
       ControllerState

\* attempt_terminate that answers "ok" leaves no controller running.
LEMMA TerminateStep ==
    ASSUME GatewayTypeOK, MergedIsSettled, NEW a \in Attempt, NEW r, Terminate(a, r)
    PROVE  /\ GatewayTypeOK' /\ MergedIsSettled' /\ Evolves /\ NothingStarts
           /\ r = "ok" => gController'[a] # "running"
<1>1. CASE UNCHANGED gController
  BY <1>1 DEF Terminate, GatewayTypeOK, MergedIsSettled, Evolves, NothingStarts, Exists, Settled,
              Unapplied, Applied
<1>2. CASE gController' = [gController EXCEPT ![a] = "terminating"]
  BY <1>2 DEF Terminate, GatewayTypeOK, MergedIsSettled, Evolves, NothingStarts, Exists, Settled,
              ControllerState
<1>3. QED
  BY <1>1, <1>2 DEF Terminate

\* attempt_finish and attempt_discard that answer "ok" leave the attempt settled.
LEMMA FinishStep ==
    ASSUME GatewayTypeOK, MergedIsSettled, NEW a \in Attempt,
           NEW outcome \in {"failed", "rolled_back"}, NEW r, Finish(a, outcome, r)
    PROVE  /\ GatewayTypeOK' /\ MergedIsSettled' /\ Evolves /\ NothingStarts
           /\ r = "ok" => Settled(a)'
<1>1. CASE UNCHANGED gState
  BY <1>1 DEF Finish, GatewayTypeOK, MergedIsSettled, Evolves, NothingStarts, Exists, Settled,
              Unapplied, Applied
<1>2. CASE Active(a) /\ gState' = [gState EXCEPT ![a] = outcome]
  BY <1>2 DEF Finish, GatewayTypeOK, MergedIsSettled, Evolves, NothingStarts, Exists, Settled,
              Active, AttemptState
<1>3. QED
  BY <1>1, <1>2 DEF Finish

\* attempt_accept that answers "ok" leaves the attempt settled.
LEMMA AcceptStep ==
    ASSUME GatewayTypeOK, MergedIsSettled, NEW a \in Attempt, NEW r, Accept(a, r)
    PROVE  /\ GatewayTypeOK' /\ MergedIsSettled' /\ Evolves /\ NothingStarts
           /\ r = "ok" => Settled(a)'
<1>1. CASE UNCHANGED <<gState, gMerged>>
  BY <1>1 DEF Accept, GatewayTypeOK, MergedIsSettled, Evolves, NothingStarts, Exists, Settled,
              Unapplied, Applied
<1>2. CASE /\ Active(a)
           /\ gState' = [gState EXCEPT ![a] = "rolled_back"]
           /\ gMerged' = gMerged \cup {a}
  BY <1>2 DEF Accept, GatewayTypeOK, MergedIsSettled, Evolves, NothingStarts, Exists, Settled,
              Active, AttemptState
<1>3. QED
  BY <1>1, <1>2 DEF Accept

\* attempt_report changes the reported status only.
LEMMA ReportStep ==
    ASSUME GatewayTypeOK, MergedIsSettled, NEW a \in Attempt, NEW succeeded \in BOOLEAN,
           Report(a, succeeded)
    PROVE  GatewayTypeOK' /\ MergedIsSettled' /\ Evolves /\ NothingStarts
BY DEF Report, GatewayTypeOK, MergedIsSettled, Evolves, NothingStarts, Exists, Settled

\* A child on its own never unsettles an attempt and never starts a controller.
LEMMA ChildStepStep ==
    ASSUME GatewayTypeOK, MergedIsSettled, ChildStep
    PROVE  GatewayTypeOK' /\ MergedIsSettled' /\ Evolves /\ NothingStarts
<1>1. ASSUME NEW a \in Attempt, ControllerStops(a)
      PROVE  GatewayTypeOK' /\ MergedIsSettled' /\ Evolves /\ NothingStarts
  BY <1>1 DEF ControllerStops, GatewayTypeOK, MergedIsSettled, Evolves, NothingStarts, Exists,
              Settled, ControllerState
<1>2. ASSUME NEW a \in Attempt, ChildReports(a)
      PROVE  GatewayTypeOK' /\ MergedIsSettled' /\ Evolves /\ NothingStarts
  BY <1>2, ReportStep DEF ChildReports
<1>3. ASSUME NEW a \in Attempt, ChildFinishes(a)
      PROVE  GatewayTypeOK' /\ MergedIsSettled' /\ Evolves /\ NothingStarts
  BY <1>3, FinishStep DEF ChildFinishes
<1>4. QED
  BY <1>1, <1>2, <1>3 DEF ChildStep

-----------------------------------------------------------------------------
(***************************************************************************)
(* The inductive invariant.                                                *)
(***************************************************************************)
Inv ==
    /\ TypeOK
    /\ ResolvedIsSettled
    /\ ClosedIsResolved
    /\ RetainedFailureIsOwned
    /\ SweptIsCancelled
    /\ CleanupInv

\* An evaluation that has just begun satisfies the invariant.
LEMMA InitInv == Init => Inv
BY NoneAssumption
DEF Init, Inv, TypeOK, ResolvedIsSettled, ClosedIsResolved, RetainedFailureIsOwned,
    SweptIsCancelled, CleanupInv, BookkeepingInv, ClosingInv, EndingInv, GatewayInit,
    GatewayTypeOK, AttemptState, ControllerState, ScopeStatus, Closing, NotClosing, Step

\* A step of the Gateway alone preserves the invariant, provided no controller
\* starts while a cleanup is under way.
LEMMA GatewayOnly ==
    ASSUME Inv, GatewayTypeOK', MergedIsSettled', Evolves,
           NothingStarts \/ closing.step = "idle",
           UNCHANGED <<svars, pvars, cvars, evars>>
    PROVE  Inv'
<1> USE DEF svars, pvars, cvars, evars
<1>1. TypeOK'
  BY DEF Inv, TypeOK
<1>2. ResolvedIsSettled'
  BY DEF Inv, TypeOK, ResolvedIsSettled, Evolves, Settled
<1>3. ClosedIsResolved' /\ RetainedFailureIsOwned'
  BY DEF Inv, ClosedIsResolved, RetainedFailureIsOwned, OwnsJoined
<1>4. SweptIsCancelled'
  BY DEF Inv, TypeOK, SweptIsCancelled, Evolves, Settled
<1>5. BookkeepingInv'
  BY DEF Inv, TypeOK, CleanupInv, BookkeepingInv, MergedIsSettled, Evolves
<1>6. ClosingInv'
  <2>1. closing.child \in Attempt \/ closing.step \in {"idle", "next"}
    BY DEF Inv, TypeOK, CleanupInv, ClosingInv, Closing
  <2>2. QED
    BY <2>1 DEF Inv, TypeOK, CleanupInv, ClosingInv, Evolves, NothingStarts, Settled
<1>7. EndingInv'
  BY DEF Inv, CleanupInv, EndingInv
<1>8. QED
  BY <1>1, <1>2, <1>3, <1>4, <1>5, <1>6, <1>7 DEF Inv, CleanupInv

-----------------------------------------------------------------------------
(***************************************************************************)
(* The program's builtins preserve it.                                     *)
(***************************************************************************)

\* attempt_scope opens a scope nobody has used.
LEMMA NewScopeInv ==
    ASSUME Inv, NEW s \in Scope, NewScope(s)
    PROVE  Inv'
<1> USE DEF gvars, pvars, cvars, evars, NewScope, Ready
<1>1. TypeOK'
  BY DEF Inv, TypeOK, GatewayTypeOK, ScopeStatus
<1>2. ResolvedIsSettled' /\ ClosedIsResolved' /\ SweptIsCancelled'
  BY DEF Inv, TypeOK, ResolvedIsSettled, ClosedIsResolved, SweptIsCancelled, Settled
<1>3. RetainedFailureIsOwned'
  BY DEF Inv, TypeOK, RetainedFailureIsOwned, OwnsJoined
<1>4. CleanupInv'
  BY DEF Inv, TypeOK, CleanupInv, BookkeepingInv, ClosingInv, EndingInv, Exists, Settled
<1>5. QED
  BY <1>1, <1>2, <1>3, <1>4 DEF Inv

\* Creating a child registers it, if at all, with an open scope.
LEMMA SpawnInv ==
    ASSUME Inv, NEW a \in Attempt, NEW s \in Scope \cup {None}, NEW start \in BOOLEAN,
           NEW r \in Reply, Spawn(a, s, start, r)
    PROVE  Inv'
<1> USE DEF svars, pvars, cvars, evars, Spawn, Ready
<1>1. GatewayTypeOK' /\ MergedIsSettled' /\ Evolves /\ (r = "ok" => Exists(a)')
  BY CreateStep DEF Inv, TypeOK, CleanupInv, BookkeepingInv, MergedIsSettled
<1>2. \/ UNCHANGED children
      \/ /\ s \in Scope /\ scopeStatus[s] = "open" /\ r = "ok"
         /\ children' = [children EXCEPT ![s] = @ \cup {a}]
  BY DEF Register
<1>3. TypeOK'
  BY <1>1, <1>2 DEF Inv, TypeOK
<1>4. ResolvedIsSettled' /\ ClosedIsResolved' /\ SweptIsCancelled'
  BY <1>1, <1>2 DEF Inv, TypeOK, ResolvedIsSettled, ClosedIsResolved, SweptIsCancelled,
                    Evolves, Settled
<1>5. RetainedFailureIsOwned'
  BY DEF Inv, RetainedFailureIsOwned, OwnsJoined
<1>6. CleanupInv'
  BY <1>1, <1>2 DEF Inv, TypeOK, CleanupInv, BookkeepingInv, ClosingInv, EndingInv,
                    MergedIsSettled, Evolves
<1>7. QED
  BY <1>3, <1>4, <1>5, <1>6, <1>1 DEF Inv

\* attempt_scope_add registers an existing child with an open scope.
LEMMA AddToScopeInv ==
    ASSUME Inv, NEW s \in Scope, NEW a \in Attempt, AddToScope(s, a)
    PROVE  Inv'
<1> USE DEF gvars, pvars, cvars, evars, AddToScope, Register, Ready
<1>1. TypeOK'
  BY DEF Inv, TypeOK, GatewayTypeOK
<1>2. ResolvedIsSettled' /\ ClosedIsResolved' /\ SweptIsCancelled'
  BY DEF Inv, TypeOK, ResolvedIsSettled, ClosedIsResolved, SweptIsCancelled, Settled
<1>3. RetainedFailureIsOwned'
  BY DEF Inv, RetainedFailureIsOwned, OwnsJoined
<1>4. CleanupInv'
  BY DEF Inv, TypeOK, CleanupInv, BookkeepingInv, ClosingInv, EndingInv, Exists, Settled
<1>5. QED
  BY <1>1, <1>2, <1>3, <1>4 DEF Inv

\* Joining marks registered children only.
LEMMA JoiningInv ==
    ASSUME Inv, NEW A \in SUBSET Attempt, Ready, joined' = JoinedEverywhere(A),
           outcomes' \subseteq Outcome,
           UNCHANGED <<gvars, scopeStatus, children, resolved, failures, cvars, evars>>
    PROVE  Inv'
<1> USE DEF gvars, cvars, evars, Ready, JoinedEverywhere
<1>1. TypeOK'
  BY DEF Inv, TypeOK, GatewayTypeOK
<1>2. ResolvedIsSettled' /\ ClosedIsResolved' /\ SweptIsCancelled'
  BY DEF Inv, TypeOK, ResolvedIsSettled, ClosedIsResolved, SweptIsCancelled, Settled
<1>3. RetainedFailureIsOwned'
  <2>1. \A f \in failures : f[1] \in Scope
    BY DEF Inv, TypeOK
  <2>2. QED
    BY <2>1 DEF Inv, TypeOK, RetainedFailureIsOwned, OwnsJoined
<1>4. CleanupInv'
  BY DEF Inv, TypeOK, CleanupInv, BookkeepingInv, ClosingInv, EndingInv, Exists, Settled
<1>5. QED
  BY <1>1, <1>2, <1>3, <1>4 DEF Inv

\* attempt_failure retains what the scope owns, once.
LEMMA RetainFailureInv ==
    ASSUME Inv, NEW s \in Scope, NEW o \in outcomes, RetainFailure(s, o)
    PROVE  Inv'
<1> USE DEF gvars, svars, cvars, evars, RetainFailure, Ready
<1>1. o.attempt \in Attempt
  BY DEF Inv, TypeOK, Outcome
<1>2. TypeOK'
  BY <1>1 DEF Inv, TypeOK, GatewayTypeOK
<1>3. ResolvedIsSettled' /\ ClosedIsResolved' /\ SweptIsCancelled'
  BY DEF Inv, TypeOK, ResolvedIsSettled, ClosedIsResolved, SweptIsCancelled, Settled
<1>4. RetainedFailureIsOwned'
  BY DEF Inv, RetainedFailureIsOwned, OwnsJoined
<1>5. CleanupInv'
  BY DEF Inv, CleanupInv, BookkeepingInv, ClosingInv, EndingInv, Exists, Settled
<1>6. QED
  BY <1>2, <1>3, <1>4, <1>5 DEF Inv

\* attempt_accept and attempt_discard resolve what the Gateway settled.
LEMMA ResolveChildInv ==
    ASSUME Inv, NEW a \in Attempt, NEW r, Ready, ResolveChild(a, r),
           GatewayTypeOK', MergedIsSettled', Evolves, r = "ok" => Settled(a)',
           UNCHANGED <<scopeStatus, children, joined, outcomes, cvars, evars>>
    PROVE  Inv'
<1> USE DEF cvars, evars, Ready
<1>1. \/ UNCHANGED <<resolved, failures>>
      \/ /\ Settled(a)'
         /\ resolved' = [s \in Scope |-> resolved[s] \cup ({a} \cap children[s])]
         /\ failures' = {f \in failures : f[2] # a}
  BY DEF ResolveChild, ResolvedEverywhere, FailuresWithout
<1>2. TypeOK'
  BY <1>1 DEF Inv, TypeOK
<1>3. ResolvedIsSettled'
  BY <1>1 DEF Inv, TypeOK, ResolvedIsSettled, Evolves, Settled
<1>4. ClosedIsResolved' /\ SweptIsCancelled'
  BY <1>1 DEF Inv, TypeOK, ClosedIsResolved, SweptIsCancelled, Evolves, Settled
<1>5. RetainedFailureIsOwned'
  <2>1. \A f \in failures : f[1] \in Scope
    BY DEF Inv, TypeOK
  <2>2. QED
    BY <1>1, <2>1 DEF Inv, TypeOK, RetainedFailureIsOwned, OwnsJoined
<1>6. CleanupInv'
  BY <1>1 DEF Inv, TypeOK, CleanupInv, BookkeepingInv, ClosingInv, EndingInv,
              MergedIsSettled, Evolves
<1>7. QED
  BY <1>2, <1>3, <1>4, <1>5, <1>6 DEF Inv

-----------------------------------------------------------------------------
(***************************************************************************)
(* The calls of close_attempt_scope preserve it.                           *)
(***************************************************************************)

\* A cleanup starts over the children that are not resolved yet.
LEMMA BeginCloseInv ==
    ASSUME Inv, NEW s \in Scope, BeginClose(s), closing.step = "idle", phase # "done",
           endTodo' = endTodo \/ endTodo' = endTodo \ {s},
           UNCHANGED <<gvars, svars, pvars, swept, phase, dirty>>
    PROVE  Inv'
<1> USE DEF gvars, svars, pvars, BeginClose
<1>1. closing' = [scope |-> s, step |-> "next", child |-> None, todo |-> children[s] \ resolved[s],
                  clean |-> TRUE, seen |-> "unknown", err |-> FALSE]
  BY DEF NotClosing
<1>2. TypeOK'
  <2>1. children[s] \ resolved[s] \in SUBSET Attempt
    BY DEF Inv, TypeOK
  <2>2. closing' \in Closing
    <3> DEFINE todo == children[s] \ resolved[s]
    <3>1. todo \in SUBSET Attempt /\ closing'.todo = todo
      BY <1>1, <2>1
    <3> HIDE DEF todo
    <3>2. [scope |-> s, step |-> "next", child |-> None, todo |-> todo,
           clean |-> TRUE, seen |-> "unknown", err |-> FALSE] \in Closing
      BY <3>1 DEF Closing, Step
    <3>3. QED
      BY <1>1, <3>2 DEF todo
  <2>3. QED
    BY <2>2 DEF Inv, TypeOK, GatewayTypeOK
<1>3. ResolvedIsSettled' /\ ClosedIsResolved' /\ SweptIsCancelled' /\ RetainedFailureIsOwned'
  BY DEF Inv, ResolvedIsSettled, ClosedIsResolved, SweptIsCancelled, Settled,
         RetainedFailureIsOwned, OwnsJoined
<1>4. CleanupInv'
  BY <1>1, NoneAssumption
  DEF Inv, TypeOK, CleanupInv, BookkeepingInv, ClosingInv, EndingInv, Exists, Settled
<1>5. QED
  BY <1>2, <1>3, <1>4 DEF Inv

\* The parts of the invariant that do not look at the cleanup in progress
\* survive a step that changes nothing else.
LEMMA ClosingOnly ==
    ASSUME Inv, closing' \in Closing, UNCHANGED <<gvars, svars, pvars, swept, evars>>
    PROVE  /\ TypeOK' /\ ResolvedIsSettled' /\ ClosedIsResolved' /\ RetainedFailureIsOwned'
           /\ SweptIsCancelled' /\ BookkeepingInv'
<1> USE DEF gvars, svars, pvars, evars
<1>1. TypeOK'
  BY DEF Inv, TypeOK, GatewayTypeOK
<1>2. QED
  BY <1>1 DEF Inv, ResolvedIsSettled, ClosedIsResolved, RetainedFailureIsOwned, SweptIsCancelled,
              CleanupInv, BookkeepingInv, OwnsJoined, Settled, Exists

\* The first attempt_state call of a child.
LEMMA ObserveInv ==
    ASSUME Inv, NEW a \in Attempt, Observe(a)
    PROVE  Inv'
<1> USE DEF gvars, svars, pvars, evars, Observe
<1>1. /\ closing.step = "next" /\ a \in closing.todo
      /\ closing' \in Closing
      /\ closing'.scope = closing.scope /\ closing'.todo = closing.todo
      /\ closing'.clean = closing.clean /\ closing'.child = a
  <2>1. closing \in Closing /\ gState[a] \in AttemptState
    BY DEF Inv, TypeOK, GatewayTypeOK
  <2>2. PICK seen \in AttemptState \cup {"unknown"}, err \in BOOLEAN,
             step \in {"terminate", "wait", "recheck"} :
          closing' = [closing EXCEPT !.child = a, !.seen = seen, !.err = err, !.step = step]
    BY <2>1
  <2>3. QED
    BY <2>1, <2>2 DEF Closing, Step
<1>2. \/ /\ closing'.seen = gState[a]
         /\ closing'.step \in {"terminate", "wait", "recheck"}
         /\ closing'.step # "terminate" /\ gState[a] = "active" => gController[a] # "running"
      \/ closing'.seen = "unknown" /\ closing'.err /\ closing'.step = "recheck"
  BY DEF Inv, TypeOK, Closing, Active, Live
<1>3. ClosingInv'
  <2>1. Exists(a) /\ gState[a] \in AttemptState
    BY <1>1 DEF Inv, TypeOK, GatewayTypeOK, CleanupInv, ClosingInv, BookkeepingInv
  <2>2. QED
    BY <1>1, <1>2, <2>1 DEF Inv, CleanupInv, ClosingInv, Settled, Exists, AttemptState
<1>4. EndingInv'
  BY <1>1, <1>2 DEF Inv, CleanupInv, EndingInv
<1>5. QED
  BY <1>1, <1>3, <1>4, ClosingOnly DEF Inv, CleanupInv

\* attempt_terminate of the child.
LEMMA CancelInv ==
    ASSUME Inv, NEW r \in Reply, Cancel(r)
    PROVE  Inv'
<1> USE DEF svars, pvars, evars, Cancel
<1>1. closing.child \in Attempt /\ closing.scope \in Scope
  BY DEF Inv, TypeOK, CleanupInv, ClosingInv, Closing
<1>2. /\ GatewayTypeOK' /\ MergedIsSettled' /\ Evolves /\ NothingStarts
      /\ r = "ok" => gController'[closing.child] # "running"
  BY <1>1, TerminateStep DEF Inv, TypeOK, CleanupInv, BookkeepingInv, MergedIsSettled
<1>3. /\ closing' \in Closing
      /\ closing'.scope = closing.scope /\ closing'.todo = closing.todo
      /\ closing'.clean = closing.clean /\ closing'.child = closing.child
      /\ closing'.seen = closing.seen /\ closing'.step \in {"wait", "recheck"}
      /\ closing'.err = (closing.err \/ r = "error")
  BY DEF Inv, TypeOK, Closing, Step, Reply
<1>4. TypeOK'
  BY <1>2, <1>3 DEF Inv, TypeOK
<1>5. ResolvedIsSettled' /\ SweptIsCancelled'
  BY <1>2 DEF Inv, TypeOK, ResolvedIsSettled, SweptIsCancelled, Evolves, Settled
<1>6. ClosedIsResolved' /\ RetainedFailureIsOwned'
  BY DEF Inv, ClosedIsResolved, RetainedFailureIsOwned, OwnsJoined
<1>7. BookkeepingInv'
  BY <1>2 DEF Inv, TypeOK, CleanupInv, BookkeepingInv, MergedIsSettled, Evolves
<1>8. ClosingInv'
  BY <1>1, <1>2, <1>3 DEF Inv, CleanupInv, ClosingInv, Evolves, Settled, Reply
<1>9. EndingInv'
  BY <1>3 DEF Inv, CleanupInv, EndingInv
<1>10. QED
  BY <1>4, <1>5, <1>6, <1>7, <1>8, <1>9 DEF Inv, CleanupInv

\* attempt_wait of the child, bounded by join_timeout_ms.
LEMMA AwaitChildInv ==
    ASSUME Inv, AwaitChild
    PROVE  Inv'
<1> USE DEF gvars, pvars, evars, AwaitChild
<1>1. /\ closing.child \in Attempt /\ closing.scope \in Scope
      /\ closing.child \in children[closing.scope]
  BY DEF Inv, TypeOK, CleanupInv, ClosingInv, Closing
<1>2. /\ closing' \in Closing
      /\ closing'.scope = closing.scope /\ closing'.todo = closing.todo
      /\ closing'.clean = closing.clean /\ closing'.child = closing.child
      /\ closing'.seen = closing.seen /\ closing'.step = "recheck"
      /\ closing.err => closing'.err
  BY DEF Inv, TypeOK, Closing, Step
<1>3. \/ joined' = joined
      \/ joined' = [joined EXCEPT ![closing.scope] = @ \cup {closing.child}]
  OBVIOUS
<1>4. TypeOK'
  BY <1>1, <1>2, <1>3 DEF Inv, TypeOK, GatewayTypeOK
<1>5. ResolvedIsSettled' /\ SweptIsCancelled' /\ ClosedIsResolved'
  BY DEF Inv, ResolvedIsSettled, SweptIsCancelled, ClosedIsResolved, Settled
<1>6. RetainedFailureIsOwned'
  <2>1. \A f \in failures : f[1] \in Scope
    BY DEF Inv, TypeOK
  <2>2. QED
    BY <1>1, <1>3, <2>1 DEF Inv, TypeOK, RetainedFailureIsOwned, OwnsJoined
<1>7. BookkeepingInv'
  BY <1>1, <1>3 DEF Inv, TypeOK, CleanupInv, BookkeepingInv, Exists, Settled
<1>8. ClosingInv' /\ EndingInv'
  BY <1>2 DEF Inv, CleanupInv, ClosingInv, EndingInv, Settled
<1>9. QED
  BY <1>4, <1>5, <1>6, <1>7, <1>8 DEF Inv, CleanupInv

\* The report of a child moves the cleanup to the next one; a child left out
\* of `resolved` makes the pass unclean.
LEMMA ReportedInv ==
    ASSUME Inv, NEW c, c = closing.child, NEW seen, NEW err \in BOOLEAN, ChildReported(seen, err),
           closing.step \in {"recheck", "discard"},
           GatewayTypeOK', MergedIsSettled', Evolves, NothingStarts,
           swept' \subseteq Attempt,
           \A a \in swept' : Settled(a)' /\ gController'[a] # "running",
           \/ ResolveOwn /\ Settled(c)'
           \/ (err \/ seen \in {"active", "unknown"}) /\ UNCHANGED <<resolved, failures>>,
           UNCHANGED <<scopeStatus, children, joined, outcomes, evars>>
    PROVE  Inv'
<1> USE DEF evars
<1>1. /\ closing.child \in Attempt /\ closing.scope \in Scope
      /\ closing.child \in closing.todo /\ closing.child \in children[closing.scope]
      /\ scopeStatus[closing.scope] = "open"
  BY DEF Inv, TypeOK, CleanupInv, ClosingInv, Closing
<1>2. \/ UNCHANGED <<resolved, failures>>
      \/ /\ resolved' = [resolved EXCEPT ![closing.scope] = @ \cup {closing.child}]
         /\ failures' = {f \in failures : f[2] # closing.child}
         /\ Settled(c)'
  BY DEF ResolveOwn, FailuresWithout
<1>3. /\ closing' \in Closing
      /\ closing'.scope = closing.scope /\ closing'.step = "next"
      /\ closing'.todo = closing.todo \ {closing.child}
      /\ closing'.clean => closing.clean /\ ~err /\ seen \notin {"active", "unknown"}
  BY DEF ChildReported, Inv, TypeOK, Closing, Step, AttemptState
<1>4. TypeOK'
  <2>1. resolved' \in [Scope -> SUBSET Attempt] /\ failures' \subseteq Scope \X Attempt
    BY <1>1, <1>2 DEF Inv, TypeOK
  <2>2. QED
    BY <1>3, <2>1 DEF Inv, TypeOK
<1>5. ResolvedIsSettled' /\ SweptIsCancelled'
  <2>1. SweptIsCancelled'
    BY DEF SweptIsCancelled, Settled
  <2>2. \A a \in Attempt : Settled(a) => Settled(a)'
    BY DEF Evolves, Settled
  <2>3. ASSUME NEW s \in Scope, NEW a \in resolved'[s]
        PROVE  Settled(a)'
    <3>1. a \in resolved[s] \/ (a = c /\ Settled(c)')
      <4>1. resolved \in [Scope -> SUBSET Attempt]
        BY DEF Inv, TypeOK
      <4>2. CASE resolved' = resolved
        BY <4>2, <2>3
      <4>3. CASE /\ resolved' = [resolved EXCEPT ![closing.scope] = @ \cup {closing.child}]
                 /\ Settled(c)'
        BY <1>1, <4>1, <4>3, <2>3
      <4>4. QED
        BY <1>2, <4>2, <4>3
    <3>2. resolved[s] \subseteq Attempt
      BY DEF Inv, TypeOK
    <3>3. QED
      BY <3>1, <3>2, <2>2 DEF Inv, ResolvedIsSettled
  <2>4. QED
    BY <2>1, <2>3 DEF ResolvedIsSettled
<1>6. ClosedIsResolved'
  BY <1>1, <1>2 DEF Inv, TypeOK, ClosedIsResolved
<1>7. RetainedFailureIsOwned'
  <2>1. \A f \in failures : f[1] \in Scope
    BY DEF Inv, TypeOK
  <2>2. QED
    BY <1>1, <1>2, <2>1 DEF Inv, TypeOK, RetainedFailureIsOwned, OwnsJoined
<1>8. BookkeepingInv'
  BY <1>1, <1>2 DEF Inv, TypeOK, CleanupInv, BookkeepingInv, MergedIsSettled, Evolves
<1>9. ClosingInv'
  <2>1. closing'.clean => closing.child \in resolved'[closing.scope]
    BY <1>1, <1>3 DEF Inv, TypeOK, ResolveOwn
  <2>2. resolved[closing.scope] \subseteq resolved'[closing.scope]
    BY <1>1, <1>2 DEF Inv, TypeOK
  <2>3. QED
    BY <1>1, <1>3, <2>1, <2>2 DEF Inv, CleanupInv, ClosingInv
<1>10. EndingInv'
  BY <1>3 DEF Inv, CleanupInv, ClosingInv, EndingInv
<1>11. QED
  BY <1>4, <1>5, <1>6, <1>7, <1>8, <1>9, <1>10 DEF Inv, CleanupInv

\* The second attempt_state call decides whether the child is resolved already.
LEMMA RecheckInv ==
    ASSUME Inv, NEW r \in Reply, Recheck(r)
    PROVE  Inv'
<1> DEFINE seen == IF r = "ok" THEN gState[closing.child] ELSE closing.seen
           err == closing.err \/ r = "error"
<1>0. \/ /\ seen = "active"
         /\ closing' = [closing EXCEPT !.seen = seen, !.err = err, !.step = "discard"]
         /\ UNCHANGED <<resolved, failures>>
      \/ seen = "unknown" /\ ChildReported(seen, err) /\ UNCHANGED <<resolved, failures>>
      \/ seen \notin {"active", "unknown"} /\ ChildReported(seen, err) /\ ResolveOwn
  BY DEF Recheck
<1> USE DEF gvars, evars
<1>1. /\ closing.child \in Attempt /\ closing \in Closing /\ err \in BOOLEAN
      /\ closing.step = "recheck" /\ Exists(closing.child)
      /\ seen \in AttemptState \cup {"unknown"}
  BY DEF Recheck, Inv, TypeOK, GatewayTypeOK, CleanupInv, ClosingInv, BookkeepingInv, Closing
<1>2. seen \notin {"active", "unknown"} => Settled(closing.child)
  BY <1>1 DEF Inv, TypeOK, CleanupInv, ClosingInv, Settled, Exists, AttemptState
<1>3. seen = "active" => err \/ closing.seen = "active"
  BY <1>1 DEF Inv, CleanupInv, ClosingInv, Settled, Reply
<1>4. closing.err => err
  OBVIOUS
<1> HIDE DEF seen, err
<1>5. MergedIsSettled' /\ Evolves /\ NothingStarts /\ GatewayTypeOK'
  BY DEF Recheck, Inv, TypeOK, GatewayTypeOK, CleanupInv, BookkeepingInv, MergedIsSettled,
         Evolves, NothingStarts, Settled, Exists
<1>6. swept' \subseteq Attempt /\ \A a \in swept' : Settled(a)' /\ gController'[a] # "running"
  BY DEF Recheck, Inv, TypeOK, SweptIsCancelled, Settled
<1>7. CASE /\ seen = "active"
           /\ closing' = [closing EXCEPT !.seen = seen, !.err = err, !.step = "discard"]
           /\ UNCHANGED <<resolved, failures>>
  <2>1. /\ closing' \in Closing
        /\ closing'.scope = closing.scope /\ closing'.todo = closing.todo
        /\ closing'.clean = closing.clean /\ closing'.child = closing.child
        /\ closing'.seen = "active" /\ closing'.err = err /\ closing'.step = "discard"
    BY <1>1, <1>7 DEF Closing, Step, AttemptState
  <2>2. UNCHANGED <<gState, gController, scopeStatus, children, resolved, phase>>
    BY <1>7 DEF Recheck
  <2>3. ClosingInv'
    BY <1>1, <1>7, <1>3, <1>4, <2>1, <2>2 DEF Inv, CleanupInv, ClosingInv
  <2>4. EndingInv'
    BY <2>1 DEF Recheck, Inv, CleanupInv, EndingInv
  <2>5. QED
    BY <2>1, <2>3, <2>4, <1>7, ClosingOnly DEF Recheck, Inv, CleanupInv, svars, pvars
<1>8. CASE seen = "unknown" /\ ChildReported(seen, err) /\ UNCHANGED <<resolved, failures>>
  BY <1>1, <1>5, <1>6, <1>8, ReportedInv DEF Recheck
<1>9. CASE seen \notin {"active", "unknown"} /\ ChildReported(seen, err) /\ ResolveOwn
  <2>1. PICK c : c = closing.child
    OBVIOUS
  <2>2. Settled(c)'
    BY <1>2, <1>9, <2>1 DEF Recheck, Settled
  <2>3. QED
    BY <1>1, <1>5, <1>6, <1>9, <2>1, <2>2, ReportedInv DEF Recheck
<1>10. QED
  BY <1>0, <1>7, <1>8, <1>9

\* attempt_discard of the child ends its report.
LEMMA RollBackInv ==
    ASSUME Inv, NEW r \in Reply, RollBack(r)
    PROVE  Inv'
<1>1. PICK c \in Attempt : c = closing.child
  BY DEF RollBack, Inv, TypeOK, CleanupInv, ClosingInv, Closing
<1> closing.err \in BOOLEAN /\ closing.step = "discard"
  BY DEF RollBack, Inv, TypeOK, Closing
<1>2. /\ GatewayTypeOK' /\ MergedIsSettled' /\ Evolves /\ NothingStarts
      /\ r = "ok" => Settled(c)'
  BY <1>1, FinishStep DEF RollBack, Inv, TypeOK, CleanupInv, BookkeepingInv, MergedIsSettled
<1>3. CASE r = "ok"
  <2>1. /\ ChildReported("rolled_back", closing.err) /\ ResolveOwn
        /\ swept' = IF closing.err THEN swept ELSE swept \cup {closing.child}
    BY <1>3 DEF RollBack
  <2>2. ~closing.err => gController'[c] # "running"
    BY <1>1, <1>2 DEF Inv, CleanupInv, ClosingInv, NothingStarts
  <2>3. swept' \subseteq Attempt /\ \A a \in swept' : Settled(a)' /\ gController'[a] # "running"
    BY <1>1, <1>2, <1>3, <2>1, <2>2 DEF Inv, TypeOK, SweptIsCancelled, Evolves, Settled
  <2>4. QED
    BY <1>1, <1>2, <1>3, <2>1, <2>3, ReportedInv DEF RollBack
<1>4. CASE r = "error"
  <2>1. ChildReported("active", TRUE) /\ UNCHANGED <<resolved, failures, swept>>
    BY <1>4 DEF RollBack
  <2>2. swept' \subseteq Attempt /\ \A a \in swept' : Settled(a)' /\ gController'[a] # "running"
    BY <1>2, <2>1 DEF Inv, TypeOK, SweptIsCancelled, Evolves, Settled
  <2>3. QED
    BY <1>1, <1>2, <2>1, <2>2, ReportedInv DEF RollBack
<1>5. QED
  BY <1>3, <1>4 DEF Reply

\* Only a clean pass closes the scope; an unclean one at the end is remembered.
LEMMA EndCloseInv ==
    ASSUME Inv, EndClose
    PROVE  Inv'
<1> USE DEF gvars, pvars, EndClose
<1>1. /\ closing.scope \in Scope /\ scopeStatus[closing.scope] = "open" /\ phase # "done"
      /\ closing.clean => children[closing.scope] \subseteq resolved[closing.scope]
  BY DEF Inv, CleanupInv, ClosingInv
<1>2. closing' \in Closing /\ closing'.scope = None /\ closing'.step = "idle"
  BY DEF NotClosing, Closing, Step
<1>3. TypeOK'
  BY <1>1, <1>2 DEF Inv, TypeOK, GatewayTypeOK, ScopeStatus
<1>4. ResolvedIsSettled' /\ SweptIsCancelled'
  BY DEF Inv, ResolvedIsSettled, SweptIsCancelled, Settled
<1>5. ClosedIsResolved'
  BY <1>1 DEF Inv, TypeOK, ClosedIsResolved
<1>6. RetainedFailureIsOwned'
  <2>1. ASSUME NEW f \in failures, f[1] = closing.scope, closing.clean
        PROVE  FALSE
    BY <1>1, <2>1 DEF Inv, TypeOK, BookkeepingInv, CleanupInv, RetainedFailureIsOwned, OwnsJoined
  <2>2. \A f \in failures : f[1] \in Scope
    BY DEF Inv, TypeOK
  <2>3. QED
    BY <1>1, <2>1, <2>2 DEF Inv, TypeOK, RetainedFailureIsOwned, OwnsJoined
<1>7. BookkeepingInv'
  BY <1>1 DEF Inv, TypeOK, CleanupInv, BookkeepingInv, Exists, Settled
<1>8. ClosingInv'
  BY <1>2 DEF ClosingInv
<1>9. EndingInv'
  BY <1>1, <1>2 DEF Inv, TypeOK, CleanupInv, EndingInv
<1>10. QED
  BY <1>3, <1>4, <1>5, <1>6, <1>7, <1>8, <1>9 DEF Inv, CleanupInv

-----------------------------------------------------------------------------
(***************************************************************************)
(* The end of the evaluation preserves it.                                 *)
(***************************************************************************)

\* Steps that move only through the phases of an evaluation.
LEMMA EndingInvStep ==
    ASSUME Inv, EndProgram \/ EndEvaluation \/ \E s \in Scope : EndScope(s)
    PROVE  Inv'
<1> USE DEF gvars, svars, pvars, cvars
<1>1. ASSUME EndProgram
      PROVE  Inv'
  <2>1. TypeOK'
    BY <1>1 DEF EndProgram, Inv, TypeOK, GatewayTypeOK
  <2>2. CleanupInv'
    BY <1>1 DEF EndProgram, Ready, Inv, CleanupInv, BookkeepingInv, ClosingInv, EndingInv,
                Exists, Settled, TypeOK, ScopeStatus
  <2>3. QED
    BY <1>1, <2>1, <2>2 DEF EndProgram, Inv, ResolvedIsSettled, ClosedIsResolved, Settled,
                            RetainedFailureIsOwned, OwnsJoined, SweptIsCancelled
<1>2. ASSUME EndEvaluation
      PROVE  Inv'
  <2>1. TypeOK'
    BY <1>2 DEF EndEvaluation, Inv, TypeOK, GatewayTypeOK
  <2>2. CleanupInv'
    BY <1>2 DEF EndEvaluation, Inv, CleanupInv, BookkeepingInv, ClosingInv, EndingInv,
                Exists, Settled
  <2>3. QED
    BY <1>2, <2>1, <2>2 DEF EndEvaluation, Inv, ResolvedIsSettled, ClosedIsResolved, Settled,
                            RetainedFailureIsOwned, OwnsJoined, SweptIsCancelled
<1>3. ASSUME NEW s \in Scope, EndScope(s), BeginClose(s)
      PROVE  Inv'
  BY <1>3, BeginCloseInv DEF EndScope
<1>4. ASSUME NEW s \in Scope, EndScope(s), scopeStatus[s] = "closed", UNCHANGED closing
      PROVE  Inv'
  <2>1. TypeOK'
    BY <1>4 DEF EndScope, Inv, TypeOK, GatewayTypeOK
  <2>2. CleanupInv'
    BY <1>4 DEF EndScope, Inv, CleanupInv, BookkeepingInv, ClosingInv, EndingInv,
                Exists, Settled
  <2>3. QED
    BY <1>4, <2>1, <2>2 DEF EndScope, Inv, ResolvedIsSettled, ClosedIsResolved, Settled,
                            RetainedFailureIsOwned, OwnsJoined, SweptIsCancelled
<1>5. QED
  BY <1>1, <1>2, <1>3, <1>4 DEF EndScope

-----------------------------------------------------------------------------
(***************************************************************************)
(* The invariant holds, and with it the properties the runs check.         *)
(***************************************************************************)
\* Every builtin of the program keeps the invariant.
LEMMA ProgramInv == Inv /\ Program => Inv'
<1> SUFFICES ASSUME Inv, Program PROVE Inv'
  OBVIOUS
<1>1. GatewayTypeOK /\ MergedIsSettled
  BY DEF Inv, TypeOK, CleanupInv, BookkeepingInv, MergedIsSettled
<1>2. ASSUME NEW s \in Scope, CloseScope(s)
      PROVE  Inv'
  BY <1>2, BeginCloseInv DEF CloseScope, Ready, evars
<1>3. ASSUME NEW a \in Attempt, NEW r \in Reply, StartChild(a, r)
      PROVE  Inv'
  BY <1>1, <1>3, StartStep, GatewayOnly DEF StartChild, Ready
<1>4. ASSUME NEW a \in Attempt, NEW r \in Reply, TerminateChild(a, r)
      PROVE  Inv'
  BY <1>1, <1>4, TerminateStep, GatewayOnly DEF TerminateChild
<1>5. ASSUME NEW a \in Attempt, NEW r \in Reply, NEW outcome \in {"failed", "rolled_back"},
             FinishChild(a, outcome, r)
      PROVE  Inv'
  BY <1>1, <1>5, FinishStep, GatewayOnly DEF FinishChild
<1>6. ASSUME NEW a \in Attempt, NEW r \in Reply, AcceptChild(a, r)
      PROVE  Inv'
  BY <1>1, <1>6, AcceptStep, ResolveChildInv DEF AcceptChild
<1>7. ASSUME NEW a \in Attempt, NEW r \in Reply, DiscardChild(a, r)
      PROVE  Inv'
  BY <1>1, <1>7, FinishStep, ResolveChildInv DEF DiscardChild
<1>8. ASSUME NEW a \in Attempt, NEW succeeded \in BOOLEAN, ReportForChild(a, succeeded)
      PROVE  Inv'
  BY <1>1, <1>8, ReportStep, GatewayOnly DEF ReportForChild
<1>9. \A a \in Attempt : outcomes \cup {Snapshot(a)} \subseteq Outcome
  <2>1. \A a \in Attempt : Snapshot(a) \in Outcome
    BY DEF Snapshot, Outcome
  <2>2. QED
    BY <2>1 DEF Inv, TypeOK
<1>10. ASSUME NEW a \in Attempt, Join(a)
       PROVE  Inv'
  BY <1>9, <1>10, JoiningInv DEF Join
<1>11. ASSUME NEW ready \in SUBSET Attempt, NEW waitAll \in BOOLEAN, WaitSet(ready, waitAll)
       PROVE  Inv'
  <2>1. outcomes' \subseteq Outcome
    BY <1>9, <1>11 DEF WaitSet, Inv, TypeOK
  <2>2. QED
    BY <1>11, <2>1, JoiningInv DEF WaitSet
<1>12. QED
  BY <1>2, <1>3, <1>4, <1>5, <1>6, <1>7, <1>8, <1>10, <1>11,
     NewScopeInv, SpawnInv, AddToScopeInv, RetainFailureInv DEF Program

\* Every step of program, cleanup and children keeps the invariant.
LEMMA NextInv == Inv /\ [Next]_vars => Inv'
<1> SUFFICES ASSUME Inv, [Next]_vars PROVE Inv'
  OBVIOUS
<1>1. CASE Program
  BY <1>1, ProgramInv
<1>2. CASE EndProgram
  BY <1>2, EndingInvStep
<1>3. CASE Cleanup
  BY <1>3, ObserveInv, CancelInv, RecheckInv, RollBackInv, AwaitChildInv, EndCloseInv,
     EndingInvStep DEF Cleanup
<1>4. CASE Children
  <2>1. GatewayTypeOK /\ MergedIsSettled
    BY DEF Inv, TypeOK, CleanupInv, BookkeepingInv, MergedIsSettled
  <2>2. QED
    BY <1>4, <2>1, ChildStepStep, GatewayOnly DEF Children
<1>5. CASE UNCHANGED vars
  <2>1. UNCHANGED <<gvars, svars, pvars, cvars, evars>>
    BY <1>5 DEF vars
  <2>2. GatewayTypeOK' /\ MergedIsSettled' /\ Evolves /\ NothingStarts
    BY <2>1 DEF gvars, Inv, TypeOK, CleanupInv, BookkeepingInv, GatewayTypeOK, MergedIsSettled,
                Evolves, NothingStarts, Exists, Settled
  <2>3. QED
    BY <2>1, <2>2, GatewayOnly
<1>6. QED
  BY <1>1, <1>2, <1>3, <1>4, <1>5 DEF Next

\* The inductive invariant holds in every state of every evaluation.
THEOREM Invariance == Spec => []Inv
<1>1. Init => Inv
  BY InitInv
<1>2. Inv /\ [Next]_vars => Inv'
  BY NextInv
<1>3. QED
  BY <1>1, <1>2, PTL DEF Spec

\* What TLC checks on small instances, for every instance: the types, the
\* bookkeeping of children, and what a cleanup may report.
THEOREM TypeCorrectness == Spec => []TypeOK
BY Invariance, PTL DEF Inv

\* What the scopes' records, a close in progress and the cleanup at the end of
\* the evaluation have established so far is never contradicted.
THEOREM CleanupIsConsistent == Spec => []CleanupInv
BY Invariance, PTL DEF Inv

\* mark_resolved always follows a Gateway answer that settles the child.
THEOREM ResolvedChildrenAreSettled == Spec => []ResolvedIsSettled
BY Invariance, PTL DEF Inv

\* A scope is closed only when all its children are resolved.
THEOREM ClosedScopesAreResolved == Spec => []ClosedIsResolved
BY Invariance, PTL DEF Inv

\* attempt_failure keeps an outcome only while its scope owns the child.
THEOREM RetainedFailuresAreOwned == Spec => []RetainedFailureIsOwned
BY Invariance, PTL DEF Inv

\* A child reported discarded and clean has no uncancelled controller.
THEOREM SweptChildrenAreCancelled == Spec => []SweptIsCancelled
BY Invariance, PTL DEF Inv

\* An evaluation that reports no cleanup error for a scope leaves none of its
\* children active.
THEOREM CleanEvaluationsLeakNothing == Spec => []CleanEvaluationLeaksNothing
<1>1. Inv => CleanEvaluationLeaksNothing
  <2> SUFFICES ASSUME Inv, phase = "done", NEW s \in Scope, s \notin dirty, NEW a \in children[s]
               PROVE  Settled(a)
    BY DEF CleanEvaluationLeaksNothing
  <2>1. scopeStatus[s] = "closed"
    BY NoneAssumption DEF Inv, CleanupInv, BookkeepingInv, ClosingInv, EndingInv
  <2>2. QED
    BY <2>1 DEF Inv, ClosedIsResolved, ResolvedIsSettled
<1>2. QED
  BY <1>1, Invariance, PTL

\* No builtin and no cleanup reopens a closed scope or adds a child to it.
THEOREM ClosedScopesAreFinal == Spec => ClosedIsFinal
<1>1. Inv /\ [Next]_vars =>
        [\A s \in Scope : scopeStatus[s] = "closed" =>
            scopeStatus'[s] = "closed" /\ children'[s] = children[s]]_vars
  <2> SUFFICES ASSUME Inv, Next, NEW s \in Scope, scopeStatus[s] = "closed"
               PROVE  scopeStatus'[s] = "closed" /\ children'[s] = children[s]
    OBVIOUS
  <2> USE DEF svars, vars
  <2>1. CASE Program
    <3>1. ASSUME NEW t \in Scope, NewScope(t)
          PROVE  scopeStatus'[s] = "closed" /\ children'[s] = children[s]
      BY <3>1 DEF NewScope, Inv, TypeOK
    <3>2. ASSUME NEW a \in Attempt, NEW t \in Scope \cup {None}, NEW start \in BOOLEAN,
                 NEW r \in Reply, Spawn(a, t, start, r)
          PROVE  scopeStatus'[s] = "closed" /\ children'[s] = children[s]
      BY <3>2 DEF Spawn, Register, Inv, TypeOK
    <3>3. ASSUME NEW a \in Attempt, NEW t \in Scope, AddToScope(t, a)
          PROVE  scopeStatus'[s] = "closed" /\ children'[s] = children[s]
      BY <3>3 DEF AddToScope, Register, Inv, TypeOK
    <3>4. QED
      BY <2>1, <3>1, <3>2, <3>3
      DEF Program, CloseScope, StartChild, TerminateChild, FinishChild, AcceptChild, DiscardChild,
          ReportForChild, Join, WaitSet, RetainFailure
  <2>2. CASE EndProgram
    BY <2>2 DEF EndProgram
  <2>3. CASE Cleanup
    <3>1. CASE EndClose
      BY <3>1 DEF EndClose, Inv, TypeOK, CleanupInv, ClosingInv
    <3>2. QED
      BY <2>3, <3>1
      DEF Cleanup, Observe, Cancel, Recheck, RollBack, AwaitChild, EndScope, EndEvaluation
  <2>4. CASE Children
    BY <2>4 DEF Children
  <2>5. QED
    BY <2>1, <2>2, <2>3, <2>4 DEF Next
<1>2. QED
  BY <1>1, Invariance, PTL DEF Spec, ClosedIsFinal

-----------------------------------------------------------------------------
(***************************************************************************)
(* Attempt scopes implement structured supervision.                        *)
(***************************************************************************)

\* How the lives of attempts move: not at all, or one attempt begins or ends.
LifeMoves(a, from, to) == Life[a] = from /\ Life' = [Life EXCEPT ![a] = to]

\* Creating a child begins the life of at most that child.
LEMMA CreateLife ==
    ASSUME Inv, NEW a \in Attempt, NEW start \in BOOLEAN, NEW r, Create(a, start, r)
    PROVE  \/ Life' = Life /\ r # "ok"
           \/ LifeMoves(a, "unborn", "active")
<1>1. a \notin gMerged /\ gMerged' = gMerged
  BY DEF Create, Inv, CleanupInv, BookkeepingInv, Settled
<1>2. CASE gState' = gState /\ r # "ok"
  BY <1>1, <1>2 DEF Life, Active
<1>3. CASE gState' = [gState EXCEPT ![a] = "active"]
  BY <1>1, <1>3 DEF Create, Life, Active, LifeMoves, Inv, TypeOK, GatewayTypeOK
<1>4. QED
  BY <1>2, <1>3 DEF Create, Unapplied

\* attempt_finish and attempt_discard end the life of at most that child.
LEMMA FinishLife ==
    ASSUME Inv, NEW a \in Attempt, NEW outcome \in {"failed", "rolled_back"}, NEW r,
           Finish(a, outcome, r)
    PROVE  Life' = Life \/ LifeMoves(a, "active", "dropped")
<1>1. gMerged' = gMerged
  BY DEF Finish
<1>2. CASE gState' = gState
  BY <1>1, <1>2 DEF Life, Active
<1>3. CASE Active(a) /\ gState' = [gState EXCEPT ![a] = outcome]
  <2>1. a \notin gMerged
    BY <1>3 DEF Inv, CleanupInv, BookkeepingInv, Settled, Active
  <2>2. QED
    BY <1>1, <1>3, <2>1 DEF Life, Active, LifeMoves, Inv, TypeOK, GatewayTypeOK
<1>4. QED
  BY <1>2, <1>3 DEF Finish

\* attempt_accept ends the life of at most that child.
LEMMA AcceptLife ==
    ASSUME Inv, NEW a \in Attempt, NEW r, Accept(a, r)
    PROVE  Life' = Life \/ LifeMoves(a, "active", "merged")
<1>1. CASE UNCHANGED <<gState, gMerged>>
  BY <1>1 DEF Life, Active
<1>2. CASE /\ Active(a) /\ gState' = [gState EXCEPT ![a] = "rolled_back"]
           /\ gMerged' = gMerged \cup {a}
  BY <1>2 DEF Life, Active, LifeMoves, Inv, TypeOK, GatewayTypeOK
<1>3. QED
  BY <1>1, <1>2 DEF Accept

\* A step that only ends an attempt is a step of the abstract specification.
LEMMA EndingStep ==
    ASSUME NEW a \in Attempt,
           \/ Life' = Life \/ LifeMoves(a, "active", "dropped") \/ LifeMoves(a, "active", "merged"),
           UNCHANGED <<scopeStatus, children, phase, dirty>>
    PROVE  [Supervision!Next]_(Supervision!vars)
<1>1. Verdict' = Verdict
  BY DEF Verdict
<1>2. CASE Life' = Life
  BY <1>1, <1>2 DEF Supervision!vars
<1>3. CASE LifeMoves(a, "active", "dropped") \/ LifeMoves(a, "active", "merged")
  <2>1. Supervision!End(a)
    BY <1>1, <1>3 DEF Supervision!End, LifeMoves
  <2>2. QED
    BY <2>1 DEF Supervision!Next
<1>4. QED
  BY <1>2, <1>3

\* A cleanup closes a scope only when its children have ended.
LEMMA EndCloseLife == Inv /\ EndClose => [Supervision!Next]_(Supervision!vars)
<1> SUFFICES ASSUME Inv, EndClose PROVE [Supervision!Next]_(Supervision!vars)
  OBVIOUS
<1>1. /\ closing.scope \in Scope /\ scopeStatus[closing.scope] = "open" /\ phase # "done"
      /\ closing.clean => children[closing.scope] \subseteq resolved[closing.scope]
  BY DEF EndClose, Inv, CleanupInv, ClosingInv
<1>2. Life' = Life /\ Verdict = "running" /\ Verdict' = Verdict /\ children' = children
  BY <1>1 DEF EndClose, Life, Verdict, Active, gvars
<1>3. CASE closing.clean
  <2>1. \A a \in children[closing.scope] : Supervision!Ended(a)
    BY <1>1, <1>3 DEF Inv, TypeOK, ResolvedIsSettled, Settled, Active, Life, Supervision!Ended
  <2>2. Supervision!Close(closing.scope)
    BY <1>1, <1>2, <1>3, <2>1 DEF EndClose, Supervision!Close
  <2>3. QED
    BY <1>1, <2>2 DEF Supervision!Next
<1>4. CASE ~closing.clean
  BY <1>2, <1>4 DEF EndClose, Supervision!vars
<1>5. QED
  BY <1>3, <1>4

\* The evaluation concludes cleanly only when every registered child has ended.
LEMMA EndEvaluationLife ==
    Inv /\ CleanEvaluationLeaksNothing' /\ EndEvaluation => Supervision!Conclude
<1> SUFFICES ASSUME Inv, CleanEvaluationLeaksNothing', EndEvaluation PROVE Supervision!Conclude
  OBVIOUS
<1>1. /\ Life' = Life /\ scopeStatus' = scopeStatus /\ children' = children /\ dirty' = dirty
      /\ phase = "ending" /\ phase' = "done" /\ gState' = gState
  BY DEF EndEvaluation, Life, Active, gvars, svars
<1>2. Verdict = "running" /\ Verdict' = IF dirty = {} THEN "clean" ELSE "incomplete"
  BY <1>1 DEF Verdict
<1>3. ASSUME dirty = {}, NEW s \in Scope, NEW a \in children[s]
      PROVE  Supervision!Ended(a)
  <2>1. Settled(a) /\ a \in Attempt
    BY <1>1, <1>3 DEF CleanEvaluationLeaksNothing, Settled, Inv, TypeOK
  <2>2. QED
    BY <2>1 DEF Settled, Active, Life, Supervision!Ended
<1>4. QED
  BY <1>1, <1>2, <1>3 DEF Supervision!Conclude

\* Every builtin of the program is a step of structured supervision.
LEMMA ProgramLife == Inv /\ Program => [Supervision!Next]_(Supervision!vars)
<1> SUFFICES ASSUME Inv, Program PROVE [Supervision!Next]_(Supervision!vars)
  OBVIOUS
<1> USE DEF svars, evars
<1>1. ASSUME NEW s \in Scope, NewScope(s)
      PROVE  [Supervision!Next]_(Supervision!vars)
  <2>1. Supervision!Open(s)
    BY <1>1 DEF NewScope, Ready, Supervision!Open, Verdict, Life, Active, gvars
  <2>2. QED
    BY <2>1 DEF Supervision!Next
<1>2. ASSUME NEW a \in Attempt, NEW s \in Scope \cup {None}, NEW start \in BOOLEAN,
             NEW r \in Reply, Spawn(a, s, start, r)
      PROVE  [Supervision!Next]_(Supervision!vars)
  <2>1. Verdict = "running" /\ Verdict' = Verdict /\ scopeStatus' = scopeStatus
    BY <1>2 DEF Spawn, Ready, Verdict
  <2>2. \/ Life' = Life /\ r # "ok"
        \/ LifeMoves(a, "unborn", "active")
    BY <1>2, CreateLife DEF Spawn
  <2>3. CASE r = "ok" /\ s # None /\ scopeStatus[s] # "closed"
    <3>1. s \in Scope /\ Supervision!Adopt(s, a)
      BY <1>2, <2>1, <2>2, <2>3 DEF Spawn, Register, LifeMoves, Supervision!Adopt
    <3>2. QED
      BY <3>1 DEF Supervision!Next
  <2>4. CASE ~(r = "ok" /\ s # None /\ scopeStatus[s] # "closed")
    <3>1. children' = children
      BY <1>2, <2>4 DEF Spawn
    <3>2. CASE Life' = Life
      BY <2>1, <3>1, <3>2 DEF Supervision!vars
    <3>3. CASE LifeMoves(a, "unborn", "active")
      <4>1. Supervision!Begin(a)
        BY <2>1, <3>1, <3>3 DEF LifeMoves, Supervision!Begin
      <4>2. QED
        BY <4>1 DEF Supervision!Next
    <3>4. QED
      BY <2>2, <3>2, <3>3
  <2>5. QED
    BY <2>3, <2>4
<1>3. ASSUME NEW s \in Scope, NEW a \in Attempt, AddToScope(s, a)
      PROVE  [Supervision!Next]_(Supervision!vars)
  <2>1. Life' = Life /\ Life[a] # "unborn" /\ Verdict = "running" /\ Verdict' = Verdict
    BY <1>3 DEF AddToScope, Ready, Exists, Life, Active, Verdict, gvars
  <2>2. Supervision!Adopt(s, a)
    BY <1>3, <2>1 DEF AddToScope, Register, Supervision!Adopt
  <2>3. QED
    BY <2>2 DEF Supervision!Next
<1>4. ASSUME NEW a \in Attempt, NEW r \in Reply, NEW outcome \in {"failed", "rolled_back"},
             FinishChild(a, outcome, r) \/ DiscardChild(a, r)
      PROVE  [Supervision!Next]_(Supervision!vars)
  BY <1>4, FinishLife, EndingStep DEF FinishChild, DiscardChild
<1>5. ASSUME NEW a \in Attempt, NEW r \in Reply, AcceptChild(a, r)
      PROVE  [Supervision!Next]_(Supervision!vars)
  BY <1>5, AcceptLife, EndingStep DEF AcceptChild
<1>6. ASSUME gState' = gState /\ gMerged' = gMerged, UNCHANGED <<scopeStatus, children, phase, dirty>>
      PROVE  [Supervision!Next]_(Supervision!vars)
  BY <1>6 DEF Life, Active, Verdict, Supervision!vars
<1>7. ASSUME NEW a \in Attempt, NEW r \in Reply, StartChild(a, r) \/ TerminateChild(a, r)
      PROVE  [Supervision!Next]_(Supervision!vars)
  BY <1>6, <1>7 DEF StartChild, TerminateChild, Start, Terminate
<1>8. ASSUME NEW a \in Attempt, NEW succeeded \in BOOLEAN, ReportForChild(a, succeeded)
      PROVE  [Supervision!Next]_(Supervision!vars)
  BY <1>6, <1>8 DEF ReportForChild, Report
<1>9. ASSUME \/ \E a \in Attempt : Join(a)
             \/ \E ready \in SUBSET Attempt, waitAll \in BOOLEAN : WaitSet(ready, waitAll)
             \/ \E s \in Scope, o \in outcomes : RetainFailure(s, o)
             \/ \E s \in Scope : CloseScope(s)
      PROVE  [Supervision!Next]_(Supervision!vars)
  BY <1>6, <1>9 DEF Join, WaitSet, RetainFailure, CloseScope, gvars
<1>10. QED
  BY <1>1, <1>2, <1>3, <1>4, <1>5, <1>7, <1>8, <1>9 DEF Program

\* A child on its own begins nothing and ends at most itself.
LEMMA ChildrenLife == Inv /\ Children => [Supervision!Next]_(Supervision!vars)
<1> SUFFICES ASSUME Inv, Children PROVE [Supervision!Next]_(Supervision!vars)
  OBVIOUS
<1>1. UNCHANGED <<scopeStatus, children, phase, dirty>>
  BY DEF Children, svars, evars
<1>2. ASSUME NEW a \in Attempt, ChildFinishes(a)
      PROVE  [Supervision!Next]_(Supervision!vars)
  BY <1>1, <1>2, FinishLife, EndingStep DEF ChildFinishes
<1>3. ASSUME NEW a \in Attempt, ControllerStops(a) \/ ChildReports(a)
      PROVE  [Supervision!Next]_(Supervision!vars)
  BY <1>1, <1>3 DEF ControllerStops, ChildReports, Report, Life, Active, Verdict, Supervision!vars
<1>4. QED
  BY <1>2, <1>3 DEF Children, ChildStep

\* Attempt scopes implement structured supervision, whatever calls fail.
THEOREM SupervisionImplemented == Spec => ImplementsSupervision
<1>1. Init => Supervision!Init
  BY DEF Init, GatewayInit, Supervision!Init, Life, Verdict
<1>2. Inv /\ CleanEvaluationLeaksNothing' /\ [Next]_vars => [Supervision!Next]_(Supervision!vars)
  <2> SUFFICES ASSUME Inv, CleanEvaluationLeaksNothing', [Next]_vars
               PROVE  [Supervision!Next]_(Supervision!vars)
    OBVIOUS
  <2>1. ASSUME UNCHANGED <<gState, gMerged, scopeStatus, children, dirty, phase>>
        PROVE  [Supervision!Next]_(Supervision!vars)
    BY <2>1 DEF Life, Active, Verdict, Supervision!vars
  <2>2. CASE EndProgram
    BY <2>2 DEF EndProgram, Ready, gvars, svars, Life, Active, Verdict, Supervision!vars
  <2>3. CASE Cleanup
    <3>1. CASE EndEvaluation
      BY <3>1, EndEvaluationLife DEF Supervision!Next
    <3>2. ASSUME NEW r \in Reply, RollBack(r)
          PROVE  [Supervision!Next]_(Supervision!vars)
      <4>1. closing.child \in Attempt
        BY <3>2 DEF RollBack, Inv, TypeOK, CleanupInv, ClosingInv, Closing
      <4>2. QED
        BY <3>2, <4>1, FinishLife, EndingStep DEF RollBack, evars
    <3>3. ASSUME NEW r \in Reply, Cancel(r) \/ Recheck(r)
          PROVE  UNCHANGED <<gState, gMerged, scopeStatus, children, dirty, phase>>
      <4>1. CASE Cancel(r)
        BY <4>1 DEF Cancel, Terminate, svars, evars
      <4>2. CASE Recheck(r)
        BY <4>2 DEF Recheck, gvars, evars
      <4>3. QED
        BY <3>3, <4>1, <4>2
    <3>4. ASSUME \/ \E a \in Attempt : Observe(a)
                 \/ AwaitChild
                 \/ \E s \in Scope : EndScope(s)
          PROVE  UNCHANGED <<gState, gMerged, scopeStatus, children, dirty, phase>>
      BY <3>4 DEF Observe, AwaitChild, EndScope, gvars, svars, evars
    <3>5. EndClose => [Supervision!Next]_(Supervision!vars)
      BY EndCloseLife
    <3>6. QED
      BY <2>1, <2>3, <3>1, <3>2, <3>3, <3>4, <3>5 DEF Cleanup
  <2>4. CASE UNCHANGED vars
    <3>1. UNCHANGED <<gState, gMerged, scopeStatus, children, dirty, phase>>
      BY <2>4 DEF vars, gvars, svars, evars
    <3>2. QED
      BY <2>1, <3>1
  <2>5. QED
    BY <2>2, <2>3, <2>4, ProgramLife, ChildrenLife DEF Next
<1>3. QED
  BY <1>1, <1>2, Invariance, CleanEvaluationsLeakNothing, PTL
  DEF Spec, ImplementsSupervision, Supervision!Spec

\* What the scopes record of their children is so, whatever happens between two
\* calls (mark_resolved, retain_failure).
THEOREM RecordsAreTrue == Spec => []BookkeepingIsTrue
BY ResolvedChildrenAreSettled, RetainedFailuresAreOwned, PTL DEF BookkeepingIsTrue

\* What cleanup reports as done is done (close_attempt_scope,
\* close_open_attempt_scopes).
THEOREM CleanupsAreComplete == Spec => []CleanupIsComplete
BY ClosedScopesAreResolved, CleanEvaluationsLeakNothing, SweptChildrenAreCancelled, PTL
   DEF CleanupIsComplete

-----------------------------------------------------------------------------
(* Selectors                                                               *)

-----------------------------------------------------------------------------
(***************************************************************************)
(* Attempts and scopes.                                                    *)
(***************************************************************************)
\* The records of a scope are of its children, and a close works on one of them.
RecordsInv ==
    /\ TypeOK
    /\ MergedIsSettled
    /\ \A s \in Scope : joined[s] \cup resolved[s] \subseteq children[s]
    /\ closing.step # "idle" =>
          closing.scope \in Scope /\ closing.todo \subseteq children[closing.scope]
    /\ closing.step \notin {"idle", "next"} => closing.child \in closing.todo

\* Nothing a selector relies on is taken back.
Grows ==
    /\ Evolves
    /\ gMerged \subseteq gMerged'
    /\ \A s \in Scope : children[s] \subseteq children'[s] /\ resolved[s] \subseteq resolved'[s]

\* A step that leaves the cleanup alone.
LEMMA RecordStep ==
    ASSUME RecordsInv, GatewayTypeOK', MergedIsSettled', Evolves, gMerged \subseteq gMerged',
           scopeStatus' \in [Scope -> ScopeStatus],
           children' \in [Scope -> SUBSET Attempt], joined' \in [Scope -> SUBSET Attempt],
           resolved' \in [Scope -> SUBSET Attempt],
           outcomes' \subseteq Outcome, failures' \subseteq Scope \X Attempt,
           \A s \in Scope : /\ children[s] \subseteq children'[s]
                            /\ resolved[s] \subseteq resolved'[s]
                            /\ joined'[s] \cup resolved'[s] \subseteq children'[s],
           UNCHANGED <<cvars, evars>>
    PROVE  RecordsInv' /\ Grows
<1>1. TypeOK'
  BY DEF RecordsInv, TypeOK, cvars, evars
<1>2. /\ closing'.step # "idle" =>
             closing'.scope \in Scope /\ closing'.todo \subseteq children'[closing'.scope]
      /\ closing'.step \notin {"idle", "next"} => closing'.child \in closing'.todo
  BY DEF RecordsInv, cvars
<1>. QED
  BY <1>1, <1>2 DEF RecordsInv, Grows

\* A step of the Gateway alone.
LEMMA GatewayStep ==
    ASSUME RecordsInv, GatewayTypeOK', MergedIsSettled', Evolves, gMerged \subseteq gMerged',
           UNCHANGED <<svars, pvars, cvars, evars>>
    PROVE  RecordsInv' /\ Grows
<1>1. UNCHANGED <<scopeStatus, children, joined, resolved, outcomes, failures, cvars, evars>>
  BY DEF svars, pvars
<1>2. /\ scopeStatus' \in [Scope -> ScopeStatus]
      /\ children' \in [Scope -> SUBSET Attempt] /\ joined' \in [Scope -> SUBSET Attempt]
      /\ resolved' \in [Scope -> SUBSET Attempt]
      /\ outcomes' \subseteq Outcome /\ failures' \subseteq Scope \X Attempt
  BY <1>1 DEF RecordsInv, TypeOK
<1>3. \A s \in Scope : /\ children[s] \subseteq children'[s] /\ resolved[s] \subseteq resolved'[s]
                       /\ joined'[s] \cup resolved'[s] \subseteq children'[s]
  BY <1>1 DEF RecordsInv
<1>. QED
  BY <1>1, <1>2, <1>3, RecordStep

\* A step that leaves the Gateway and the records of children alone.
LEMMA QuietGateway ==
    ASSUME RecordsInv, UNCHANGED gvars
    PROVE  GatewayTypeOK' /\ MergedIsSettled' /\ Evolves /\ gMerged \subseteq gMerged'
BY DEF RecordsInv, TypeOK, GatewayTypeOK, MergedIsSettled, Evolves, gvars, Exists, Settled

\* Finishing and reporting merge nothing.
LEMMA MergedStays ==
    ASSUME NEW a \in Attempt, NEW r,
           \/ \E start \in BOOLEAN : Create(a, start, r)
           \/ Start(a, r) \/ Terminate(a, r) \/ Accept(a, r)
           \/ \E outcome \in {"failed", "rolled_back"} : Finish(a, outcome, r)
           \/ \E succeeded \in BOOLEAN : Report(a, succeeded)
    PROVE  gMerged \subseteq gMerged'
BY DEF Create, Start, Terminate, Accept, Finish, Report

\* Every builtin of AttemptScope.
LEMMA ProgramGrows ==
    ASSUME RecordsInv, Program
    PROVE  RecordsInv' /\ Grows
<1>1. GatewayTypeOK /\ MergedIsSettled
  BY DEF RecordsInv, TypeOK
<1>. DEFINE Typed == /\ scopeStatus \in [Scope -> ScopeStatus]
                     /\ children \in [Scope -> SUBSET Attempt] /\ joined \in [Scope -> SUBSET Attempt]
                     /\ resolved \in [Scope -> SUBSET Attempt]
                     /\ outcomes \subseteq Outcome /\ failures \subseteq Scope \X Attempt
<1>2. Typed /\ \A s \in Scope : joined[s] \cup resolved[s] \subseteq children[s]
  BY DEF RecordsInv, TypeOK
<1>3. \A a \in Attempt : Snapshot(a) \in Outcome
  BY DEF Snapshot, Outcome
<1>4. ASSUME NEW s \in Scope, NewScope(s) PROVE RecordsInv' /\ Grows
  <2>1. UNCHANGED <<gvars, children, joined, resolved, outcomes, failures, cvars, evars>>
    BY <1>4 DEF NewScope, pvars
  <2>2. scopeStatus' \in [Scope -> ScopeStatus]
    BY <1>2, <1>4 DEF NewScope, ScopeStatus
  <2>. QED
    BY <1>2, <2>1, <2>2, QuietGateway, RecordStep
<1>5. ASSUME NEW s \in Scope, CloseScope(s) PROVE RecordsInv' /\ Grows
  <2>1. closing' = [NotClosing EXCEPT !.scope = s, !.step = "next", !.todo = children[s] \ resolved[s]]
        /\ UNCHANGED <<gvars, svars, pvars, swept, evars>>
    BY <1>5 DEF CloseScope, BeginClose
  <2>2. closing' \in Closing /\ closing'.step = "next" /\ closing'.scope = s
        /\ closing'.todo \subseteq children[s]
    BY <1>2, <2>1 DEF NotClosing, Closing, Step
  <2>3. GatewayTypeOK' /\ MergedIsSettled' /\ Evolves /\ gMerged \subseteq gMerged'
    BY <2>1, QuietGateway
  <2>4. TypeOK'
    BY <2>1, <2>2, <2>3 DEF RecordsInv, TypeOK, svars, pvars, evars
  <2>. QED
    BY <1>2, <2>1, <2>2, <2>3, <2>4 DEF RecordsInv, Grows, svars
<1>6. ASSUME NEW a \in Attempt, NEW r \in Reply, NEW s \in Scope \cup {None},
             NEW start \in BOOLEAN, Spawn(a, s, start, r)
      PROVE  RecordsInv' /\ Grows
  <2>1. Create(a, start, r) /\ UNCHANGED <<scopeStatus, joined, resolved, outcomes, failures, cvars, evars>>
    BY <1>6 DEF Spawn, pvars
  <2>2. children' = children \/ (s \in Scope /\ children' = [children EXCEPT ![s] = @ \cup {a}])
    <3>1. CASE r = "ok" /\ s # None /\ scopeStatus[s] # "closed"
      <4>1. Register(s, a) /\ s \in Scope
        BY <1>6, <3>1 DEF Spawn
      <4>. QED
        BY <4>1 DEF Register
    <3>2. CASE ~(r = "ok" /\ s # None /\ scopeStatus[s] # "closed")
      BY <1>6, <3>2 DEF Spawn
    <3>. QED
      BY <3>1, <3>2
  <2>3. GatewayTypeOK' /\ MergedIsSettled' /\ Evolves /\ gMerged \subseteq gMerged'
    BY <1>1, <2>1, CreateStep, MergedStays
  <2>4. /\ children' \in [Scope -> SUBSET Attempt]
        /\ \A t \in Scope : children[t] \subseteq children'[t]
    BY <1>2, <2>2
  <2>. QED
    BY <1>2, <2>1, <2>3, <2>4, RecordStep
<1>7. ASSUME NEW a \in Attempt, NEW r \in Reply,
             \/ StartChild(a, r) \/ TerminateChild(a, r)
             \/ \E outcome \in {"failed", "rolled_back"} : FinishChild(a, outcome, r)
             \/ \E succeeded \in BOOLEAN : ReportForChild(a, succeeded)
      PROVE  RecordsInv' /\ Grows
  <2>1. UNCHANGED <<svars, pvars, cvars, evars>>
    BY <1>7 DEF StartChild, TerminateChild, FinishChild, ReportForChild
  <2>2. GatewayTypeOK' /\ MergedIsSettled' /\ Evolves
    BY <1>1, <1>7, StartStep, TerminateStep, FinishStep, ReportStep
       DEF StartChild, TerminateChild, FinishChild, ReportForChild
  <2>3. gMerged \subseteq gMerged'
    BY <1>7, MergedStays DEF StartChild, TerminateChild, FinishChild, ReportForChild
  <2>. QED
    BY <2>1, <2>2, <2>3, GatewayStep
<1>8. ASSUME NEW a \in Attempt, NEW r \in Reply, AcceptChild(a, r) \/ DiscardChild(a, r)
      PROVE  RecordsInv' /\ Grows
  <2>1. GatewayTypeOK' /\ MergedIsSettled' /\ Evolves
    BY <1>1, <1>8, AcceptStep, FinishStep DEF AcceptChild, DiscardChild
  <2>2. gMerged \subseteq gMerged'
    BY <1>8, MergedStays DEF AcceptChild, DiscardChild
  <2>3. ResolveChild(a, r) /\ UNCHANGED <<scopeStatus, children, joined, outcomes, cvars, evars>>
    BY <1>8 DEF AcceptChild, DiscardChild
  <2>4. /\ resolved' \in [Scope -> SUBSET Attempt] /\ failures' \subseteq Scope \X Attempt
        /\ \A s \in Scope : /\ resolved[s] \subseteq resolved'[s]
                            /\ joined[s] \cup resolved'[s] \subseteq children[s]
    BY <1>2, <2>3 DEF ResolveChild, ResolvedEverywhere, FailuresWithout
  <2>. QED
    BY <1>2, <2>1, <2>2, <2>3, <2>4, RecordStep
<1>9. ASSUME NEW A \in SUBSET Attempt, joined' = JoinedEverywhere(A), outcomes' \subseteq Outcome,
             UNCHANGED <<gvars, scopeStatus, children, resolved, failures, cvars, evars>>
      PROVE  RecordsInv' /\ Grows
  <2>1. /\ joined' \in [Scope -> SUBSET Attempt]
        /\ \A s \in Scope : joined'[s] \cup resolved[s] \subseteq children[s]
    BY <1>2, <1>9 DEF JoinedEverywhere
  <2>. QED
    BY <1>2, <1>9, <2>1, QuietGateway, RecordStep
<1>10. ASSUME NEW a \in Attempt, Join(a) PROVE RecordsInv' /\ Grows
  <2>1. outcomes' \subseteq Outcome
    BY <1>2, <1>3, <1>10 DEF Join
  <2>. QED
    BY <1>9, <1>10, <2>1 DEF Join
<1>11. ASSUME NEW ready \in SUBSET Attempt, NEW waitAll \in BOOLEAN, WaitSet(ready, waitAll)
       PROVE  RecordsInv' /\ Grows
  <2>1. outcomes' \subseteq Outcome
    BY <1>2, <1>3, <1>11 DEF WaitSet
  <2>. QED
    BY <1>9, <1>11, <2>1 DEF WaitSet
<1>12. ASSUME NEW s \in Scope, NEW a \in Attempt, AddToScope(s, a) PROVE RecordsInv' /\ Grows
  <2>1. children' = [children EXCEPT ![s] = @ \cup {a}]
        /\ UNCHANGED <<gvars, scopeStatus, joined, resolved, outcomes, failures, cvars, evars>>
    BY <1>12 DEF AddToScope, Register, pvars
  <2>2. /\ children' \in [Scope -> SUBSET Attempt]
        /\ \A t \in Scope : children[t] \subseteq children'[t]
    BY <1>2, <2>1
  <2>. QED
    BY <1>2, <2>1, <2>2, QuietGateway, RecordStep
<1>13. ASSUME NEW s \in Scope, NEW o \in outcomes, RetainFailure(s, o) PROVE RecordsInv' /\ Grows
  <2>1. failures' = failures \cup {<<s, o.attempt>>}
        /\ UNCHANGED <<gvars, scopeStatus, children, joined, resolved, outcomes, cvars, evars>>
    BY <1>13 DEF RetainFailure, svars
  <2>2. o.attempt \in Attempt
    BY <1>2 DEF Outcome
  <2>3. failures' \subseteq Scope \X Attempt
    BY <1>2, <2>1, <2>2
  <2>. QED
    BY <1>2, <2>1, <2>3, QuietGateway, RecordStep
<1>14. ASSUME NEW a \in Attempt, NEW r \in Reply,
              \/ \E s \in Scope \cup {None}, start \in BOOLEAN : Spawn(a, s, start, r)
              \/ StartChild(a, r) \/ TerminateChild(a, r)
              \/ \E outcome \in {"failed", "rolled_back"} : FinishChild(a, outcome, r)
              \/ AcceptChild(a, r) \/ DiscardChild(a, r)
       PROVE  RecordsInv' /\ Grows
  BY <1>6, <1>7, <1>8, <1>14
<1>15. ASSUME NEW a \in Attempt,
              \/ \E succeeded \in BOOLEAN : ReportForChild(a, succeeded)
              \/ Join(a)
              \/ \E s \in Scope : AddToScope(s, a)
       PROVE  RecordsInv' /\ Grows
  <2>1. "ok" \in Reply
    BY DEF Reply
  <2>. QED
    BY <1>7, <1>10, <1>12, <1>15, <2>1
<1>. QED
  BY <1>4, <1>5, <1>11, <1>13, <1>14, <1>15 DEF Program

\* The step from one child of a close to the next, resolved or not.
LEMMA ReportedGrows ==
    ASSUME RecordsInv, closing.step \notin {"idle", "next"},
           NEW seen, NEW err \in BOOLEAN, ChildReported(seen, err),
           GatewayTypeOK', MergedIsSettled', Evolves, gMerged \subseteq gMerged',
           swept' \subseteq Attempt, ResolveOwn \/ UNCHANGED <<resolved, failures>>,
           UNCHANGED <<scopeStatus, children, joined, outcomes, evars>>
    PROVE  RecordsInv' /\ Grows
<1>1. /\ closing \in Closing /\ closing.scope \in Scope /\ closing.child \in closing.todo
      /\ closing.todo \subseteq children[closing.scope]
      /\ children \in [Scope -> SUBSET Attempt] /\ resolved \in [Scope -> SUBSET Attempt]
      /\ failures \subseteq Scope \X Attempt
  BY DEF RecordsInv, TypeOK
<1>2. /\ closing' \in Closing /\ closing'.step = "next" /\ closing'.scope = closing.scope
      /\ closing'.todo \subseteq closing.todo
  <2>1. (closing.clean /\ ~err /\ seen \notin {"active", "unknown"}) \in BOOLEAN
    OBVIOUS
  <2>. QED
    BY <1>1, <2>1 DEF ChildReported, Closing, Step
<1>3. /\ resolved' \in [Scope -> SUBSET Attempt] /\ failures' \subseteq Scope \X Attempt
      /\ \A s \in Scope : /\ resolved[s] \subseteq resolved'[s]
                          /\ resolved'[s] \subseteq resolved[s] \cup children[s]
  BY <1>1 DEF ResolveOwn, FailuresWithout
<1>4. TypeOK'
  BY <1>2, <1>3 DEF RecordsInv, TypeOK, evars
<1>. QED
  BY <1>1, <1>2, <1>3, <1>4 DEF RecordsInv, Grows

\* Every step of a cleanup.
LEMMA CleanupGrows ==
    ASSUME RecordsInv, Cleanup
    PROVE  RecordsInv' /\ Grows
<1>1. GatewayTypeOK /\ MergedIsSettled /\ closing \in Closing
  BY DEF RecordsInv, TypeOK
<1>2. ASSUME closing' \in Closing, closing'.scope = closing.scope, closing'.todo = closing.todo,
             closing.step # "idle", closing'.child \in closing.todo,
             UNCHANGED <<gvars, svars, pvars, swept, evars>>
      PROVE  RecordsInv' /\ Grows
  <2>1. GatewayTypeOK' /\ MergedIsSettled' /\ Evolves /\ gMerged \subseteq gMerged'
    BY <1>2, QuietGateway
  <2>2. TypeOK'
    BY <1>2, <2>1 DEF RecordsInv, TypeOK, svars, pvars, evars
  <2>. QED
    BY <1>2, <2>1, <2>2 DEF RecordsInv, Grows, svars
<1>3. ASSUME NEW a \in Attempt, Observe(a) PROVE RecordsInv' /\ Grows
  <2>1. gState[a] \in AttemptState
    BY <1>1 DEF GatewayTypeOK
  <2>2. PICK seen \in AttemptState \cup {"unknown"}, err \in BOOLEAN,
             step \in {"terminate", "wait", "recheck"} :
          closing' = [closing EXCEPT !.child = a, !.seen = seen, !.err = err, !.step = step]
    BY <1>3, <2>1 DEF Observe
  <2>3. /\ closing' \in Closing /\ closing'.scope = closing.scope /\ closing'.todo = closing.todo
        /\ closing'.child = a
    BY <1>1, <2>2 DEF Closing, Step
  <2>4. closing.step # "idle" /\ a \in closing.todo /\ UNCHANGED <<gvars, svars, pvars, swept, evars>>
    BY <1>3 DEF Observe
  <2>. QED
    BY <1>2, <2>3, <2>4
<1>4. ASSUME NEW r \in Reply, Cancel(r) PROVE RecordsInv' /\ Grows
  <2>1. closing.step = "terminate" /\ closing.child \in closing.todo
        /\ closing.scope \in Scope /\ closing.todo \subseteq children[closing.scope]
        /\ closing.child \in Attempt
    BY <1>4 DEF Cancel, RecordsInv, TypeOK
  <2>2. GatewayTypeOK' /\ MergedIsSettled' /\ Evolves /\ gMerged \subseteq gMerged'
    BY <1>1, <1>4, <2>1, TerminateStep, MergedStays DEF Cancel
  <2>3. /\ closing' \in Closing /\ closing'.scope = closing.scope /\ closing'.todo = closing.todo
        /\ closing'.child = closing.child
    BY <1>1, <1>4 DEF Cancel, Closing, Step, Reply
  <2>4. UNCHANGED <<svars, pvars, swept, evars>>
    BY <1>4 DEF Cancel
  <2>5. TypeOK'
    BY <2>2, <2>3, <2>4 DEF RecordsInv, TypeOK, svars, pvars, evars
  <2>. QED
    BY <2>1, <2>2, <2>3, <2>4, <2>5 DEF RecordsInv, Grows, svars
<1>5. CASE AwaitChild
  <2>1. closing.step = "wait" /\ closing.child \in closing.todo
        /\ closing.scope \in Scope /\ closing.todo \subseteq children[closing.scope]
        /\ closing.child \in Attempt
    BY <1>5 DEF AwaitChild, RecordsInv, TypeOK
  <2>2. GatewayTypeOK' /\ MergedIsSettled' /\ Evolves /\ gMerged \subseteq gMerged'
    BY <1>5, QuietGateway DEF AwaitChild
  <2>3. /\ closing' \in Closing /\ closing'.scope = closing.scope /\ closing'.todo = closing.todo
        /\ closing'.child = closing.child
    BY <1>1, <1>5 DEF AwaitChild, Closing, Step
  <2>4. joined' = joined \/ joined' = [joined EXCEPT ![closing.scope] = @ \cup {closing.child}]
    BY <1>5 DEF AwaitChild
  <2>5. UNCHANGED <<scopeStatus, children, resolved, outcomes, failures, swept, evars>>
    BY <1>5 DEF AwaitChild, pvars
  <2>6. joined' \in [Scope -> SUBSET Attempt]
        /\ \A s \in Scope : joined'[s] \subseteq joined[s] \cup children[s]
    BY <2>1, <2>4 DEF RecordsInv, TypeOK
  <2>7. TypeOK'
    BY <2>2, <2>3, <2>5, <2>6 DEF RecordsInv, TypeOK, evars
  <2>. QED
    BY <2>1, <2>2, <2>3, <2>5, <2>6, <2>7 DEF RecordsInv, Grows
<1>6. ASSUME NEW r \in Reply, Recheck(r) PROVE RecordsInv' /\ Grows
  <2>. DEFINE seen == IF r = "ok" THEN gState[closing.child] ELSE closing.seen
              err == closing.err \/ r = "error"
  <2>1. \/ /\ seen = "active"
           /\ closing' = [closing EXCEPT !.seen = seen, !.err = err, !.step = "discard"]
           /\ UNCHANGED <<resolved, failures>>
        \/ ChildReported(seen, err) /\ (ResolveOwn \/ UNCHANGED <<resolved, failures>>)
    BY <1>6 DEF Recheck
  <2>2. /\ closing.step = "recheck"
        /\ UNCHANGED <<gvars, scopeStatus, children, joined, outcomes, swept, evars>>
    BY <1>6 DEF Recheck
  <2>3. err \in BOOLEAN
    BY <1>1 DEF Closing
  <2>. HIDE DEF seen, err
  <2>4. GatewayTypeOK' /\ MergedIsSettled' /\ Evolves /\ gMerged \subseteq gMerged'
    BY <2>2, QuietGateway
  <2>5. swept' \subseteq Attempt
    BY <2>2 DEF RecordsInv, TypeOK
  <2>6. CASE /\ seen = "active"
             /\ closing' = [closing EXCEPT !.seen = seen, !.err = err, !.step = "discard"]
             /\ UNCHANGED <<resolved, failures>>
    <3>1. /\ closing' \in Closing /\ closing'.scope = closing.scope
          /\ closing'.todo = closing.todo /\ closing'.child = closing.child
      BY <1>1, <2>3, <2>6 DEF Closing, Step, AttemptState
    <3>2. closing.child \in closing.todo
      BY <2>2 DEF RecordsInv
    <3>3. UNCHANGED <<gvars, svars, pvars, swept, evars>>
      BY <2>2, <2>6 DEF svars, pvars
    <3>. QED
      BY <1>2, <2>2, <3>1, <3>2, <3>3
  <2>7. CASE ChildReported(seen, err) /\ (ResolveOwn \/ UNCHANGED <<resolved, failures>>)
    BY <2>2, <2>3, <2>4, <2>5, <2>7, ReportedGrows
  <2>. QED
    BY <2>1, <2>6, <2>7
<1>7. ASSUME NEW r \in Reply, RollBack(r) PROVE RecordsInv' /\ Grows
  <2>1. closing.step = "discard" /\ closing.child \in Attempt /\ closing.err \in BOOLEAN
    BY <1>1, <1>7 DEF RollBack, RecordsInv, TypeOK, Closing
  <2>2. GatewayTypeOK' /\ MergedIsSettled' /\ Evolves /\ gMerged \subseteq gMerged'
    BY <1>1, <1>7, <2>1, FinishStep, MergedStays DEF RollBack
  <2>3. swept' \subseteq Attempt
    BY <1>7, <2>1 DEF RollBack, RecordsInv, TypeOK
  <2>4. /\ ChildReported("rolled_back", closing.err) \/ ChildReported("active", TRUE)
        /\ ResolveOwn \/ UNCHANGED <<resolved, failures>>
        /\ UNCHANGED <<scopeStatus, children, joined, outcomes, evars>>
    BY <1>7 DEF RollBack
  <2>. QED
    BY <2>1, <2>2, <2>3, <2>4, ReportedGrows
<1>8. CASE EndClose
  <2>1. closing' = NotClosing /\ UNCHANGED <<gvars, children, joined, resolved, pvars, swept, phase, endTodo>>
    BY <1>8 DEF EndClose
  <2>2. closing' \in Closing /\ closing'.step = "idle"
    BY <2>1 DEF NotClosing, Closing, Step
  <2>3. scopeStatus' \in [Scope -> ScopeStatus] /\ dirty' \subseteq Scope
    <3>1. closing.scope \in Scope
      BY <1>8 DEF EndClose, RecordsInv
    <3>. QED
      BY <1>8, <3>1 DEF EndClose, RecordsInv, TypeOK, ScopeStatus
  <2>4. GatewayTypeOK' /\ MergedIsSettled' /\ Evolves /\ gMerged \subseteq gMerged'
    BY <2>1, QuietGateway
  <2>5. TypeOK'
    BY <2>1, <2>2, <2>3, <2>4 DEF RecordsInv, TypeOK, pvars
  <2>. QED
    BY <2>1, <2>2, <2>4, <2>5 DEF RecordsInv, Grows
<1>9. ASSUME NEW s \in Scope, EndScope(s) PROVE RecordsInv' /\ Grows
  <2>1. endTodo' = endTodo \ {s} /\ UNCHANGED <<gvars, svars, pvars, swept, phase, dirty>>
    BY <1>9 DEF EndScope
  <2>2. GatewayTypeOK' /\ MergedIsSettled' /\ Evolves /\ gMerged \subseteq gMerged'
    BY <2>1, QuietGateway
  <2>3. CASE BeginClose(s)
    <3>1. closing' = [NotClosing EXCEPT !.scope = s, !.step = "next", !.todo = children[s] \ resolved[s]]
      BY <2>3 DEF BeginClose
    <3>2. children[s] \in SUBSET Attempt
      BY DEF RecordsInv, TypeOK
    <3>3. closing' \in Closing /\ closing'.step = "next" /\ closing'.scope = s
          /\ closing'.todo \subseteq children[s]
      BY <3>1, <3>2 DEF NotClosing, Closing, Step
    <3>4. TypeOK'
      BY <2>1, <2>2, <3>3 DEF RecordsInv, TypeOK, svars, pvars
    <3>. QED
      BY <2>1, <2>2, <3>3, <3>4 DEF RecordsInv, Grows, svars
  <2>4. CASE UNCHANGED closing
    <3>1. TypeOK'
      BY <2>1, <2>2, <2>4 DEF RecordsInv, TypeOK, svars, pvars
    <3>. QED
      BY <2>1, <2>2, <2>4, <3>1 DEF RecordsInv, Grows, svars
  <2>. QED
    BY <1>9, <2>3, <2>4 DEF EndScope
<1>10. CASE EndEvaluation
  <2>1. UNCHANGED <<gvars, svars, pvars, cvars, endTodo, dirty>> /\ phase' = "done"
    BY <1>10 DEF EndEvaluation
  <2>2. GatewayTypeOK' /\ MergedIsSettled' /\ Evolves /\ gMerged \subseteq gMerged'
    BY <2>1, QuietGateway
  <2>3. TypeOK'
    BY <2>1, <2>2 DEF RecordsInv, TypeOK, svars, pvars, cvars
  <2>. QED
    BY <2>1, <2>2, <2>3 DEF RecordsInv, Grows, svars, cvars
<1>. QED
  BY <1>3, <1>4, <1>5, <1>6, <1>7, <1>8, <1>9, <1>10 DEF Cleanup

\* Every step of AttemptScope.
LEMMA ScopesGrow ==
    ASSUME RecordsInv, [Next]_vars
    PROVE  RecordsInv' /\ Grows
<1>1. CASE EndProgram
  <2>1. UNCHANGED <<gvars, svars, pvars, cvars, dirty>> /\ phase' = "ending" /\ endTodo' \subseteq Scope
    BY <1>1 DEF EndProgram
  <2>2. GatewayTypeOK' /\ MergedIsSettled' /\ Evolves /\ gMerged \subseteq gMerged'
    BY <2>1, QuietGateway
  <2>3. TypeOK'
    BY <2>1, <2>2 DEF RecordsInv, TypeOK, svars, pvars, cvars
  <2>. QED
    BY <2>1, <2>2, <2>3 DEF RecordsInv, Grows, svars, cvars
<1>2. CASE Children
  <2>1. GatewayTypeOK /\ MergedIsSettled
    BY DEF RecordsInv, TypeOK
  <2>2. GatewayTypeOK' /\ MergedIsSettled' /\ Evolves
    BY <1>2, <2>1, ChildStepStep DEF Children
  <2>3. gMerged \subseteq gMerged'
    BY <1>2 DEF Children, ChildStep, ControllerStops, ChildReports, ChildFinishes, Report, Finish
  <2>. QED
    BY <1>2, <2>2, <2>3, GatewayStep DEF Children
<1>3. CASE UNCHANGED vars
  <2>1. UNCHANGED <<gvars, svars, pvars, cvars, evars>>
    BY <1>3 DEF vars
  <2>. QED
    BY <2>1, QuietGateway, GatewayStep
<1>. QED
  BY <1>1, <1>2, <1>3, ProgramGrows, CleanupGrows DEF Next

-----------------------------------------------------------------------------
(***************************************************************************)
(* Selectors.                                                              *)
(***************************************************************************)
\* What a selector holds: one that was used has a scope, a candidate is a child of
\* that scope and was considered, and each one turned down is settled and resolved.
SelectorInv ==
    \A b \in Selector :
        /\ selector[b].life = "unused" => selector[b].current = None /\ considered[b] = {}
        /\ selector[b].life # "unused" => selector[b].scope \in Scope
        /\ selector[b].life = "accepted" => selector[b].final # None
        /\ selector[b].life \in {"accepted", "discarded"} => selector[b].current = None
        /\ Chosen(b) # None => Chosen(b) \in considered[b]
        /\ \A c \in considered[b] : c.attempt \in children[selector[b].scope]

BestInv ==
    /\ BestTypeOK
    /\ RecordsInv
    /\ SelectorInv
    /\ BestIsBest
    /\ LosersAreReclaimed

\* A step that leaves the selectors alone keeps what is known of them.
LEMMA SelectorsKeep ==
    ASSUME BestInv, RecordsInv', Grows, UNCHANGED bvars
    PROVE  BestInv'
<1>. USE DEF BestInv
<1>1. UNCHANGED <<selector, considered>>
  BY DEF bvars
<1>2. BestTypeOK'
  BY <1>1 DEF BestTypeOK, RecordsInv
<1>3. \A b \in Selector : \A c \in considered[b] :
        c.attempt \in Attempt /\ selector[b].scope \in Scope
  BY DEF BestTypeOK, SelectorInv, Candidate
<1>4. SelectorInv'
  BY <1>1, <1>3 DEF SelectorInv, Grows, Chosen
<1>5. BestIsBest'
  BY <1>1 DEF BestIsBest, Chosen
<1>6. LosersAreReclaimed'
  <2>. SUFFICES ASSUME NEW b \in Selector, NEW c \in considered[b], c # Chosen(b)
                PROVE  Settled(c.attempt)' /\ c.attempt \in resolved'[selector[b].scope]
    BY <1>1 DEF LosersAreReclaimed, Chosen
  <2>1. Settled(c.attempt) /\ c.attempt \in resolved[selector[b].scope]
    BY DEF LosersAreReclaimed
  <2>. QED
    BY <1>3, <2>1 DEF Grows, Evolves, Settled
<1>. QED
  BY <1>2, <1>4, <1>5, <1>6

\* A new selector has considered nobody.
LEMMA NewBestInv ==
    ASSUME BestInv, NEW b \in Selector, NEW s \in Scope, NEW objective \in Objective,
           NewBest(b, s, objective)
    PROVE  BestInv'
<1>. USE DEF BestInv
<1>1. /\ selector[b].life = "unused" /\ UNCHANGED <<vars, considered>>
      /\ selector' = [selector EXCEPT ![b] =
                         [Unused EXCEPT !.life = "open", !.scope = s, !.objective = objective]]
  BY DEF NewBest
<1>2. /\ selector'[b].life = "open" /\ selector'[b].scope = s
      /\ selector'[b].current = None /\ selector'[b].final = None
      /\ selector'[b] \in Selection
      /\ \A d \in Selector \ {b} : selector'[d] = selector[d]
  BY <1>1 DEF BestTypeOK, Unused, Selection, Lifecycle
<1>3. considered[b] = {}
  BY <1>1 DEF SelectorInv
<1>4. RecordsInv'
  BY <1>1, ScopesGrow
<1>5. BestTypeOK'
  BY <1>1, <1>2, <1>4 DEF BestTypeOK, RecordsInv
<1>6. UNCHANGED <<gState, children, resolved>>
  BY <1>1 DEF vars, gvars, svars
<1>7. SelectorInv'
  BY <1>1, <1>2, <1>3, <1>6 DEF SelectorInv, Chosen
<1>8. BestIsBest'
  BY <1>1, <1>2, <1>3 DEF BestIsBest, Chosen
<1>9. LosersAreReclaimed'
  BY <1>1, <1>2, <1>3, <1>6 DEF LosersAreReclaimed, Chosen, Settled
<1>. QED
  BY <1>4, <1>5, <1>7, <1>8, <1>9

\* A discarded loser is settled, and resolved in every scope that has it.
LEMMA LoserStep ==
    ASSUME RecordsInv, NEW a \in Attempt, NEW r \in Reply, DiscardLoser(a, r)
    PROVE  /\ RecordsInv' /\ Grows /\ UNCHANGED children
           /\ r = "ok" => Settled(a)' /\ \A s \in Scope : a \in children[s] => a \in resolved'[s]
<1>1. /\ Finish(a, "rolled_back", r)
      /\ resolved' = IF r = "ok" THEN ResolvedEverywhere(a) ELSE resolved
      /\ UNCHANGED <<scopeStatus, children, joined, outcomes, failures, cvars, evars>>
  BY DEF DiscardLoser, pvars
<1>2. GatewayTypeOK' /\ MergedIsSettled' /\ Evolves /\ (r = "ok" => Settled(a)')
  BY <1>1, FinishStep DEF RecordsInv, TypeOK
<1>3. gMerged \subseteq gMerged'
  BY <1>1, MergedStays
<1>4. /\ resolved' \in [Scope -> SUBSET Attempt]
      /\ \A s \in Scope : /\ resolved[s] \subseteq resolved'[s]
                          /\ joined[s] \cup resolved'[s] \subseteq children[s]
                          /\ r = "ok" /\ a \in children[s] => a \in resolved'[s]
  BY <1>1 DEF ResolvedEverywhere, RecordsInv, TypeOK
<1>5. /\ scopeStatus' \in [Scope -> ScopeStatus] /\ children' \in [Scope -> SUBSET Attempt]
      /\ joined' \in [Scope -> SUBSET Attempt]
      /\ outcomes' \subseteq Outcome /\ failures' \subseteq Scope \X Attempt
  BY <1>1 DEF RecordsInv, TypeOK
<1>6. RecordsInv' /\ Grows
  BY <1>1, <1>2, <1>3, <1>4, <1>5, RecordStep
<1>. QED
  BY <1>1, <1>2, <1>4, <1>6

\* The three plans of attempt_best_consider.
LEMMA ConsiderInv ==
    ASSUME BestInv, NEW b \in Selector, NEW o \in outcomes, NEW score \in Score, NEW r \in Reply,
           Consider(b, o, score, r)
    PROVE  BestInv'
<1>. USE DEF BestInv
<1>. DEFINE candidate == [attempt |-> o.attempt, score |-> score]
            current == selector[b].current
<1>1. /\ selector[b].life = "open" /\ selector[b].scope \in Scope
      /\ candidate \in Candidate /\ o.attempt \in Attempt
      /\ o.attempt \in children[selector[b].scope]
      /\ Chosen(b) = current
  BY DEF Consider, Admissible, OwnsJoined, SelectorInv, RecordsInv, TypeOK, Outcome, Candidate,
         Chosen
<1>2. /\ selector \in [Selector -> Selection] /\ considered \in [Selector -> SUBSET Candidate]
      /\ current \in Candidate \cup {None}
  BY DEF BestTypeOK, Selection
<1>3. PICK winner \in Candidate, loser \in Attempt \cup {None} :
        /\ Decide(b, candidate, winner, r)
        /\ winner = candidate \/ winner = current
        /\ \/ loser = None /\ current = None /\ winner = candidate /\ UNCHANGED vars
           \/ /\ loser \in Attempt /\ current # None /\ DiscardLoser(loser, r)
              /\ \/ /\ winner = candidate /\ loser = current.attempt
                    /\ Prefers(selector[b].objective, score, current.score)
                 \/ /\ winner = current /\ loser = o.attempt
                    /\ ~Prefers(selector[b].objective, score, current.score)
  <2>1. CASE current = None /\ Decide(b, candidate, candidate, r) /\ UNCHANGED vars
    BY <1>1, <2>1
  <2>2. CASE /\ current # None /\ Prefers(selector[b].objective, score, current.score)
             /\ DiscardLoser(current.attempt, r) /\ Decide(b, candidate, candidate, r)
    <3>1. current.attempt \in Attempt
      BY <1>2, <2>2 DEF Candidate
    <3>. QED
      BY <1>1, <2>2, <3>1
  <2>3. CASE /\ current # None /\ ~Prefers(selector[b].objective, score, current.score)
             /\ DiscardLoser(candidate.attempt, r) /\ Decide(b, candidate, current, r)
    BY <1>1, <1>2, <2>3
  <2>. QED
    BY <2>1, <2>2, <2>3 DEF Consider
<1>. HIDE DEF candidate
<1>4. candidate.attempt = o.attempt /\ candidate.score = score /\ score \in Int
  BY ScoreAssumption DEF candidate
<1>5. RecordsInv' /\ Grows /\ UNCHANGED children
  <2>1. CASE UNCHANGED vars
    BY <2>1, ScopesGrow DEF vars, svars
  <2>2. CASE loser \in Attempt /\ DiscardLoser(loser, r)
    BY <2>2, LoserStep
  <2>. QED
    BY <1>3, <2>1, <2>2
<1>6. CASE r # "ok"
  <2>1. UNCHANGED bvars
    BY <1>3, <1>6 DEF Decide
  <2>. QED
    BY <1>5, <2>1, SelectorsKeep
<1>7. CASE r = "ok"
  <2>1. /\ selector' = [selector EXCEPT ![b].current = winner]
        /\ considered' = [considered EXCEPT ![b] = @ \cup {candidate}]
    BY <1>3, <1>7 DEF Decide
  <2>2. /\ selector'[b] = [selector[b] EXCEPT !.current = winner]
        /\ considered'[b] = considered[b] \cup {candidate}
        /\ \A d \in Selector \ {b} : selector'[d] = selector[d] /\ considered'[d] = considered[d]
    BY <1>2, <2>1
  <2>3. /\ selector'[b].life = "open" /\ selector'[b].scope = selector[b].scope
        /\ selector'[b].objective = selector[b].objective /\ selector'[b].current = winner
        /\ selector'[b].final = selector[b].final
        /\ selector'[b] \in Selection
    BY <1>1, <1>2, <2>2 DEF Selection
  <2>4. BestTypeOK'
    BY <1>1, <1>2, <1>5, <2>1, <2>3 DEF BestTypeOK, RecordsInv
  <2>5. Chosen(b)' = winner /\ \A d \in Selector \ {b} : Chosen(d)' = Chosen(d)
    BY <2>2, <2>3 DEF Chosen
  <2>6. winner \in considered'[b]
    BY <1>1, <1>3, <2>2 DEF SelectorInv
  <2>7. \A c \in considered'[b] : c = candidate \/ c \in considered[b]
    BY <2>2
  <2>8. SelectorInv'
    <3>1. ASSUME NEW d \in Selector, d # b
          PROVE  /\ selector'[d].life = "unused" => selector'[d].current = None /\ considered'[d] = {}
                 /\ selector'[d].life # "unused" => selector'[d].scope \in Scope
                 /\ selector'[d].life = "accepted" => selector'[d].final # None
                 /\ selector'[d].life \in {"accepted", "discarded"} => selector'[d].current = None
                 /\ Chosen(d)' # None => Chosen(d)' \in considered'[d]
                 /\ \A c \in considered'[d] : c.attempt \in children'[selector'[d].scope]
      BY <1>5, <2>2, <2>5, <3>1 DEF SelectorInv
    <3>2. \A c \in considered'[b] : c.attempt \in children'[selector'[b].scope]
      BY <1>1, <1>4, <1>5, <2>3, <2>7 DEF SelectorInv
    <3>. QED
      BY <1>1, <2>3, <2>5, <2>6, <3>1, <3>2 DEF SelectorInv
  <2>9. BestIsBest'
    <3>1. winner # None
      BY <1>3, CandidateAssumption
    <3>2. ASSUME NEW c \in considered'[b]
          PROVE  ~Prefers(selector[b].objective, c.score, winner.score)
      <4>1. CASE winner = candidate
        <5>1. CASE c = candidate
          BY <1>4, <4>1, <5>1 DEF Prefers
        <5>2. CASE c \in considered[b]
          <6>1. current # None /\ ~Prefers(selector[b].objective, c.score, current.score)
            BY <1>1, <5>2 DEF BestIsBest
          <6>2. c.score \in Int /\ current.score \in Int
            <7>1. c \in Candidate /\ current \in Candidate
              BY <1>2, <5>2, <6>1
            <7>. QED
              BY <7>1, ScoreAssumption DEF Candidate
          <6>3. \/ Prefers(selector[b].objective, score, current.score)
                \/ current = winner
            BY <1>3, <6>1
          <6>. QED
            BY <1>4, <4>1, <6>1, <6>2, <6>3 DEF Prefers
        <5>. QED
          BY <2>7, <5>1, <5>2
      <4>2. CASE winner # candidate
        <5>1. winner = current /\ current # None
              /\ ~Prefers(selector[b].objective, score, current.score)
          BY <1>3, <4>2
        <5>. QED
          BY <1>1, <1>4, <2>7, <5>1 DEF BestIsBest
      <4>. QED
        BY <4>1, <4>2
    <3>3. \A d \in Selector \ {b} : \A c \in considered'[d] :
            Chosen(d)' # None /\ ~Prefers(selector'[d].objective, c.score, Chosen(d)'.score)
      BY <2>2, <2>5 DEF BestIsBest
    <3>. QED
      BY <2>3, <2>5, <3>1, <3>2, <3>3 DEF BestIsBest
  <2>10. LosersAreReclaimed'
    <3>1. ASSUME NEW d \in Selector, NEW c \in considered[d], c # Chosen(d)
          PROVE  Settled(c.attempt)' /\ c.attempt \in resolved'[selector[d].scope]
      <4>1. Settled(c.attempt) /\ c.attempt \in resolved[selector[d].scope]
        BY <3>1 DEF LosersAreReclaimed
      <4>2. c.attempt \in Attempt /\ selector[d].scope \in Scope
        BY <1>2 DEF Candidate, SelectorInv
      <4>. QED
        BY <1>5, <4>1, <4>2 DEF Grows, Evolves, Settled
    <3>2. ASSUME NEW c \in considered'[b], c # winner
          PROVE  Settled(c.attempt)' /\ c.attempt \in resolved'[selector[b].scope]
      <4>1. CASE c \in considered[b] /\ c # current
        BY <1>1, <3>1, <4>1
      <4>2. CASE c = candidate \/ c = current
        <5>1. loser \in Attempt /\ c.attempt = loser /\ DiscardLoser(loser, r)
          <6>1. CASE c = current
            <7>1. current # None
              <8>1. c \in Candidate
                BY <1>1, <1>2, <2>7
              <8>. QED
                BY <6>1, <8>1, CandidateAssumption
            <7>. QED
              BY <1>3, <3>2, <6>1, <7>1
          <6>2. CASE c = candidate
            <7>1. winner = current /\ winner # candidate
              BY <1>3, <3>2, <6>2
            <7>. QED
              BY <1>3, <1>4, <6>2, <7>1
          <6>. QED
            BY <4>2, <6>1, <6>2
        <5>2. loser \in children[selector[b].scope]
          BY <1>1, <1>4, <2>7, <5>1 DEF SelectorInv
        <5>. QED
          BY <1>1, <1>7, <5>1, <5>2, LoserStep
      <4>. QED
        BY <2>7, <4>1, <4>2
    <3>3. ASSUME NEW d \in Selector, NEW c \in considered'[d], c # Chosen(d)'
          PROVE  Settled(c.attempt)' /\ c.attempt \in resolved'[selector'[d].scope]
      <4>1. CASE d = b
        BY <2>3, <2>5, <3>2, <3>3, <4>1
      <4>2. CASE d # b
        BY <2>2, <2>5, <3>1, <3>3, <4>2
      <4>. QED
        BY <4>1, <4>2
    <3>. QED
      BY <3>3 DEF LosersAreReclaimed
  <2>. QED
    BY <1>5, <2>4, <2>8, <2>9, <2>10
<1>. QED
  BY <1>6, <1>7

\* Finalising a selector keeps its choice.
LEMMA FinalizeInv ==
    ASSUME BestInv, NEW b \in Selector, NEW life \in {"accepted", "discarded"},
           selector[b].life = "open", life = "accepted" => selector[b].current # None,
           Finalize(b, life), UNCHANGED considered, RecordsInv', Grows
    PROVE  BestInv'
<1>. USE DEF BestInv
<1>1. /\ selector \in [Selector -> Selection] /\ considered \in [Selector -> SUBSET Candidate]
  BY DEF BestTypeOK
<1>2. /\ selector'[b] = [selector[b] EXCEPT !.life = life, !.final = selector[b].current,
                                            !.current = None]
      /\ selector' \in [Selector -> Selection]
      /\ \A d \in Selector \ {b} : selector'[d] = selector[d]
  BY <1>1 DEF Finalize, Selection, Lifecycle
<1>3. /\ selector'[b].life = life /\ selector'[b].scope = selector[b].scope
      /\ selector'[b].objective = selector[b].objective /\ selector'[b].current = None
      /\ selector'[b].final = selector[b].current
  BY <1>1, <1>2 DEF Selection
<1>4. \A d \in Selector : /\ Chosen(d)' = Chosen(d) /\ selector'[d].scope = selector[d].scope
                          /\ selector'[d].objective = selector[d].objective
  BY <1>2, <1>3 DEF Chosen
<1>5. BestTypeOK'
  BY <1>1, <1>2 DEF BestTypeOK, RecordsInv
<1>6. \A d \in Selector : \A c \in considered[d] :
        c.attempt \in Attempt /\ selector[d].scope \in Scope
  BY <1>1 DEF SelectorInv, Candidate
<1>7. SelectorInv'
  <2>1. ASSUME NEW d \in Selector
        PROVE  /\ selector'[d].life = "unused" => selector'[d].current = None /\ considered'[d] = {}
               /\ selector'[d].life # "unused" => selector'[d].scope \in Scope
               /\ selector'[d].life = "accepted" => selector'[d].final # None
               /\ selector'[d].life \in {"accepted", "discarded"} => selector'[d].current = None
    <3>1. CASE d = b
      BY <1>3, <3>1 DEF SelectorInv
    <3>2. CASE d # b
      BY <1>2, <3>2 DEF SelectorInv
    <3>. QED
      BY <3>1, <3>2
  <2>2. ASSUME NEW d \in Selector
        PROVE  /\ Chosen(d)' # None => Chosen(d)' \in considered'[d]
               /\ \A c \in considered'[d] : c.attempt \in children'[selector'[d].scope]
    BY <1>4, <1>6 DEF SelectorInv, Grows
  <2>. QED
    BY <2>1, <2>2 DEF SelectorInv
<1>8. BestIsBest'
  BY <1>4 DEF BestIsBest
<1>9. LosersAreReclaimed'
  <2>. SUFFICES ASSUME NEW d \in Selector, NEW c \in considered[d], c # Chosen(d)
                PROVE  Settled(c.attempt)' /\ c.attempt \in resolved'[selector[d].scope]
    BY <1>4 DEF LosersAreReclaimed
  <2>1. Settled(c.attempt) /\ c.attempt \in resolved[selector[d].scope]
    BY DEF LosersAreReclaimed
  <2>. QED
    BY <1>6, <2>1 DEF Grows, Evolves, Settled
<1>. QED
  BY <1>5, <1>7, <1>8, <1>9

\* attempt_best_accept.
LEMMA BestAcceptInv ==
    ASSUME BestInv, NEW b \in Selector, NEW r \in Reply, BestAccept(b, r)
    PROVE  BestInv'
<1>. USE DEF BestInv
<1>1. PICK a \in Attempt : a = selector[b].current.attempt /\ Accept(a, r)
  BY DEF BestAccept, BestTypeOK, Selection, Candidate
<1>2. /\ selector[b].life = "open" /\ selector[b].current # None
      /\ IF r = "ok" THEN Finalize(b, "accepted") /\ resolved' = ResolvedEverywhere(a)
         ELSE UNCHANGED <<selector, resolved>>
      /\ UNCHANGED <<scopeStatus, children, joined, outcomes, failures, cvars, evars, considered>>
  BY <1>1 DEF BestAccept, pvars
<1>3. GatewayTypeOK' /\ MergedIsSettled' /\ Evolves /\ gMerged \subseteq gMerged'
  BY <1>1, AcceptStep, MergedStays DEF RecordsInv, TypeOK
<1>4. RecordsInv' /\ Grows
  <2>1. /\ resolved' \in [Scope -> SUBSET Attempt]
        /\ \A s \in Scope : /\ resolved[s] \subseteq resolved'[s]
                            /\ joined[s] \cup resolved'[s] \subseteq children[s]
    BY <1>2 DEF ResolvedEverywhere, RecordsInv, TypeOK
  <2>2. /\ scopeStatus' \in [Scope -> ScopeStatus] /\ children' \in [Scope -> SUBSET Attempt]
        /\ joined' \in [Scope -> SUBSET Attempt]
        /\ outcomes' \subseteq Outcome /\ failures' \subseteq Scope \X Attempt
    BY <1>2 DEF RecordsInv, TypeOK
  <2>. QED
    BY <1>2, <1>3, <2>1, <2>2, RecordStep
<1>5. CASE r = "ok"
  BY <1>2, <1>4, <1>5, FinalizeInv
<1>6. CASE r # "ok"
  BY <1>2, <1>4, <1>6, SelectorsKeep DEF bvars
<1>. QED
  BY <1>5, <1>6

\* attempt_best_discard.
LEMMA BestDiscardInv ==
    ASSUME BestInv, NEW b \in Selector, NEW r \in Reply, BestDiscard(b, r)
    PROVE  BestInv'
<1>. USE DEF BestInv
<1>1. /\ selector[b].life = "open" /\ UNCHANGED considered
      /\ IF r = "ok" THEN Finalize(b, "discarded") ELSE UNCHANGED selector
  BY DEF BestDiscard
<1>2. RecordsInv' /\ Grows
  <2>1. CASE UNCHANGED vars
    BY <2>1, ScopesGrow
  <2>2. CASE selector[b].current # None /\ DiscardLoser(selector[b].current.attempt, r)
    <3>1. selector[b].current.attempt \in Attempt
      BY <2>2 DEF BestTypeOK, Selection, Candidate
    <3>. QED
      BY <2>2, <3>1, LoserStep
  <2>. QED
    BY <2>1, <2>2 DEF BestDiscard
<1>3. CASE r = "ok"
  BY <1>1, <1>2, <1>3, FinalizeInv
<1>4. CASE r # "ok"
  BY <1>1, <1>2, <1>4, SelectorsKeep DEF bvars
<1>. QED
  BY <1>3, <1>4

\* Every step keeps the invariant.
LEMMA BestNextInv == BestInv /\ [BestNext]_bestVars => BestInv'
<1>. SUFFICES ASSUME BestInv, [BestNext]_bestVars PROVE BestInv'
  OBVIOUS
<1>1. CASE Select
  BY <1>1, NewBestInv, ConsiderInv, BestAcceptInv, BestDiscardInv DEF Select
<1>2. CASE [Next]_vars /\ UNCHANGED bvars
  BY <1>2, ScopesGrow, SelectorsKeep DEF BestInv
<1>. QED
  BY <1>1, <1>2 DEF BestNext, bestVars

-----------------------------------------------------------------------------
(***************************************************************************)
(* Theorems.                                                               *)
(***************************************************************************)
\* The inductive invariant of selectors holds in every evaluation.
THEOREM BestInvariance == BestSpec => []BestInv
<1>1. BestInit => BestInv
  <2>. SUFFICES ASSUME BestInit PROVE BestInv
    OBVIOUS
  <2>1. Inv
    BY InitInv DEF BestInit
  <2>2. RecordsInv
    BY <2>1 DEF BestInit, Init, RecordsInv, Inv, CleanupInv, BookkeepingInv, MergedIsSettled,
                NotClosing
  <2>3. BestTypeOK
    BY <2>1 DEF BestInit, BestTypeOK, Inv, Unused, Selection, Lifecycle, Objective
  <2>4. SelectorInv /\ BestIsBest /\ LosersAreReclaimed
    BY DEF BestInit, SelectorInv, BestIsBest, LosersAreReclaimed, Chosen, Unused
  <2>. QED
    BY <2>2, <2>3, <2>4 DEF BestInv
<1>2. BestInv /\ [BestNext]_bestVars => BestInv'
  BY BestNextInv
<1>. QED
  BY <1>1, <1>2, PTL DEF BestSpec

\* The variables of selectors keep their types.
THEOREM BestTypes == BestSpec => []BestTypeOK
<1>1. BestInv => BestTypeOK
  BY DEF BestInv
<1>. QED
  BY <1>1, BestInvariance, PTL

\* attempt_best_consider keeps the best of everything it decided on.
THEOREM BestStaysBest == BestSpec => []BestIsBest
<1>1. BestInv => BestIsBest
  BY DEF BestInv
<1>. QED
  BY <1>1, BestInvariance, PTL

\* A candidate that was turned down is settled at the Gateway and resolved.
THEOREM LosersGone == BestSpec => []LosersAreReclaimed
<1>1. BestInv => LosersAreReclaimed
  BY DEF BestInv
<1>. QED
  BY <1>1, BestInvariance, PTL

\* attempt_best_accept counts a child as accepted only when the parent has its
\* workspace, and where the Gateway refuses to merge a child twice no two selectors
\* accept the same one.
THEOREM AcceptedOnce == ASSUME ~Lenient PROVE BestSpec => []AcceptedIsMergedOnce
<1>1. BestInit => AcceptedIsMergedOnce
  BY DEF BestInit, AcceptedIsMergedOnce, Unused
<1>2. BestInv /\ AcceptedIsMergedOnce /\ [BestNext]_bestVars => AcceptedIsMergedOnce'
  <2>. SUFFICES ASSUME BestInv, AcceptedIsMergedOnce, [BestNext]_bestVars
                PROVE  AcceptedIsMergedOnce'
    OBVIOUS
  <2>1. BestInv'
    BY BestNextInv
  <2>2. gMerged \subseteq gMerged'
    <3>1. CASE [Next]_vars
      BY <3>1, ScopesGrow DEF BestInv, Grows
    <3>2. CASE Select
      <4>1. ASSUME NEW a, NEW r, DiscardLoser(a, r) PROVE gMerged' = gMerged
        BY <4>1 DEF DiscardLoser, Finish
      <4>2. ASSUME NEW a, NEW r, Accept(a, r) PROVE gMerged \subseteq gMerged'
        BY <4>2 DEF Accept
      <4>3. UNCHANGED vars => gMerged' = gMerged
        BY DEF vars, gvars
      <4>4. ASSUME NEW b \in Selector, NEW o \in outcomes, NEW score \in Score, NEW r \in Reply,
                   Consider(b, o, score, r)
            PROVE  gMerged \subseteq gMerged'
        BY <4>1, <4>3, <4>4 DEF Consider
      <4>5. ASSUME NEW b \in Selector, NEW r \in Reply, BestAccept(b, r) \/ BestDiscard(b, r)
            PROVE  gMerged \subseteq gMerged'
        BY <4>1, <4>2, <4>3, <4>5 DEF BestAccept, BestDiscard
      <4>6. ASSUME NEW b \in Selector, NEW s \in Scope, NEW objective \in Objective,
                   NewBest(b, s, objective)
            PROVE  gMerged \subseteq gMerged'
        BY <4>3, <4>6 DEF NewBest
      <4>. QED
        BY <3>2, <4>4, <4>5, <4>6 DEF Select
    <3>. QED
      BY <3>1, <3>2 DEF BestNext, bestVars
  <2>3. ASSUME \A d \in Selector : selector'[d].life = "accepted" =>
                  selector[d].life = "accepted" /\ selector'[d].final = selector[d].final
        PROVE  AcceptedIsMergedOnce'
    BY <2>2, <2>3 DEF AcceptedIsMergedOnce
  <2>4. ASSUME NEW b \in Selector, NEW r \in Reply, BestAccept(b, r)
        PROVE  AcceptedIsMergedOnce'
    <3>1. CASE r # "ok"
      BY <2>3, <2>4, <3>1 DEF BestAccept
    <3>2. CASE r = "ok"
      <4>1. /\ Finalize(b, "accepted") /\ selector[b].life = "open"
            /\ Accept(selector[b].current.attempt, r)
        BY <2>4, <3>2 DEF BestAccept
      <4>2. /\ Active(selector[b].current.attempt)
            /\ gMerged' = gMerged \cup {selector[b].current.attempt}
        BY <3>2, <4>1 DEF Accept, Unapplied
      <4>3. /\ selector'[b].life = "accepted" /\ selector'[b].final = selector[b].current
            /\ \A d \in Selector \ {b} : selector'[d] = selector[d]
        BY <4>1 DEF Finalize, BestInv, BestTypeOK, Selection
      <4>4. selector[b].current.attempt \notin gMerged
        BY <4>2 DEF BestInv, RecordsInv, MergedIsSettled, Settled, Active
      <4>. QED
        BY <2>2, <4>2, <4>3, <4>4 DEF AcceptedIsMergedOnce
    <3>. QED
      BY <3>1, <3>2
  <2>5. ASSUME NEW b \in Selector, NEW s \in Scope, NEW objective \in Objective,
               NewBest(b, s, objective)
        PROVE  AcceptedIsMergedOnce'
    BY <2>3, <2>5 DEF NewBest, Unused, BestInv, BestTypeOK
  <2>6. ASSUME NEW b \in Selector, NEW r \in Reply, BestDiscard(b, r)
        PROVE  AcceptedIsMergedOnce'
    BY <2>3, <2>6 DEF BestDiscard, Finalize, BestInv, BestTypeOK, Selection
  <2>7. ASSUME NEW b \in Selector, NEW o \in outcomes, NEW score \in Score, NEW r \in Reply,
               Consider(b, o, score, r)
        PROVE  AcceptedIsMergedOnce'
    <3>1. selector' = selector \/ \E w : selector' = [selector EXCEPT ![b].current = w]
      BY <2>7 DEF Consider, Decide, bvars
    <3>. QED
      BY <2>3, <3>1 DEF BestInv, BestTypeOK, Selection
  <2>8. CASE UNCHANGED bvars
    BY <2>3, <2>8 DEF bvars
  <2>. QED
    BY <2>4, <2>5, <2>6, <2>7, <2>8 DEF BestNext, Select, bestVars
<1>. QED
  BY <1>1, <1>2, BestInvariance, PTL DEF BestSpec

\* What a selector decided is so at the Gateway, for losers and for the winner
\* (eval_attempt_best_consider_call, eval_attempt_best_accept_call).
THEOREM DecisionsAreCarriedOut == ASSUME ~Lenient PROVE BestSpec => []DecisionsHold
BY LosersGone, AcceptedOnce, PTL DEF DecisionsHold

-----------------------------------------------------------------------------
(* Semantic frontiers                                                      *)

-----------------------------------------------------------------------------
(***************************************************************************)
(* The inductive invariant.                                                *)
(***************************************************************************)
Pending(f) == \E i \in 1 .. Len(toRelease) : toRelease[i] = f

\* Only frontiers that were created have a checkpoint, are listed or are released.
CreatedInv ==
    /\ \A f \in Frontier : checkpoint[f] # None => f <= created
    /\ \A f \in Frontier : origin[f] # "ready" => checkpoint[f] # None
    /\ \A i \in 1 .. Len(listed) : checkpoint[listed[i]] # None
    /\ \A i \in 1 .. Len(toRelease) : checkpoint[toRelease[i]] # None

\* What the teardown has visited so far.
TeardownInv ==
    /\ teardown # "no" => phase = "done"
    /\ teardown = "over" => toRelease = <<>>
    /\ teardown # "no" =>
          \A i \in 1 .. Len(listed) :
              \/ origin[listed[i]] # "ready"
              \/ listed[i] \in unreleased
              \/ Pending(listed[i])

FrontierInv ==
    /\ FrontierTypeOK
    /\ Inv
    /\ CreatedInv
    /\ ReleasedIsReclaimed
    /\ DiagnosticsAccountForAll
    /\ TeardownInv

-----------------------------------------------------------------------------
(***************************************************************************)
(* Steps.                                                                  *)
(***************************************************************************)
\* The list before and after a new entry.
LEMMA ListStep ==
    ASSUME FrontierTypeOK, DiagnosticsAccountForAll, NEW f \in Frontier, f = created + 1,
           List(f), created' = f
    PROVE  /\ listed' \in Seq(Frontier) /\ Len(listed') <= Cap /\ dropped' \in Nat
           /\ DiagnosticsAccountForAll'
           /\ \A i \in 1 .. Len(listed') :
                 listed'[i] = f \/ \E j \in 1 .. Len(listed) : listed'[i] = listed[j]
<1>1. listed \in Seq(Frontier) /\ Len(listed) \in Nat /\ Len(listed) <= Cap
      /\ dropped \in Nat /\ created \in Nat /\ Cap \in Nat \ {0}
  BY CapAssumption DEF FrontierTypeOK
<1>2. dropped + Len(listed) = created /\ \A i \in 1 .. Len(listed) : listed[i] = dropped + i
  BY DEF DiagnosticsAccountForAll
<1>3. CASE Len(listed) = Cap
  <2>1. listed' = Append(Tail(listed), f) /\ dropped' = dropped + 1
    BY <1>3 DEF List
  <2>2. listed # <<>> /\ Tail(listed) \in Seq(Frontier) /\ Len(Tail(listed)) = Len(listed) - 1
    BY <1>1, <1>3
  <2>3. \A i \in 1 .. Len(listed) - 1 : Tail(listed)[i] = listed[i + 1]
    BY <1>1, <1>3, <2>2
  <2>4. listed' \in Seq(Frontier) /\ Len(listed') = Len(listed)
    BY <1>1, <2>1, <2>2
  <2>5. listed'[Len(listed)] = f
    BY <1>1, <2>1, <2>2
  <2>6. \A i \in 1 .. Len(listed) - 1 : listed'[i] = listed[i + 1] /\ i + 1 \in 1 .. Len(listed)
    BY <1>1, <2>1, <2>2, <2>3
  <2>7. \A i \in 1 .. Len(listed') : i = Len(listed) \/ i \in 1 .. Len(listed) - 1
    BY <1>1, <2>4
  <2>8. ASSUME NEW i \in 1 .. Len(listed')
        PROVE  listed'[i] = dropped' + i
    <3>1. CASE i = Len(listed)
      <4>1. listed'[i] = created + 1
        BY <2>5, <3>1
      <4>2. created + 1 = (dropped + 1) + Len(listed)
        BY <1>1, <1>2
      <4>. QED
        BY <2>1, <3>1, <4>1, <4>2
    <3>2. CASE i \in 1 .. Len(listed) - 1
      <4>1. listed'[i] = dropped + (i + 1)
        BY <1>2, <2>6, <3>2
      <4>. QED
        BY <1>1, <2>1, <3>2, <4>1
    <3>. QED
      BY <2>7, <3>1, <3>2
  <2>9. dropped' + Len(listed') = created'
    BY <1>1, <1>2, <2>1, <2>4
  <2>10. \A i \in 1 .. Len(listed') :
            listed'[i] = f \/ \E j \in 1 .. Len(listed) : listed'[i] = listed[j]
    BY <2>5, <2>6, <2>7
  <2>. QED
    <3>1. dropped' \in Nat /\ Len(listed') <= Cap
      BY <1>1, <2>1, <2>4
    <3>2. DiagnosticsAccountForAll'
      BY <2>8, <2>9 DEF DiagnosticsAccountForAll
    <3>. QED
      BY <2>4, <2>10, <3>1, <3>2
<1>4. CASE Len(listed) # Cap
  <2>1. listed' = Append(listed, f) /\ dropped' = dropped
    BY <1>4 DEF List
  <2>2. listed' \in Seq(Frontier) /\ Len(listed') = Len(listed) + 1
    BY <1>1, <2>1
  <2>3. listed'[Len(listed) + 1] = f
    BY <1>1, <2>1
  <2>4. \A i \in 1 .. Len(listed) : listed'[i] = listed[i]
    BY <1>1, <2>1
  <2>5. \A i \in 1 .. Len(listed') : i = Len(listed) + 1 \/ i \in 1 .. Len(listed)
    BY <1>1, <2>2
  <2>6. \A i \in 1 .. Len(listed') : listed'[i] = dropped' + i
    BY SMTT(30), <1>1, <1>2, <2>1, <2>3, <2>4, <2>5
  <2>7. dropped' + Len(listed') = created' /\ Len(listed') <= Cap
    BY <1>1, <1>2, <1>4, <2>1, <2>2
  <2>8. \A i \in 1 .. Len(listed') :
            listed'[i] = f \/ \E j \in 1 .. Len(listed) : listed'[i] = listed[j]
    BY <2>3, <2>4, <2>5
  <2>. QED
    BY <1>1, <2>1, <2>2, <2>6, <2>7, <2>8 DEF DiagnosticsAccountForAll
<1>. QED
  BY <1>3, <1>4

\* A new frontier is nobody's: it has no checkpoint and was never released.
LEMMA NewFrontierStep ==
    ASSUME FrontierInv, NEW f \in Frontier, NEW c \in Checkpoint,
           NEW owner \in Attempt \cup {None}, NewFrontier(f, c, owner)
    PROVE  FrontierInv'
<1>. USE DEF FrontierInv
<1>1. /\ f = created + 1 /\ created' = f /\ List(f)
      /\ checkpoint' = [checkpoint EXCEPT ![f] = c]
      /\ UNCHANGED <<vars, origin, source, teardown, toRelease, unreleased, reclaimed>>
      /\ phase = "program"
  BY DEF NewFrontier, Ready
<1>2. /\ listed' \in Seq(Frontier) /\ Len(listed') <= Cap /\ dropped' \in Nat
      /\ DiagnosticsAccountForAll'
      /\ \A i \in 1 .. Len(listed') :
            listed'[i] = f \/ \E j \in 1 .. Len(listed) : listed'[i] = listed[j]
  BY <1>1, ListStep
<1>3. Inv' /\ TypeOK' /\ phase' = phase
  <2>1. [Next]_vars
    BY <1>1
  <2>2. Inv'
    BY <2>1, NextInv
  <2>. QED
    BY <1>1, <2>2 DEF Inv, vars, evars
<1>4. created \in Nat /\ f \in Nat /\ checkpoint[f] = None /\ origin[f] = "ready"
  BY <1>1, FrontierAssumption DEF FrontierTypeOK, CreatedInv
<1>5. FrontierTypeOK'
  BY <1>1, <1>2, <1>3, <1>4 DEF FrontierTypeOK
<1>6. CreatedInv'
  <2>1. \A g \in Frontier : checkpoint'[g] # None => g <= created'
    BY <1>1, <1>4, FrontierAssumption DEF CreatedInv, FrontierTypeOK
  <2>2. \A g \in Frontier : origin'[g] # "ready" => checkpoint'[g] # None
    BY <1>1, <1>4 DEF CreatedInv, FrontierTypeOK
  <2>3. c # None
    BY CheckpointAssumption
  <2>4. \A i \in 1 .. Len(listed) : listed[i] \in Frontier
    BY DEF FrontierTypeOK
  <2>5. \A i \in 1 .. Len(listed') : checkpoint'[listed'[i]] # None
    BY <1>1, <1>2, <2>3, <2>4 DEF CreatedInv, FrontierTypeOK
  <2>6. \A i \in 1 .. Len(toRelease') : checkpoint'[toRelease'[i]] # None
    BY <1>1, <2>3 DEF CreatedInv, FrontierTypeOK
  <2>. QED
    BY <2>1, <2>2, <2>5, <2>6 DEF CreatedInv
<1>7. ReleasedIsReclaimed'
  BY <1>1, <1>4 DEF ReleasedIsReclaimed, FrontierTypeOK
<1>8. TeardownInv'
  BY <1>1, <1>3 DEF TeardownInv
<1>. QED
  BY <1>2, <1>3, <1>5, <1>6, <1>7, <1>8

\* What one release does to its frontier, and to no other.
LEMMA ReleaseStep ==
    ASSUME FrontierInv, NEW f \in Frontier, NEW how \in Origin, NEW r \in Reply,
           checkpoint[f] # None, ReleaseAs(f, how, r), UNCHANGED <<checkpoint, created, listed>>
    PROVE  /\ origin' \in [Frontier -> Origin] /\ reclaimed' \subseteq Checkpoint
           /\ reclaimed \subseteq reclaimed'
           /\ ReleasedIsReclaimed'
           /\ \A g \in Frontier \ {f} : origin'[g] = origin[g]
           /\ r = "ok" => origin'[f] = how
           /\ r # "ok" => origin'[f] = origin[f]
<1>. USE DEF FrontierInv
<1>1. checkpoint[f] \in Checkpoint
  BY DEF FrontierTypeOK
<1>2. /\ reclaimed' \subseteq Checkpoint /\ reclaimed \subseteq reclaimed'
      /\ r = "ok" => checkpoint[f] \in reclaimed'
  <2>1. r = "ok" => checkpoint[f] \in reclaimed'
    BY DEF ReleaseAs, Reclaim, Unapplied
  <2>2. reclaimed' = reclaimed \/ reclaimed' = reclaimed \cup {checkpoint[f]}
    BY DEF ReleaseAs, Reclaim
  <2>. QED
    BY <1>1, <2>1, <2>2 DEF FrontierTypeOK
<1>3. CASE r = "ok"
  BY <1>2, <1>3 DEF ReleaseAs, FrontierTypeOK, ReleasedIsReclaimed
<1>4. CASE r # "ok"
  BY <1>2, <1>4 DEF ReleaseAs, FrontierTypeOK, ReleasedIsReclaimed
<1>. QED
  BY <1>2, <1>3, <1>4

\* Nothing goes back to the program once the evaluation is over.
LEMMA DoneStays ==
    ASSUME phase = "done", [Next]_vars
    PROVE  phase' = "done"
<1>1. CASE Program
  BY <1>1 DEF Program, NewScope, CloseScope, Spawn, StartChild, TerminateChild, FinishChild,
              AcceptChild, DiscardChild, ReportForChild, Join, AddToScope, WaitSet,
              RetainFailure, Ready
<1>2. CASE EndProgram
  BY <1>2 DEF EndProgram, Ready
<1>3. CASE Cleanup
  BY <1>3 DEF Cleanup, Observe, Cancel, Recheck, RollBack, AwaitChild, EndClose, EndScope,
              EndEvaluation, evars
<1>4. CASE Children
  BY <1>4 DEF Children, evars
<1>5. CASE UNCHANGED vars
  BY <1>5 DEF vars, evars
<1>. QED
  BY <1>1, <1>2, <1>3, <1>4, <1>5 DEF Next

\* A step of attempts and scopes leaves the frontiers alone.
LEMMA ScopeStep ==
    ASSUME FrontierInv, [Next]_vars, source' \in [Attempt -> Frontier \cup {None}],
           UNCHANGED <<created, checkpoint, origin, listed, dropped, teardown, toRelease,
                       unreleased, reclaimed>>
    PROVE  FrontierInv'
<1>. USE DEF FrontierInv
<1>1. Inv'
  BY NextInv
<1>2. FrontierTypeOK'
  BY <1>1 DEF FrontierTypeOK, Inv
<1>3. CreatedInv' /\ ReleasedIsReclaimed' /\ DiagnosticsAccountForAll'
  BY DEF CreatedInv, ReleasedIsReclaimed, DiagnosticsAccountForAll
<1>4. TeardownInv'
  BY DoneStays DEF TeardownInv, Pending
<1>. QED
  BY <1>1, <1>2, <1>3, <1>4

\* semantic_frontier_release and the end of a `with` block.
LEMMA ReleaseInv ==
    ASSUME FrontierInv, NEW f \in Frontier, NEW how \in {"explicit", "scope_exit"},
           NEW r \in Reply, Release(f, how, r)
    PROVE  FrontierInv'
<1>. USE DEF FrontierInv
<1>1. /\ checkpoint[f] # None /\ ReleaseAs(f, how, r) /\ phase = "program"
      /\ UNCHANGED <<vars, created, checkpoint, listed, dropped, source, teardown, toRelease,
                     unreleased>>
  BY DEF Release, Usable, Ready
<1>2. how \in Origin
  BY DEF Origin
<1>3. /\ origin' \in [Frontier -> Origin] /\ reclaimed' \subseteq Checkpoint
      /\ ReleasedIsReclaimed' /\ \A g \in Frontier \ {f} : origin'[g] = origin[g]
  BY <1>1, <1>2, ReleaseStep
<1>4. Inv' /\ phase' = "program"
  <2>1. [Next]_vars
    BY <1>1
  <2>. QED
    BY <1>1, <2>1, NextInv DEF vars, evars
<1>5. FrontierTypeOK'
  BY <1>1, <1>3, <1>4 DEF FrontierTypeOK, Inv
<1>6. CreatedInv'
  BY <1>1, <1>3 DEF CreatedInv
<1>7. DiagnosticsAccountForAll'
  BY <1>1 DEF DiagnosticsAccountForAll
<1>8. TeardownInv'
  BY <1>1, <1>4 DEF TeardownInv
<1>. QED
  BY <1>3, <1>4, <1>5, <1>6, <1>7, <1>8

\* One frontier of the copied list.
LEMMA ReleaseNextInv ==
    ASSUME FrontierInv, NEW r \in Reply, ReleaseNext(r)
    PROVE  FrontierInv'
<1>. USE DEF FrontierInv
<1>. DEFINE f == Head(toRelease)
<1>1. /\ teardown = "running" /\ toRelease # <<>> /\ toRelease' = Tail(toRelease)
      /\ UNCHANGED <<vars, created, checkpoint, listed, dropped, source, teardown>>
  BY DEF ReleaseNext
<1>2. /\ toRelease \in Seq(Frontier) /\ Len(toRelease) \in Nat \ {0}
      /\ toRelease' \in Seq(Frontier) /\ Len(toRelease') = Len(toRelease) - 1
      /\ f = toRelease[1] /\ f \in Frontier /\ checkpoint[f] # None
  BY <1>1 DEF FrontierTypeOK, CreatedInv
<1>3. \A i \in 1 .. Len(toRelease') : toRelease'[i] = toRelease[i + 1] /\ i + 1 \in 1 .. Len(toRelease)
  BY <1>1, <1>2
<1>4. \A i \in 2 .. Len(toRelease) : toRelease[i] = toRelease'[i - 1] /\ i - 1 \in 1 .. Len(toRelease')
  BY <1>2, <1>3
<1>5. /\ origin' \in [Frontier -> Origin] /\ reclaimed' \subseteq Checkpoint
      /\ ReleasedIsReclaimed' /\ unreleased' \subseteq Frontier /\ unreleased \subseteq unreleased'
      /\ \A g \in Frontier : origin[g] # "ready" => origin'[g] # "ready"
      /\ \A g \in Frontier \ {f} : origin'[g] = origin[g]
      /\ origin'[f] # "ready" \/ f \in unreleased'
  <2>1. CASE origin[f] = "ready"
    <3>1. /\ ReleaseAs(f, "evaluation_cleanup", r)
          /\ unreleased' = IF r = "ok" THEN unreleased ELSE unreleased \cup {f}
      BY <2>1 DEF ReleaseNext
    <3>2. "evaluation_cleanup" \in Origin
      BY DEF Origin
    <3>3. /\ origin' \in [Frontier -> Origin] /\ reclaimed' \subseteq Checkpoint
          /\ ReleasedIsReclaimed' /\ \A g \in Frontier \ {f} : origin'[g] = origin[g]
          /\ r = "ok" => origin'[f] = "evaluation_cleanup"
      BY <1>1, <1>2, <3>1, <3>2, ReleaseStep
    <3>. QED
      BY <1>2, <2>1, <3>1, <3>3 DEF FrontierTypeOK
  <2>2. CASE origin[f] # "ready"
    <3>1. UNCHANGED <<origin, reclaimed, unreleased>>
      BY <2>2 DEF ReleaseNext
    <3>. QED
      BY <1>1, <2>2, <3>1 DEF FrontierTypeOK, ReleasedIsReclaimed
  <2>. QED
    BY <2>1, <2>2
<1>6. Inv' /\ phase' = phase
  <2>1. [Next]_vars
    BY <1>1
  <2>. QED
    BY <1>1, <2>1, NextInv DEF vars, evars
<1>7. FrontierTypeOK'
  BY <1>1, <1>2, <1>5, <1>6 DEF FrontierTypeOK, Inv
<1>8. CreatedInv'
  <2>1. \A i \in 1 .. Len(toRelease') : checkpoint'[toRelease'[i]] # None
    BY <1>1, <1>3 DEF CreatedInv
  <2>2. \A g \in Frontier : origin'[g] # "ready" => checkpoint'[g] # None
    BY <1>1, <1>2, <1>5 DEF CreatedInv
  <2>. QED
    BY <1>1, <2>1, <2>2 DEF CreatedInv
<1>9. DiagnosticsAccountForAll'
  BY <1>1 DEF DiagnosticsAccountForAll
<1>10. TeardownInv'
  <2>1. \A g \in Frontier : Pending(g) => g = f \/ Pending(g)'
    <3>. SUFFICES ASSUME NEW g \in Frontier, NEW i \in 1 .. Len(toRelease), toRelease[i] = g, g # f
                  PROVE  Pending(g)'
      BY DEF Pending
    <3>1. i \in 2 .. Len(toRelease)
      BY <1>2
    <3>. QED
      BY <1>4, <3>1 DEF Pending
  <2>2. ASSUME NEW i \in 1 .. Len(listed')
        PROVE  origin'[listed'[i]] # "ready" \/ listed'[i] \in unreleased' \/ Pending(listed[i])'
    <3>1. listed' = listed /\ listed[i] \in Frontier /\ i \in 1 .. Len(listed)
      BY <1>1 DEF FrontierTypeOK
    <3>2. origin[listed[i]] # "ready" \/ listed[i] \in unreleased \/ Pending(listed[i])
      BY <1>1, <3>1 DEF TeardownInv
    <3>3. CASE listed[i] = f
      BY <1>5, <3>1, <3>3
    <3>4. CASE listed[i] # f
      <4>1. Pending(listed[i]) => Pending(listed[i])'
        BY <2>1, <3>1, <3>4 DEF Pending
      <4>. QED
        BY <1>5, <3>1, <3>2, <4>1
    <3>. QED
      BY <3>3, <3>4
  <2>. QED
    BY <1>1, <1>6, <2>2 DEF TeardownInv
<1>. QED
  BY <1>5, <1>6, <1>7, <1>8, <1>9, <1>10

\* Every step keeps the invariant.
LEMMA FrontierNextInv == FrontierInv /\ [FrontierNext]_frontierVars => FrontierInv'
<1>. SUFFICES ASSUME FrontierInv, [FrontierNext]_frontierVars PROVE FrontierInv'
  OBVIOUS
<1>1. ASSUME NEW f \in Frontier, NEW c \in Checkpoint, NEW owner \in Attempt \cup {None},
             NewFrontier(f, c, owner)
      PROVE  FrontierInv'
  BY <1>1, NewFrontierStep
<1>2. ASSUME NEW f \in Frontier, NEW r \in Reply, NEW how \in {"explicit", "scope_exit"},
             Release(f, how, r)
      PROVE  FrontierInv'
  BY <1>2, ReleaseInv
<1>3. ASSUME NEW f \in Frontier, NEW r \in Reply, NEW a \in Attempt,
             NEW s \in Scope \cup {None}, NEW start \in BOOLEAN, Branch(f, a, s, start, r)
      PROVE  FrontierInv'
  <2>1. Spawn(a, s, start, r) /\ source' = [source EXCEPT ![a] = f]
        /\ UNCHANGED <<created, checkpoint, origin, listed, dropped, teardown, toRelease,
                       unreleased, reclaimed>>
    BY <1>3 DEF Branch
  <2>2. [Next]_vars
    BY <2>1 DEF Next, Program
  <2>3. source' \in [Attempt -> Frontier \cup {None}]
    BY <2>1 DEF FrontierInv, FrontierTypeOK
  <2>. QED
    BY <2>1, <2>2, <2>3, ScopeStep
<1>4. CASE BeginTeardown
  <2>1. /\ phase = "done" /\ teardown' = "running" /\ toRelease' = listed
        /\ UNCHANGED <<vars, created, checkpoint, origin, listed, dropped, source, unreleased,
                       reclaimed>>
    BY <1>4 DEF BeginTeardown
  <2>2. Inv' /\ phase' = "done"
    <3>1. [Next]_vars
      BY <2>1
    <3>. QED
      BY <2>1, <3>1, NextInv DEF FrontierInv, vars, evars
  <2>3. FrontierTypeOK'
    BY <2>1, <2>2 DEF FrontierInv, FrontierTypeOK, Inv
  <2>4. CreatedInv' /\ ReleasedIsReclaimed' /\ DiagnosticsAccountForAll'
    BY <2>1 DEF FrontierInv, CreatedInv, ReleasedIsReclaimed, DiagnosticsAccountForAll
  <2>5. TeardownInv'
    BY <2>1, <2>2 DEF TeardownInv, Pending
  <2>. QED
    BY <2>2, <2>3, <2>4, <2>5 DEF FrontierInv
<1>5. CASE EndTeardown
  <2>1. /\ teardown = "running" /\ toRelease = <<>> /\ teardown' = "over"
        /\ UNCHANGED <<vars, created, checkpoint, origin, listed, dropped, source, toRelease,
                       unreleased, reclaimed>>
    BY <1>5 DEF EndTeardown
  <2>2. Inv' /\ phase' = phase
    <3>1. [Next]_vars
      BY <2>1
    <3>. QED
      BY <2>1, <3>1, NextInv DEF FrontierInv, vars, evars
  <2>3. FrontierTypeOK'
    BY <2>1, <2>2 DEF FrontierInv, FrontierTypeOK, Inv
  <2>4. CreatedInv' /\ ReleasedIsReclaimed' /\ DiagnosticsAccountForAll'
    BY <2>1 DEF FrontierInv, CreatedInv, ReleasedIsReclaimed, DiagnosticsAccountForAll
  <2>5. TeardownInv'
    BY <2>1, <2>2 DEF FrontierInv, TeardownInv, Pending
  <2>. QED
    BY <2>2, <2>3, <2>4, <2>5 DEF FrontierInv
<1>6. ASSUME NEW r \in Reply, ReleaseNext(r) PROVE FrontierInv'
  BY <1>6, ReleaseNextInv
<1>7. CASE Next /\ UNCHANGED fvars
  BY <1>7, ScopeStep DEF fvars, FrontierInv, FrontierTypeOK
<1>8. CASE UNCHANGED frontierVars
  BY <1>8, ScopeStep DEF frontierVars, fvars, FrontierInv, FrontierTypeOK
<1>. QED
  BY <1>1, <1>2, <1>3, <1>4, <1>5, <1>6, <1>7, <1>8 DEF FrontierNext, Explore, Teardown

-----------------------------------------------------------------------------
(***************************************************************************)
(* Theorems.                                                               *)
(***************************************************************************)
\* Frontiers, their list and the teardown stay consistent with each other and with
\* the scopes, in every evaluation.
THEOREM FrontierInvariance == FrontierSpec => []FrontierInv
<1>1. FrontierInit => FrontierInv
  <2>. SUFFICES ASSUME FrontierInit PROVE FrontierInv
    OBVIOUS
  <2>1. Inv
    BY InitInv DEF FrontierInit
  <2>2. listed = <<>> /\ toRelease = <<>> /\ Len(listed) = 0 /\ Len(toRelease) = 0
        /\ <<>> \in Seq(Frontier)
    BY DEF FrontierInit
  <2>3. FrontierTypeOK
    BY <2>1, <2>2, CapAssumption DEF FrontierInit, FrontierTypeOK, Inv, Origin
  <2>4. CreatedInv /\ ReleasedIsReclaimed
    BY <2>2 DEF FrontierInit, CreatedInv, ReleasedIsReclaimed
  <2>5. DiagnosticsAccountForAll
    BY <2>2 DEF FrontierInit, DiagnosticsAccountForAll
  <2>6. TeardownInv
    BY DEF FrontierInit, TeardownInv
  <2>. QED
    BY <2>1, <2>3, <2>4, <2>5, <2>6 DEF FrontierInv
<1>2. FrontierInv /\ [FrontierNext]_frontierVars => FrontierInv'
  BY FrontierNextInv
<1>. QED
  BY <1>1, <1>2, PTL DEF FrontierSpec

\* semantic_frontier_release reports a checkpoint reclaimed only when it is.
THEOREM ReleasedAreReclaimed == FrontierSpec => []ReleasedIsReclaimed
<1>1. FrontierInv => ReleasedIsReclaimed
  BY DEF FrontierInv
<1>. QED
  BY <1>1, FrontierInvariance, PTL

\* The list is the youngest frontiers in order, and what it dropped is counted.
THEOREM DiagnosticsAccount == FrontierSpec => []DiagnosticsAccountForAll
<1>1. FrontierInv => DiagnosticsAccountForAll
  BY DEF FrontierInv
<1>. QED
  BY <1>1, FrontierInvariance, PTL

\* An evaluation that is over leaves no registered child active, except under a
\* scope whose cleanup it reports as incomplete.
LEMMA DoneIsSettled ==
    ASSUME Inv, phase = "done", NEW s \in Scope, s \notin dirty, NEW a \in children[s]
    PROVE  Settled(a)
<1>1. scopeStatus[s] = "closed"
  BY NoneAssumption DEF Inv, CleanupInv, BookkeepingInv, ClosingInv, EndingInv
<1>. QED
  BY <1>1 DEF Inv, ClosedIsResolved, ResolvedIsSettled

\* A teardown that reports no error left no listed frontier and no child behind.
THEOREM CleanTeardownsLeakNothing == FrontierSpec => []CleanTeardownLeaksNothing
<1>1. FrontierInv => CleanTeardownLeaksNothing
  <2>. SUFFICES ASSUME FrontierInv, teardown = "over", unreleased = {}, dirty = {}
                PROVE  /\ \A i \in 1 .. Len(listed) :
                             origin[listed[i]] # "ready" /\ checkpoint[listed[i]] \in reclaimed
                       /\ \A s \in Scope : \A a \in children[s] : Settled(a)
    BY DEF CleanTeardownLeaksNothing
  <2>1. phase = "done" /\ toRelease = <<>>
    BY DEF FrontierInv, TeardownInv
  <2>2. \A f \in Frontier : ~Pending(f)
    BY <2>1 DEF Pending
  <2>3. ASSUME NEW i \in 1 .. Len(listed)
        PROVE  origin[listed[i]] # "ready" /\ checkpoint[listed[i]] \in reclaimed
    <3>1. listed[i] \in Frontier
      BY DEF FrontierInv, FrontierTypeOK
    <3>. QED
      BY <2>2, <3>1 DEF FrontierInv, TeardownInv, ReleasedIsReclaimed
  <2>. QED
    BY <2>1, <2>3, DoneIsSettled DEF FrontierInv
<1>. QED
  BY <1>1, FrontierInvariance, PTL

\* The cleanup of an evaluation takes a checkpoint away only when the children it
\* branched from it are settled.
THEOREM ChildrenComeFirst == FrontierSpec => ChildrenBeforeCheckpoints
<1>1. FrontierInv /\ [FrontierNext]_frontierVars =>
        [\A f \in Frontier :
            origin'[f] = "evaluation_cleanup" /\ origin[f] = "ready" =>
               \A s \in Scope \ dirty : \A a \in children[s] :
                  source[a] = f => Settled(a)]_frontierVars
  <2>. SUFFICES ASSUME FrontierInv, FrontierNext, NEW f \in Frontier,
                       origin'[f] = "evaluation_cleanup", origin[f] = "ready",
                       NEW s \in Scope, s \notin dirty, NEW a \in children[s]
                PROVE  Settled(a)
    OBVIOUS
  <2>1. phase = "done"
    <3>1. ASSUME NEW r \in Reply, ReleaseNext(r) PROVE phase = "done"
      BY <3>1 DEF ReleaseNext, FrontierInv, TeardownInv
    <3>2. ASSUME NEW g \in Frontier, NEW r \in Reply, NEW how \in {"explicit", "scope_exit"},
                 Release(g, how, r)
          PROVE  FALSE
      BY <3>2 DEF Release, ReleaseAs, FrontierInv, FrontierTypeOK
    <3>. QED
      BY <3>1, <3>2 DEF FrontierNext, Explore, Teardown, NewFrontier, Branch, BeginTeardown,
                        EndTeardown, fvars
  <2>. QED
    BY <2>1, DoneIsSettled DEF FrontierInv
<1>. QED
  BY <1>1, FrontierInvariance, PTL DEF FrontierSpec, ChildrenBeforeCheckpoints
=============================================================================
