---------------------------- MODULE AttemptScope ----------------------------
(***************************************************************************)
(* Attempt supervision in the Stone evaluator: attempt scopes, retained    *)
(* failures, and the cancel-then-join cleanup of a scope, both when a      *)
(* program closes it and when the evaluation ends.                         *)
(*                                                                         *)
(* The evaluator is one thread.  A builtin that makes a single Gateway     *)
(* call is one step; close_attempt_scope makes up to five calls for each   *)
(* child and is one step per call, so the children and their controllers   *)
(* move between what it reads and what it does.                            *)
(***************************************************************************)
EXTENDS Gateway, Naturals

CONSTANTS
    Scope,  \* scope identifiers, numbered in creation order
    None    \* "no attempt", "no scope"

ASSUME ScopeAssumption == Scope \subseteq Nat
ASSUME NoneAssumption == None \notin Attempt /\ None \notin Scope

VARIABLES
    scopeStatus,  \* "unused", or AttemptScopeState.closed of a created scope
    children,     \* AttemptScopeState.children
    joined,       \* the children marked joined
    resolved,     \* the children marked resolved
    outcomes,     \* the joined attempt_outcome snapshots the program holds
    failures,     \* <<scope, attempt>> of the attempt_failures still retained
    phase,        \* the program runs, its cleanup runs, or both are over
    closing,      \* the local state of close_attempt_scope
    endTodo,      \* scopes close_open_attempt_scopes has not visited yet
    dirty,        \* scopes whose automatic cleanup was incomplete
    swept         \* children a cleanup reported as discarded and clean

svars == <<scopeStatus, children, joined, resolved>>
pvars == <<outcomes, failures>>
cvars == <<closing, swept>>
evars == <<phase, endTodo, dirty>>
vars == <<gvars, svars, pvars, cvars, evars>>

ScopeStatus == {"unused", "open", "closed"}
Outcome == [attempt : Attempt, succeeded : BOOLEAN, failed : BOOLEAN]
Step == {"idle", "next", "terminate", "wait", "recheck", "discard"}

NotClosing == [scope |-> None, step |-> "idle", child |-> None, todo |-> {},
               clean |-> TRUE, seen |-> "unknown", err |-> FALSE]

Closing == [scope : Scope \cup {None}, step : Step, child : Attempt \cup {None},
            todo : SUBSET Attempt, clean : BOOLEAN,
            seen : AttemptState \cup {"unknown"}, err : BOOLEAN]

TypeOK ==
    /\ GatewayTypeOK
    /\ scopeStatus \in [Scope -> ScopeStatus]
    /\ children \in [Scope -> SUBSET Attempt]
    /\ joined \in [Scope -> SUBSET Attempt]
    /\ resolved \in [Scope -> SUBSET Attempt]
    /\ outcomes \subseteq Outcome
    /\ failures \subseteq Scope \X Attempt
    /\ phase \in {"program", "ending", "done"}
    /\ closing \in Closing
    /\ endTodo \subseteq Scope
    /\ dirty \subseteq Scope
    /\ swept \subseteq Attempt

Init ==
    /\ GatewayInit
    /\ scopeStatus = [s \in Scope |-> "unused"]
    /\ children = [s \in Scope |-> {}]
    /\ joined = [s \in Scope |-> {}]
    /\ resolved = [s \in Scope |-> {}]
    /\ outcomes = {}
    /\ failures = {}
    /\ phase = "program"
    /\ closing = NotClosing
    /\ endTodo = {}
    /\ dirty = {}
    /\ swept = {}

-----------------------------------------------------------------------------
(***************************************************************************)
(* The bookkeeping of AttemptScopeValue.                                   *)
(***************************************************************************)
OwnsJoined(s, a) == a \in joined[s] /\ a \notin resolved[s]

\* mark_joined and mark_resolved in every scope of the evaluation.
JoinedEverywhere(A) == [s \in Scope |-> joined[s] \cup (A \cap children[s])]
ResolvedEverywhere(a) == [s \in Scope |-> resolved[s] \cup ({a} \cap children[s])]

\* register: a closed scope refuses; a child is listed once.
Register(s, a) ==
    /\ scopeStatus[s] = "open"
    /\ children' = [children EXCEPT ![s] = @ \cup {a}]

FailuresWithout(a) == {f \in failures : f[2] # a}

Snapshot(a) == [attempt |-> a, succeeded |-> a \in gSucceeded,
                failed |-> gState[a] = "failed" \/ a \notin gSucceeded]

-----------------------------------------------------------------------------
(***************************************************************************)
(* The builtins of a running program.                                      *)
(***************************************************************************)
Ready == phase = "program" /\ closing.step = "idle"

NewScope(s) ==
    /\ Ready
    /\ scopeStatus[s] = "unused"
    /\ \A t \in Scope : scopeStatus[t] = "unused" => s <= t
    /\ scopeStatus' = [scopeStatus EXCEPT ![s] = "open"]
    /\ UNCHANGED <<gvars, children, joined, resolved, pvars, cvars, evars>>

\* attempt_spawn, attempt_fork and attempt_branch: the child is created
\* first and registered afterwards, so a closed scope refuses it too late.
Spawn(a, s, start, r) ==
    /\ Ready
    /\ s # None => scopeStatus[s] # "unused"
    /\ Create(a, start, r)
    /\ IF r = "ok" /\ s # None /\ scopeStatus[s] # "closed"
       THEN Register(s, a)
       ELSE UNCHANGED children
    /\ UNCHANGED <<scopeStatus, joined, resolved, pvars, cvars, evars>>

StartChild(a, r) ==
    /\ Ready /\ Exists(a)
    /\ Start(a, r)
    /\ UNCHANGED <<svars, pvars, cvars, evars>>

TerminateChild(a, r) ==
    /\ Ready /\ Exists(a)
    /\ Terminate(a, r)
    /\ UNCHANGED <<svars, pvars, cvars, evars>>

\* attempt_finish ends an attempt without telling any scope.
FinishChild(a, outcome, r) ==
    /\ Ready /\ Exists(a)
    /\ Finish(a, outcome, r)
    /\ UNCHANGED <<svars, pvars, cvars, evars>>

ReportForChild(a, succeeded) ==
    /\ Ready
    /\ Report(a, succeeded)
    /\ UNCHANGED <<svars, pvars, cvars, evars>>

\* attempt_join that finds the controller stopped.  One that times out or
\* fails changes nothing and returns an outcome no later call admits.
Join(a) ==
    /\ Ready /\ Exists(a)
    /\ gController[a] = "stopped"
    /\ joined' = JoinedEverywhere({a})
    /\ outcomes' = outcomes \cup {Snapshot(a)}
    /\ UNCHANGED <<gvars, scopeStatus, children, resolved, failures, cvars, evars>>

\* attempt_wait_any and attempt_wait_all: every attempt the Gateway names as
\* ready is marked joined; only wait_any returns a typed outcome, of one.
WaitSet(ready, waitAll) ==
    /\ Ready
    /\ \A a \in ready : Exists(a) /\ gController[a] = "stopped"
    /\ joined' = JoinedEverywhere(ready)
    /\ IF waitAll THEN UNCHANGED outcomes
       ELSE \E a \in ready : outcomes' = outcomes \cup {Snapshot(a)}
    /\ UNCHANGED <<gvars, scopeStatus, children, resolved, failures, cvars, evars>>

AddToScope(s, a) ==
    /\ Ready /\ Exists(a)
    /\ Register(s, a)
    /\ UNCHANGED <<gvars, scopeStatus, joined, resolved, pvars, cvars, evars>>

RetainFailure(s, o) ==
    /\ Ready
    /\ scopeStatus[s] = "open"
    /\ o.failed
    /\ OwnsJoined(s, o.attempt)
    /\ \A f \in failures : f[2] # o.attempt
    /\ failures' = failures \cup {<<s, o.attempt>>}
    /\ UNCHANGED <<gvars, svars, outcomes, cvars, evars>>

\* What attempt_accept and attempt_discard record once the Gateway agreed.
ResolveChild(a, r) ==
    IF r = "ok"
    THEN /\ resolved' = ResolvedEverywhere(a)
         /\ failures' = FailuresWithout(a)
    ELSE UNCHANGED <<resolved, failures>>

AcceptChild(a, r) ==
    /\ Ready /\ Exists(a)
    /\ Accept(a, r)
    /\ ResolveChild(a, r)
    /\ UNCHANGED <<scopeStatus, children, joined, outcomes, cvars, evars>>

DiscardChild(a, r) ==
    /\ Ready /\ Exists(a)
    /\ Finish(a, "rolled_back", r)
    /\ ResolveChild(a, r)
    /\ UNCHANGED <<scopeStatus, children, joined, outcomes, cvars, evars>>

-----------------------------------------------------------------------------
(***************************************************************************)
(* close_attempt_scope.  It works on a copy of the child list, taken when  *)
(* it begins; a closed scope answers at once and changes nothing.          *)
(***************************************************************************)
BeginClose(s) ==
    /\ scopeStatus[s] = "open"
    /\ closing' = [NotClosing EXCEPT !.scope = s, !.step = "next",
                                     !.todo = children[s] \ resolved[s]]

CloseScope(s) ==
    /\ Ready
    /\ BeginClose(s)
    /\ UNCHANGED <<gvars, svars, pvars, swept, evars>>

\* The first attempt_state call: only an active child with a live controller
\* is cancelled, and only an active one with a controller is waited for.
Observe(a) ==
    /\ closing.step = "next" /\ a \in closing.todo
    /\ \/ \* the state was read
          /\ closing' = [closing EXCEPT
                !.child = a, !.seen = gState[a], !.err = FALSE,
                !.step = IF Active(a) /\ Live(a) THEN "terminate"
                         ELSE IF Active(a) /\ gController[a] = "stopped"
                                 /\ a \notin joined[closing.scope] THEN "wait"
                         ELSE "recheck"]
       \/ \* the call failed
          /\ "error" \in ReadReply
          /\ closing' = [closing EXCEPT !.child = a, !.seen = "unknown",
                                        !.err = TRUE, !.step = "recheck"]
    /\ UNCHANGED <<gvars, svars, pvars, swept, evars>>

Cancel(r) ==
    /\ closing.step = "terminate"
    /\ Terminate(closing.child, r)
    /\ closing' = [closing EXCEPT
          !.err = @ \/ r = "error",
          !.step = IF closing.child \in joined[closing.scope] THEN "recheck" ELSE "wait"]
    /\ UNCHANGED <<svars, pvars, swept, evars>>

\* attempt_wait bounded by join_timeout_ms: it answers with the controller
\* stopped, or at the timeout with whatever the controller does, or fails.
AwaitChild ==
    /\ closing.step = "wait"
    /\ \/ /\ gController[closing.child] = "stopped"
          /\ joined' = [joined EXCEPT ![closing.scope] = @ \cup {closing.child}]
          /\ closing' = [closing EXCEPT !.step = "recheck"]
       \/ /\ gController[closing.child] # "stopped"
          /\ closing' = [closing EXCEPT !.step = "recheck"]
          /\ UNCHANGED joined
       \/ /\ "error" \in ReadReply
          /\ closing' = [closing EXCEPT !.step = "recheck", !.err = TRUE]
          /\ UNCHANGED joined
    /\ UNCHANGED <<gvars, scopeStatus, children, resolved, pvars, swept, evars>>

\* The report of one child and the step to the next one.
ChildReported(seen, err) ==
    closing' = [closing EXCEPT
        !.clean = @ /\ ~err /\ seen \notin {"active", "unknown"},
        !.todo = @ \ {closing.child},
        !.child = None, !.seen = "unknown", !.err = FALSE, !.step = "next"]

\* Faulty variant: the close leaves the retained failure of the child behind.
ResolveOwnOnly ==
    /\ resolved' = [resolved EXCEPT ![closing.scope] = @ \cup {closing.child}]
    /\ UNCHANGED failures

\* The close marks the child in its own scope only.
ResolveOwn ==
    /\ resolved' = [resolved EXCEPT ![closing.scope] = @ \cup {closing.child}]
    /\ failures' = FailuresWithout(closing.child)

\* The second attempt_state call; if it fails the first answer is kept.
Recheck(r) ==
    LET seen == IF r = "ok" THEN gState[closing.child] ELSE closing.seen
        err == closing.err \/ r = "error"
    IN
    /\ closing.step = "recheck" /\ r \in ReadReply
    /\ \/ /\ seen = "active"
          /\ closing' = [closing EXCEPT !.seen = seen, !.err = err, !.step = "discard"]
          /\ UNCHANGED <<resolved, failures>>
       \/ /\ seen = "unknown"
          /\ ChildReported(seen, err)
          /\ UNCHANGED <<resolved, failures>>
       \/ /\ seen \notin {"active", "unknown"}
          /\ ChildReported(seen, err)
          /\ ResolveOwn
    /\ UNCHANGED <<gvars, scopeStatus, children, joined, outcomes, swept, evars>>

RollBack(r) ==
    /\ closing.step = "discard"
    /\ Finish(closing.child, "rolled_back", r)
    /\ \/ /\ r = "ok"
          /\ ChildReported("rolled_back", closing.err)
          /\ ResolveOwn
          /\ swept' = IF closing.err THEN swept ELSE swept \cup {closing.child}
       \/ /\ r = "error"
          /\ ChildReported("active", TRUE)
          /\ UNCHANGED <<resolved, failures, swept>>
    /\ UNCHANGED <<scopeStatus, children, joined, outcomes, evars>>

EndCloseForgetful ==
    /\ closing.step = "next" /\ closing.todo = {}
    /\ scopeStatus' = IF closing.clean
                      THEN [scopeStatus EXCEPT ![closing.scope] = "closed"]
                      ELSE scopeStatus
    /\ closing' = NotClosing
    /\ UNCHANGED <<gvars, children, joined, resolved, pvars, swept, evars>>

\* The scope is closed only by a clean pass.  At the end of the evaluation
\* an unclean one is remembered and the next scope is visited.
EndClose ==
    /\ closing.step = "next" /\ closing.todo = {}
    /\ scopeStatus' = IF closing.clean
                      THEN [scopeStatus EXCEPT ![closing.scope] = "closed"]
                      ELSE scopeStatus
    /\ dirty' = IF phase = "ending" /\ ~closing.clean
                THEN dirty \cup {closing.scope} ELSE dirty
    /\ closing' = NotClosing
    /\ UNCHANGED <<gvars, children, joined, resolved, pvars, swept, phase, endTodo>>

-----------------------------------------------------------------------------
(***************************************************************************)
(* The end of the evaluation, whether the program returned or failed:      *)
(* every scope is visited once, in creation order, closed ones skipped.    *)
(***************************************************************************)
EndProgram ==
    /\ Ready
    /\ phase' = "ending"
    /\ endTodo' = {s \in Scope : scopeStatus[s] # "unused"}
    /\ UNCHANGED <<gvars, svars, pvars, cvars, dirty>>

\* Faulty variant: a visited scope is taken off the list without being closed.
EndScopePassedBy(s) ==
    /\ phase = "ending" /\ closing.step = "idle"
    /\ s \in endTodo
    /\ endTodo' = endTodo \ {s}
    /\ UNCHANGED <<gvars, svars, pvars, cvars, phase, dirty>>

EndScope(s) ==
    /\ phase = "ending" /\ closing.step = "idle"
    /\ s \in endTodo
    /\ \A t \in endTodo : s <= t
    /\ endTodo' = endTodo \ {s}
    /\ \/ BeginClose(s)
       \/ scopeStatus[s] = "closed" /\ UNCHANGED closing
    /\ UNCHANGED <<gvars, svars, pvars, swept, phase, dirty>>

EndEvaluation ==
    /\ phase = "ending" /\ closing.step = "idle" /\ endTodo = {}
    /\ phase' = "done"
    /\ UNCHANGED <<gvars, svars, pvars, cvars, endTodo, dirty>>

-----------------------------------------------------------------------------
Program ==
    \/ \E s \in Scope : NewScope(s) \/ CloseScope(s)
    \/ \E a \in Attempt, r \in Reply :
          \/ \E s \in Scope \cup {None}, start \in BOOLEAN : Spawn(a, s, start, r)
          \/ StartChild(a, r)
          \/ TerminateChild(a, r)
          \/ \E outcome \in {"failed", "rolled_back"} : FinishChild(a, outcome, r)
          \/ AcceptChild(a, r)
          \/ DiscardChild(a, r)
    \/ \E a \in Attempt :
          \/ \E succeeded \in BOOLEAN : ReportForChild(a, succeeded)
          \/ Join(a)
          \/ \E s \in Scope : AddToScope(s, a)
    \/ \E ready \in SUBSET Attempt, waitAll \in BOOLEAN : WaitSet(ready, waitAll)
    \/ \E s \in Scope, o \in outcomes : RetainFailure(s, o)

Cleanup ==
    \/ \E a \in Attempt : Observe(a)
    \/ \E r \in Reply : Cancel(r) \/ Recheck(r) \/ RollBack(r)
    \/ AwaitChild
    \/ EndClose
    \/ \E s \in Scope : EndScope(s)
    \/ EndEvaluation

Children == ChildStep /\ UNCHANGED <<svars, pvars, cvars, evars>>

Next == Program \/ EndProgram \/ Cleanup \/ Children

Spec == Init /\ [][Next]_vars

-----------------------------------------------------------------------------
(***************************************************************************)
(* Properties.                                                             *)
(***************************************************************************)

\* A scope never counts a child as resolved while the Gateway still holds it
\* active: mark_resolved follows a Gateway answer, also when the answer of an
\* earlier call was lost, another scope owns the child too, or the child
\* finished by itself between two calls of a cleanup.
ResolvedIsSettled ==
    \A s \in Scope : \A a \in resolved[s] : Settled(a)

\* close_attempt_scope reports a scope closed only when every child it ever
\* registered is resolved, over however many partial passes that took.
ClosedIsResolved ==
    \A s \in Scope : scopeStatus[s] = "closed" => children[s] \subseteq resolved[s]

\* The end of the evaluation leaves no registered child active behind, except
\* under a scope whose incomplete cleanup it reports.
CleanEvaluationLeaksNothing ==
    phase = "done" =>
        \A s \in Scope \ dirty : \A a \in children[s] : Settled(a)

\* A retained attempt_failure keeps its full outcome only while its scope
\* owns the joined, unresolved child, and a child is retained at most once.
RetainedFailureIsOwned ==
    \A f \in failures :
        /\ scopeStatus[f[1]] = "open" /\ OwnsJoined(f[1], f[2])
        /\ \A g \in failures : g[2] = f[2] => g = f

\* What the scopes record of their children is so, whatever happens between two
\* calls (mark_resolved, retain_failure).
BookkeepingIsTrue == ResolvedIsSettled /\ RetainedFailureIsOwned

\* A child the cleanup reports as discarded and clean has no controller that
\* nobody asked to stop.
SweptIsCancelled ==
    \A a \in swept : Settled(a) /\ gController[a] # "running"

\* What cleanup reports as done is done (close_attempt_scope,
\* close_open_attempt_scopes).
CleanupIsComplete == ClosedIsResolved /\ CleanEvaluationLeaksNothing /\ SweptIsCancelled

\* The inductive invariant behind the properties above: what the bookkeeping
\* means, what a cleanup in progress has established so far, and what the end
\* of the evaluation has visited so far.
BookkeepingInv ==
    /\ \A s \in Scope :
          /\ \A a \in children[s] : Exists(a)
          /\ joined[s] \cup resolved[s] \subseteq children[s]
          /\ scopeStatus[s] = "unused" => children[s] = {}
    /\ \A a \in gMerged : Settled(a)

ClosingInv ==
    /\ closing.step = "idle" => closing.scope = None
    /\ closing.step # "idle" =>
          /\ phase # "done"
          /\ closing.scope \in Scope /\ scopeStatus[closing.scope] = "open"
          /\ closing.todo \subseteq children[closing.scope]
          /\ closing.clean => children[closing.scope] \ closing.todo
                                  \subseteq resolved[closing.scope]
    /\ closing.step \notin {"idle", "next"} =>
          /\ closing.child \in closing.todo
          /\ \/ closing.seen = "active"
             \/ closing.seen = "unknown" /\ closing.err
             \/ closing.seen \in {"failed", "rolled_back"} /\ Settled(closing.child)
    /\ closing.step \in {"wait", "recheck", "discard"} =>
          closing.err \/ closing.seen # "active" \/ gController[closing.child] # "running"
    /\ closing.step = "discard" => closing.seen = "active"

EndingInv ==
    /\ phase = "done" => endTodo = {} /\ closing.step = "idle"
    /\ phase # "program" =>
          \A s \in Scope :
              \/ scopeStatus[s] \in {"unused", "closed"}
              \/ s \in endTodo \cup dirty
              \/ s = closing.scope

CleanupInv == BookkeepingInv /\ ClosingInv /\ EndingInv

\* A closed scope stays closed and never takes another child.
ClosedIsFinal ==
    [][\A s \in Scope : scopeStatus[s] = "closed" =>
          scopeStatus'[s] = "closed" /\ children'[s] = children[s]]_vars

-----------------------------------------------------------------------------
(***************************************************************************)
(* Attempt scopes implement structured supervision.                        *)
(***************************************************************************)
Life == [a \in Attempt |->
            IF gState[a] = "none" THEN "unborn"
            ELSE IF Active(a) THEN "active"
            ELSE IF a \in gMerged THEN "merged" ELSE "dropped"]

Verdict == IF phase # "done" THEN "running"
           ELSE IF dirty = {} THEN "clean" ELSE "incomplete"

Supervision == INSTANCE AttemptSupervision
    WITH life <- Life, status <- scopeStatus, members <- children, verdict <- Verdict

\* Every behaviour of the evaluator is one of structured supervision: closing
\* happens only over settled children, settling is final, and an evaluation
\* whose cleanup reported no error left no registered child active.
ImplementsSupervision == Supervision!Spec

=============================================================================
