------------------------- MODULE SemanticFrontiers -------------------------
(***************************************************************************)
(* Semantic frontiers: the authority to branch attempts from a checkpoint, *)
(* and the teardown of an evaluation, which closes the attempt scopes      *)
(* first (AttemptScope) and then releases the frontiers the evaluation     *)
(* still lists.  The list is also a diagnostic and holds at most Cap       *)
(* frontiers: a new one pushes the oldest out.                             *)
(***************************************************************************)
EXTENDS AttemptScope, Sequences

CONSTANTS
    Frontier,    \* frontier identifiers 1 .. n, numbered in creation order
    Checkpoint,  \* the branchable checkpoints of the workflow's stages
    Cap          \* MAX_SEMANTIC_FRONTIER_DIAGNOSTICS

ASSUME FrontierAssumption == Frontier \subseteq Nat \ {0} /\ None \notin Frontier
ASSUME CheckpointAssumption == None \notin Checkpoint
ASSUME CapAssumption == Cap \in Nat \ {0}

VARIABLES
    created,     \* next_semantic_frontier_id: how many frontiers were created
    checkpoint,  \* the checkpoint of each frontier
    origin,      \* "ready" until released, then what released it
    listed,      \* EvalState.semantic_frontiers, oldest first
    dropped,     \* semantic_frontier_diagnostics_dropped
    source,      \* the frontier an attempt was branched from
    teardown,    \* release_open_semantic_frontiers: not begun, running, over
    toRelease,   \* the copy of the list it works through
    unreleased,  \* the frontiers whose automatic release failed
    reclaimed    \* the checkpoints the Gateway has given up

fvars == <<created, checkpoint, origin, listed, dropped, source,
           teardown, toRelease, unreleased, reclaimed>>
frontierVars == <<vars, fvars>>

Origin == {"ready", "explicit", "scope_exit", "evaluation_cleanup"}

FrontierTypeOK ==
    /\ TypeOK
    /\ created \in Nat
    /\ checkpoint \in [Frontier -> Checkpoint \cup {None}]
    /\ origin \in [Frontier -> Origin]
    /\ listed \in Seq(Frontier) /\ Len(listed) <= Cap
    /\ dropped \in Nat
    /\ source \in [Attempt -> Frontier \cup {None}]
    /\ teardown \in {"no", "running", "over"}
    /\ toRelease \in Seq(Frontier)
    /\ unreleased \subseteq Frontier
    /\ reclaimed \subseteq Checkpoint

FrontierInit ==
    /\ Init
    /\ created = 0
    /\ checkpoint = [f \in Frontier |-> None]
    /\ origin = [f \in Frontier |-> "ready"]
    /\ listed = <<>>
    /\ dropped = 0
    /\ source = [a \in Attempt |-> None]
    /\ teardown = "no"
    /\ toRelease = <<>>
    /\ unreleased = {}
    /\ reclaimed = {}

-----------------------------------------------------------------------------
\* attempt_checkpoint_release at the Gateway.
Reclaim(c, r) ==
    \/ c \notin reclaimed /\ r \in Applied /\ reclaimed' = reclaimed \cup {c}
    \/ r \in Unapplied(c \notin reclaimed, c \in reclaimed) /\ UNCHANGED reclaimed

Usable(f) == checkpoint[f] # None /\ origin[f] = "ready"

\* A release that the Gateway answers marks the frontier; one that fails
\* leaves it ready, also when its effect took place.
ReleaseAs(f, how, r) ==
    /\ Reclaim(checkpoint[f], r)
    /\ origin' = IF r = "ok" THEN [origin EXCEPT ![f] = how] ELSE origin

-----------------------------------------------------------------------------
(***************************************************************************)
(* The builtins.                                                           *)
(***************************************************************************)
Retained(a) == \E f \in failures : f[2] = a

\* At the cap the oldest entry makes room.
List(f) ==
    IF Len(listed) = Cap
    THEN listed' = Append(Tail(listed), f) /\ dropped' = dropped + 1
    ELSE listed' = Append(listed, f) /\ UNCHANGED dropped

\* semantic_frontier: the owner is the evaluation itself, or a child that is
\* no longer active or is held by a retained failure.
NewFrontier(f, c, owner) ==
    /\ Ready
    /\ f = created + 1
    /\ owner # None => Exists(owner) /\ (~Active(owner) \/ Retained(owner))
    /\ created' = f
    /\ checkpoint' = [checkpoint EXCEPT ![f] = c]
    /\ List(f)
    /\ UNCHANGED <<vars, origin, source, teardown, toRelease, unreleased, reclaimed>>

\* attempt_branch: a checkpoint already reclaimed refuses, changing nothing.
Branch(f, a, s, start, r) ==
    /\ Usable(f)
    /\ checkpoint[f] \notin reclaimed
    /\ Spawn(a, s, start, r)
    /\ source' = [source EXCEPT ![a] = f]
    /\ UNCHANGED <<created, checkpoint, origin, listed, dropped,
                   teardown, toRelease, unreleased, reclaimed>>

\* semantic_frontier_release, and leaving a `with semantic_frontier` block.
Release(f, how, r) ==
    /\ Ready /\ Usable(f)
    /\ ReleaseAs(f, how, r)
    /\ UNCHANGED <<vars, created, checkpoint, listed, dropped, source,
                   teardown, toRelease, unreleased>>

-----------------------------------------------------------------------------
(***************************************************************************)
(* release_open_semantic_frontiers runs once the scopes have been visited. *)
(***************************************************************************)
\* Faulty variant: checkpoints are released while scopes are still closing.
BeginTeardownEarly ==
    /\ phase # "program" /\ teardown = "no"
    /\ teardown' = "running"
    /\ toRelease' = listed
    /\ UNCHANGED <<vars, created, checkpoint, origin, listed, dropped,
                   source, unreleased, reclaimed>>

BeginTeardown ==
    /\ phase = "done" /\ teardown = "no"
    /\ teardown' = "running"
    /\ toRelease' = listed
    /\ UNCHANGED <<vars, created, checkpoint, origin, listed, dropped,
                   source, unreleased, reclaimed>>

\* Faulty variants: a failed release is forgotten, or is tried again.
ReleaseNextForgetful(r) ==
    LET f == Head(toRelease) IN
    /\ teardown = "running" /\ toRelease # <<>>
    /\ IF origin[f] = "ready" THEN ReleaseAs(f, "evaluation_cleanup", r)
       ELSE UNCHANGED <<origin, reclaimed>>
    /\ toRelease' = Tail(toRelease)
    /\ UNCHANGED <<vars, created, checkpoint, listed, dropped, source, teardown, unreleased>>

ReleaseNextRetrying(r) ==
    LET f == Head(toRelease) IN
    /\ teardown = "running" /\ toRelease # <<>>
    /\ IF origin[f] = "ready" THEN ReleaseAs(f, "evaluation_cleanup", r)
       ELSE UNCHANGED <<origin, reclaimed>>
    /\ toRelease' = IF origin'[f] = "ready" THEN toRelease ELSE Tail(toRelease)
    /\ UNCHANGED <<vars, created, checkpoint, listed, dropped, source, teardown, unreleased>>

\* One frontier of the copied list: skipped when released, else released; a
\* failure is remembered and the next one is visited.
ReleaseNext(r) ==
    LET f == Head(toRelease) IN
    /\ teardown = "running" /\ toRelease # <<>>
    /\ IF origin[f] = "ready"
       THEN /\ ReleaseAs(f, "evaluation_cleanup", r)
            /\ unreleased' = IF r = "ok" THEN unreleased ELSE unreleased \cup {f}
       ELSE UNCHANGED <<origin, reclaimed, unreleased>>
    /\ toRelease' = Tail(toRelease)
    /\ UNCHANGED <<vars, created, checkpoint, listed, dropped, source, teardown>>

EndTeardown ==
    /\ teardown = "running" /\ toRelease = <<>>
    /\ teardown' = "over"
    /\ UNCHANGED <<vars, created, checkpoint, origin, listed, dropped,
                   source, toRelease, unreleased, reclaimed>>

-----------------------------------------------------------------------------
Explore ==
    \/ \E f \in Frontier, c \in Checkpoint, owner \in Attempt \cup {None} :
          NewFrontier(f, c, owner)
    \/ \E f \in Frontier, r \in Reply :
          \/ \E how \in {"explicit", "scope_exit"} : Release(f, how, r)
          \/ \E a \in Attempt, s \in Scope \cup {None}, start \in BOOLEAN :
                Branch(f, a, s, start, r)

Teardown == BeginTeardown \/ EndTeardown \/ \E r \in Reply : ReleaseNext(r)

FrontierNext == Explore \/ Teardown \/ (Next /\ UNCHANGED fvars)

FrontierSpec == FrontierInit /\ [][FrontierNext]_frontierVars

\* The evaluator's own cleanup steps are taken: each of its Gateway calls returns.
FairFrontierSpec ==
    FrontierSpec /\ WF_frontierVars(Teardown \/ (Cleanup /\ UNCHANGED fvars))

-----------------------------------------------------------------------------
(***************************************************************************)
(* Properties.                                                             *)
(***************************************************************************)

\* A frontier that counts as released has given its checkpoint up: the report
\* of semantic_frontier_release says checkpoint_reclaimed, also when two
\* frontiers name one checkpoint and when the reply of a first call was lost.
ReleasedIsReclaimed ==
    \A f \in Frontier : origin[f] # "ready" => checkpoint[f] \in reclaimed

\* The diagnostics lose no frontier without counting it: the list is the
\* youngest frontiers in creation order and `dropped` counts the older ones.
DiagnosticsAccountForAll ==
    /\ dropped + Len(listed) = created
    /\ \A i \in 1 .. Len(listed) : listed[i] = dropped + i

\* Children before checkpoints: the evaluation's cleanup takes a checkpoint
\* away only when every attempt branched from that frontier into a scope it
\* cleaned up is settled.
ChildrenBeforeCheckpoints ==
    [][\A f \in Frontier :
          origin'[f] = "evaluation_cleanup" /\ origin[f] = "ready" =>
             \A s \in Scope \ dirty : \A a \in children[s] :
                source[a] = f => Settled(a)]_frontierVars

\* An evaluation whose teardown reports no error has released every listed
\* frontier and left no registered child active.
CleanTeardownLeaksNothing ==
    teardown = "over" /\ unreleased = {} /\ dirty = {} =>
        /\ \A i \in 1 .. Len(listed) :
              origin[listed[i]] # "ready" /\ checkpoint[listed[i]] \in reclaimed
        /\ \A s \in Scope : \A a \in children[s] : Settled(a)

\* Once the program has ended, the teardown ends: the scopes and then the
\* frontiers are each visited once, whatever fails on the way.
TeardownEnds == phase = "ending" ~> teardown = "over"

\* Every frontier still live when the program ends is released by the
\* teardown, unless a release fails.
EveryFrontierIsReleased ==
    teardown = "over" /\ unreleased = {} =>
        \A f \in Frontier : checkpoint[f] # None => origin[f] # "ready"

=============================================================================
