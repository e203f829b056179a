---------------------------- MODULE AttemptBest ----------------------------
(***************************************************************************)
(* attempt_best: scored selection among the joined children of a scope.    *)
(* A selector retains one candidate; a better one replaces it and a worse  *)
(* one is rejected, and the loser is discarded on the spot.  Selectors     *)
(* live inside an evaluation, next to everything AttemptScope describes:   *)
(* the program may also accept, discard or report the candidates itself,   *)
(* and several selectors may hold the same child.                          *)
(***************************************************************************)
EXTENDS AttemptScope, Integers

CONSTANTS
    Selector,  \* selector identifiers
    Score      \* the scores a program may give

ASSUME ScoreAssumption == Score \subseteq Int

VARIABLES
    selector,   \* AttemptBestState of each selector
    considered  \* history: the candidates each selector has taken a decision on

bvars == <<selector, considered>>
bestVars == <<vars, bvars>>

Objective == {"max", "min"}
Candidate == [attempt : Attempt, score : Score]
ASSUME CandidateAssumption == None \notin Candidate
Lifecycle == {"unused", "open", "accepted", "discarded"}
Selection == [life : Lifecycle, scope : Scope \cup {None}, objective : Objective,
              current : Candidate \cup {None}, final : Candidate \cup {None}]

Unused == [life |-> "unused", scope |-> None, objective |-> "max",
           current |-> None, final |-> None]

BestTypeOK ==
    /\ TypeOK
    /\ selector \in [Selector -> Selection]
    /\ considered \in [Selector -> SUBSET Candidate]

BestInit ==
    /\ Init
    /\ selector = [b \in Selector |-> Unused]
    /\ considered = [b \in Selector |-> {}]

Prefers(objective, candidate, current) ==
    IF objective = "max" THEN candidate > current ELSE candidate < current

-----------------------------------------------------------------------------
(***************************************************************************)
(* The builtins.                                                           *)
(***************************************************************************)
NewBest(b, s, objective) ==
    /\ Ready
    /\ selector[b].life = "unused"
    /\ scopeStatus[s] = "open"
    /\ selector' = [selector EXCEPT ![b] =
                       [Unused EXCEPT !.life = "open", !.scope = s, !.objective = objective]]
    /\ UNCHANGED <<vars, considered>>

\* Faulty variant: the loser is discarded and nobody is told.
DiscardLoserSilently(a, r) ==
    /\ Finish(a, "rolled_back", r)
    /\ UNCHANGED <<svars, pvars, cvars, evars>>

\* The loser is marked resolved in every scope; unlike attempt_discard,
\* nothing here tells a retained attempt_failure about it.
DiscardLoser(a, r) ==
    /\ Finish(a, "rolled_back", r)
    /\ resolved' = IF r = "ok" THEN ResolvedEverywhere(a) ELSE resolved
    /\ UNCHANGED <<scopeStatus, children, joined, pvars, cvars, evars>>

\* Faulty variants: the newest candidate wins, or only its attempt is kept.
DecideNewest(b, candidate, winner, r) ==
    IF r = "ok"
    THEN /\ selector' = [selector EXCEPT ![b].current = candidate]
         /\ considered' = [considered EXCEPT ![b] = @ \cup {candidate}]
    ELSE UNCHANGED bvars

\* record_rejected and retain count a decision only after the Gateway agreed.
Decide(b, candidate, winner, r) ==
    IF r = "ok"
    THEN /\ selector' = [selector EXCEPT ![b].current = winner]
         /\ considered' = [considered EXCEPT ![b] = @ \cup {candidate}]
    ELSE UNCHANGED bvars

\* What attempt_best_consider requires before it makes a plan.
Admissible(b, o) ==
    /\ selector[b].life = "open"
    /\ scopeStatus[selector[b].scope] = "open"
    /\ o.succeeded
    /\ OwnsJoined(selector[b].scope, o.attempt)

Consider(b, o, score, r) ==
    LET candidate == [attempt |-> o.attempt, score |-> score]
        current == selector[b].current
    IN
    /\ Ready
    /\ Admissible(b, o)
    /\ \/ \* AttemptBestPlan::Retain
          /\ current = None /\ r = "ok"
          /\ Decide(b, candidate, candidate, r)
          /\ UNCHANGED vars
       \/ \* AttemptBestPlan::Replace
          /\ current # None
          /\ Prefers(selector[b].objective, score, current.score)
          /\ current.attempt # candidate.attempt
          /\ DiscardLoser(current.attempt, r)
          /\ Decide(b, candidate, candidate, r)
       \/ \* AttemptBestPlan::Reject
          /\ current # None
          /\ ~Prefers(selector[b].objective, score, current.score)
          /\ current.attempt # candidate.attempt
          /\ DiscardLoser(candidate.attempt, r)
          /\ Decide(b, candidate, current, r)

\* finalize: the full outcome is dropped, its identity and score are kept.
Finalize(b, life) ==
    selector' = [selector EXCEPT ![b] = [@ EXCEPT !.life = life, !.final = selector[b].current,
                                                  !.current = None]]

BestAccept(b, r) ==
    LET current == selector[b].current IN
    /\ Ready
    /\ selector[b].life = "open"
    /\ scopeStatus[selector[b].scope] = "open"
    /\ current # None
    /\ OwnsJoined(selector[b].scope, current.attempt)
    /\ Accept(current.attempt, r)
    /\ IF r = "ok"
       THEN Finalize(b, "accepted") /\ resolved' = ResolvedEverywhere(current.attempt)
       ELSE UNCHANGED <<selector, resolved>>
    /\ UNCHANGED <<scopeStatus, children, joined, pvars, cvars, evars, considered>>

\* Allowed after the scope closed, and without asking who owns the candidate.
BestDiscard(b, r) ==
    LET current == selector[b].current IN
    /\ Ready
    /\ selector[b].life = "open"
    /\ \/ current = None /\ r = "ok" /\ UNCHANGED vars
       \/ current # None /\ DiscardLoser(current.attempt, r)
    /\ IF r = "ok" THEN Finalize(b, "discarded") ELSE UNCHANGED selector
    /\ UNCHANGED considered

-----------------------------------------------------------------------------
Select ==
    \E b \in Selector :
        \/ \E s \in Scope, objective \in Objective : NewBest(b, s, objective)
        \/ \E r \in Reply :
              \/ \E o \in outcomes, score \in Score : Consider(b, o, score, r)
              \/ BestAccept(b, r)
              \/ BestDiscard(b, r)

BestNext == Select \/ (Next /\ UNCHANGED bvars)

BestSpec == BestInit /\ [][BestNext]_bestVars

-----------------------------------------------------------------------------
(***************************************************************************)
(* Properties.                                                             *)
(***************************************************************************)
Chosen(b) == IF selector[b].life = "open" THEN selector[b].current ELSE selector[b].final

\* The candidate a selector retains, and the one it ends with, is the best it
\* decided on: no candidate it considered is preferred to it.
BestIsBest ==
    \A b \in Selector : \A c \in considered[b] :
        /\ Chosen(b) # None
        /\ ~Prefers(selector[b].objective, c.score, Chosen(b).score)

\* Every candidate a selector turned down is settled in the Gateway and
\* resolved in the selector's scope: no loser is left for the cleanup.
LosersAreReclaimed ==
    \A b \in Selector : \A c \in considered[b] :
        c # Chosen(b) => Settled(c.attempt) /\ c.attempt \in resolved[selector[b].scope]

\* A selection counts as accepted only when the parent has the candidate's
\* workspace, and no two selectors accept the same child.
AcceptedIsMergedOnce ==
    \A b \in Selector : selector[b].life = "accepted" =>
        /\ selector[b].final.attempt \in gMerged
        /\ \A d \in Selector \ {b} : selector[d].life = "accepted" =>
              selector[d].final.attempt # selector[b].final.attempt

\* What a selector decided is so at the Gateway, for losers and for the winner
\* (eval_attempt_best_consider_call, eval_attempt_best_accept_call).
DecisionsHold == LosersAreReclaimed /\ AcceptedIsMergedOnce

=============================================================================
