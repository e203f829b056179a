--------------------------- MODULE MCAttemptScope ---------------------------
(***************************************************************************)
(* Instances of AttemptScope for TLC.                                      *)
(***************************************************************************)
EXTENDS AttemptScope, FiniteSets, TLC

AllFaults == {"refused", "lost"}
TwoScopes == {1, 2}

\* The children of an evaluation are interchangeable.
AttemptSymmetry == Permutations(Attempt)

\* Two children of one scope, or one child that two scopes may own.
AtMostThree ==
    Cardinality({s \in Scope : scopeStatus[s] # "unused"})
        + Cardinality({a \in Attempt : gState[a] # "none"}) <= 3

=============================================================================
