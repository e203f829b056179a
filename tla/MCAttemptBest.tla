--------------------------- MODULE MCAttemptBest ---------------------------
(***************************************************************************)
(* Instances of AttemptBest for TLC.                                       *)
(***************************************************************************)
EXTENDS AttemptBest, TLC, FiniteSets

NoFaults == {}
OneScope == {1}
Scores == {1, 2}

\* Bounds: how many outcome snapshots the program holds at once, no failed one
\* and no retained failure (a selector refuses the first and reads no other),
\* and nothing beyond the end of the program, where no selector can be used.
Selecting(snapshots) ==
    /\ phase = "program"
    /\ failures = {}
    /\ Cardinality(outcomes) <= snapshots
    /\ \A o \in outcomes : o.succeeded
TwoSnapshots == Selecting(2)

\* Children and selectors are interchangeable.
BestSymmetry == Permutations(Attempt) \cup Permutations(Selector)

=============================================================================
