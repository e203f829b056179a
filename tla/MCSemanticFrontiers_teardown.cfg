\* Three frontiers of one checkpoint, room for two in the list, one child.
SPECIFICATION FairFrontierSpec
CONSTANTS
    a1 = a1
    c1 = c1
    None = None
    Attempt = {a1}
    Checkpoint = {c1}
    Faults <- AllFaults
    Lenient = FALSE
    Scope <- OneScope
    Frontier <- ThreeFrontiers
    Cap = 2
INVARIANTS
    CleanTeardownLeaksNothing
PROPERTIES
    ChildrenBeforeCheckpoints
    TeardownEnds
CHECK_DEADLOCK FALSE
