\* Two children, two selectors, two scores, ties included.
SPECIFICATION BestSpec
CONSTANTS
    a1 = a1
    a2 = a2
    b1 = b1
    b2 = b2
    None = None
    Attempt = {a1, a2}
    Selector = {b1, b2}
    Faults <- NoFaults
    Lenient = FALSE
    Scope <- OneScope
    Score <- Scores
SYMMETRY BestSymmetry
INVARIANTS
    BestIsBest
    DecisionsHold
CONSTRAINT TwoSnapshots
CHECK_DEADLOCK FALSE
