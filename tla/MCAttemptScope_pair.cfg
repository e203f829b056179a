\* Two children and two scopes, three of them in use, every call may fail.
SPECIFICATION Spec
CONSTANTS
    a1 = a1
    a2 = a2
    None = None
    Attempt = {a1, a2}
    Faults <- AllFaults
    Lenient = TRUE
    Scope <- TwoScopes
CONSTRAINT AtMostThree
SYMMETRY AttemptSymmetry
INVARIANTS
    BookkeepingIsTrue
    CleanupIsComplete
PROPERTIES
    ImplementsSupervision
CHECK_DEADLOCK FALSE
