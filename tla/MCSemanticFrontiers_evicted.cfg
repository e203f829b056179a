\* The teardown releases every live frontier: the code disagrees past the cap.
SPECIFICATION FrontierSpec
CONSTANTS
    c1 = c1
    a1 = a1
    None = None
    Attempt = {a1}
    Checkpoint = {c1}
    Faults <- NoFaults
    Lenient = FALSE
    Scope <- OneScope
    Frontier <- TwoFrontiers
    Cap = 1
INVARIANT EveryFrontierIsReleased
CHECK_DEADLOCK FALSE
