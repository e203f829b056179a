\* Three dispatches in a row, every fault.
SPECIFICATION FairVmSpec
CONSTANT MaxGeneration = 3
INVARIANTS
    RootsAreApart
    SuccessIsReported
PROPERTIES
    DispatchSettles
CHECK_DEADLOCK FALSE
