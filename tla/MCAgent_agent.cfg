\* Three keys, room for two items, episodes of up to two rounds or turns.
SPECIFICATION Spec
CONSTANTS
    k1 = k1
    k2 = k2
    k3 = k3
    r1 = r1
    r2 = r2
    NoRun = NoRun
    Key = {k1, k2, k3}
    Text <- Texts
    ContentSize <- Sizes
    Envelope = 1
    Frame = 1
    MaxItems = 2
    MaxItemBytes = 4
    MaxBytes = 6
    MaxTokens = 2
    MaxRevision = 4
    Limits <- SomeLimits
    Run = {r1, r2}
    MaxBatch = 2
SYMMETRY Interchangeable
CONSTRAINT OneProgram
INVARIANTS
    EpisodeAccounts
    RunsAreStopped
    MemoryIsKept
    AnswersAreBest
CHECK_DEADLOCK FALSE
