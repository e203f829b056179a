SPECIFICATION Spec
CONSTANTS
  x = x
  e1 = e1
  e2 = e2
  None = None
  Name = {x}
  Error = {e1, e2}
  Hooks <- Hooking
  MaxFrames = 5
  MaxFiles = 2
  MaxEvents = 4
  MaxRetries = 1
  MaxEvaluations = 2
  MaxSteps = 6
INVARIANTS
  StateMatchesFrames
  HandlesReachTheirFile
  ManagedFilesAreClosed
  TransitionsAreWhole
CHECK_DEADLOCK FALSE
