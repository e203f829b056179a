SPECIFICATION Spec
CONSTANTS
  x1 = x1
  x2 = x2
  p1 = p1
  p2 = p2
  None = None
  Proc = {x1, x2}
  Pid = {p1, p2}
  Backends = {"gateway", "local"}
  Faults = {"refused", "lost"}
  Timeouts = {1, 2}
  Millisecond = 1
  Slice = 1
  Budget = 1
  MaxTime = 2
INVARIANTS
  AnswersAreTrue
  NothingIsLeftBehind
  SignalsHitTheirOwn
PROPERTY
  CallsEnd
CHECK_DEADLOCK FALSE
