SPECIFICATION Spec
CONSTANTS
  x1 = x1
  x2 = x2
  p1 = p1
  p2 = p2
  None = None
  Proc = {x1}
  Pid = {p1}
  Backends = {"gateway"}
  Faults = {}
  Timeouts = {2}
  Millisecond = 2
  Slice = 1
  Budget = 1
  MaxTime = 4
PROPERTY
  CallsEnd
CHECK_DEADLOCK FALSE
