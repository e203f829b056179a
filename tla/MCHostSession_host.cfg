SPECIFICATION Spec
CONSTANTS
  g1 = g1
  g2 = g2
  g3 = g3
  None = None
  Guest = {g1, g2, g3}
  MaxCalls = 3
  Faults = {"crash", "steal", "refuse", "spawn", "host"}
INVARIANTS
  CallsAreApart
  BindingsLast
PROPERTY
  CallsAreAnswered
CHECK_DEADLOCK FALSE
