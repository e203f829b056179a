SPECIFICATION Spec
CONSTANTS
  f = f
  g = g
  n1 = n1
  n2 = n2
  inspect = inspect
  build = build
  survey = survey
  NoField = NoField
  NoOutcome = NoOutcome
  StageName = {inspect, build, survey}
  Field = {f, g}
  Needle = {n1, n2}
  Declared <- WorkflowStages
  Outcomes <- InspectOutcomes
  AttemptLimit = 2
  MaxStages = 2
  MaxPatches = 1
  MaxRuns = 2
INVARIANTS
  EvidenceIsReal
  AdvanceIsProved
  ReportIsHonest
PROPERTIES
  PublicationAgrees
  RunEnds
CHECK_DEADLOCK FALSE
