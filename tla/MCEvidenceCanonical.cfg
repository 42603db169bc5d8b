SPECIFICATION Spec
CONSTANTS
  Kinds <- MCKinds
  Ways <- AllWays
  MaxRuns = 2
  Faults = {}
INVARIANTS
  SummaryIsCanonical
CHECK_DEADLOCK FALSE
