SPECIFICATION Spec
CONSTANTS
  Kinds <- MCKinds
  Ways <- MCWays
  MaxRuns = 2
  Faults <- MCFaults
INVARIANTS
  EvidenceIsEarned
  SummaryIsHonest
  ManifestsAreTrue
PROPERTIES
  DemosKeepEvidence
\* All commands end.
CHECK_DEADLOCK FALSE
