SPECIFICATION SeriesSpec
CONSTANTS
  ModeCount <- MCModeCount
  TrialCounts <- MCTrialCounts
  Latencies = {1, 2}
  Work = 2
  Faults <- MCFaults
  PageSize = 3
  Totals = {3, 8}
  Chunks = {2, 10}
  TrialFaults <- MCTrialFaults
INVARIANTS
  ResultsAreTrue
  RotationIsFair
  TrialsAreComparable
PROPERTIES
  IsSeries
\* A series ends.
CHECK_DEADLOCK FALSE
