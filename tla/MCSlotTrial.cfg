SPECIFICATION FairSpec
CONSTANTS
  SlotCounts = {1, 2, 3}
  Totals = {1, 5}
  Chunks = {1, 2}
  Faults <- MCFaults
INVARIANTS
  TrialIsSound
  NothingLeaks
PROPERTIES
  TrialEnds
\* A trial ends, and a parent may wait for room for ever: the system does
\* stop.
CHECK_DEADLOCK FALSE
