SPECIFICATION FairSpec
CONSTANTS
  Totals = {0, 1, 3, 5}
  Chunks = {0, 1, 2}
  Faults <- MCFaults
INVARIANTS
  HandsOverNextChunk
  LeavesOnlyAnOrphan
PROPERTIES
  EndsUnlessStuck
  IsTransfer
\* A call ends, and both processes may be stuck: the system does stop.
CHECK_DEADLOCK FALSE
