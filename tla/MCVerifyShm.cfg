SPECIFICATION FairSpec
CONSTANTS
  Kinds = {"shm", "ring"}
  RingSlots = 2
  Payloads = {1, 3, 5}
  Chunks = {1, 2}
  Faults <- MCFaults
INVARIANTS
  VerdictIsTrue
  NothingLeaks
PROPERTIES
  EndsUnlessEmbraced
\* A call ends, and the two processes may wait for each other: the system
\* does stop.
CHECK_DEADLOCK FALSE
