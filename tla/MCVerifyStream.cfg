SPECIFICATION FairSpec
CONSTANTS
  Kinds = {"pipe", "fifo", "socket"}
  Capacity = 3
  Payloads = {1, 5}
  Chunks = {1, 2, 4}
  Faults <- MCFaults
INVARIANTS
  VerdictIsTrue
  PathOutlivesChild
PROPERTIES
  EndsUnlessUnanswered
\* A call ends, and a process may wait unanswered: the system does stop.
CHECK_DEADLOCK FALSE
