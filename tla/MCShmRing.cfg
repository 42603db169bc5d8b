SPECIFICATION FairSpec
CONSTANTS
  RingSlots = 3
  Totals = {0, 1, 4, 7}
  Chunks = {0, 1, 2}
  Faults <- MCFaults
INVARIANTS
  IInv
  SlotsExclusive
  ReadsNextChunk
  OkIsComplete
  NothingLeaks
  NeverReturnsPinned
  RingOutlivesConsumer
PROPERTIES
  EndsUnlessStranded
  IsTransfer
\* A call ends, and a producer may be stranded: the system does stop.
CHECK_DEADLOCK FALSE
