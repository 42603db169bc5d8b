--------------------------- MODULE MCMemorySeries ---------------------------
EXTENDS MemorySeries

\* Three modes turn as in the code; its six numbers of slots are cut down.
MCModeCount == [affinity |-> 3, memory |-> 3, slots |-> 3, shm |-> 2]

\* One trial more than there are modes, for the order to come round; the
\* memory optimizer has three pairs of times for each trial and gets fewer.
MCTrialCounts == [affinity |-> {4}, memory |-> {2}, slots |-> {1, 2, 3}, shm |-> {2, 3}]

MCFaults == FaultKinds
MCTrialFaults == {"create", "unlink", "usage", "madvise", "destroy", "kill"}
=============================================================================
