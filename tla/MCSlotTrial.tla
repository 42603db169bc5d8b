---------------------------- MODULE MCSlotTrial -----------------------------
EXTENDS SlotTrial

\* All fault kinds: the bounds are on the sizes alone.
MCFaults == FaultKinds
=============================================================================
