----------------------------- MODULE MCShmRing -----------------------------
EXTENDS ShmRingInv

\* All fault kinds: the bounds are on the sizes alone.
MCFaults == FaultKinds
=============================================================================
