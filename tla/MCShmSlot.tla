----------------------------- MODULE MCShmSlot -----------------------------
EXTENDS ShmSlot

\* All fault kinds: the bounds are on the sizes alone.
MCFaults == FaultKinds
=============================================================================
