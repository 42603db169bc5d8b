---------------------------- MODULE MCStreamIpc -----------------------------
EXTENDS StreamIpc

\* All fault kinds: the bounds are on the sizes alone.
MCFaults == FaultKinds
=============================================================================
