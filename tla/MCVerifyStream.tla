--------------------------- MODULE MCVerifyStream ---------------------------
EXTENDS VerifyStream

\* All fault kinds: the bounds are on the sizes alone.
MCFaults == FaultKinds
=============================================================================
