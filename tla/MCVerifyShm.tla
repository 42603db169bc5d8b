---------------------------- MODULE MCVerifyShm -----------------------------
EXTENDS VerifyShm

\* All fault kinds: the bounds are on the sizes alone.
MCFaults == FaultKinds
=============================================================================
