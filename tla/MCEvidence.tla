----------------------------- MODULE MCEvidence -----------------------------
EXTENDS Evidence

\* One experiment of each way to write: a file beside the result that has to
\* be there, that is ignored, that is remembered, that is opened before the
\* first trial; and the one whose files are found by name.
MCKinds == {"environment", "shm", "slots", "affinity", "verify"}
\* A shell may start all that the dashboard's page may, and what becomes of a
\* command is the same.
MCWays == {"shell", "demo"}
MCFaults == FaultKinds
=============================================================================
