---------------------------- MODULE MCChunkSweep ----------------------------
EXTENDS ChunkSweep

\* Two sweeps, as in MCCommands.
MCSweeps == {1, 2}
=============================================================================
