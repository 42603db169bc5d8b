SPECIFICATION Spec
CONSTANTS
  Sweeps <- MCSweeps
  ChunkCount = 2
  MethodCount = 2
  Latencies = {1}
  Faults = {}
INVARIANTS
  OwnMeasurements
CHECK_DEADLOCK FALSE
