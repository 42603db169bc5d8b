SPECIFICATION CommandsSpec
CONSTANTS
  Modulus = 64
  MB = 8
  KB = 4
  Digits <- MCDigits
  MaxCommands = 2
  Latencies = {1, 2}
  Streams <- MCStreams
  RingChunks = {"64KB", "256KB"}
  DefaultChunk = "64KB"
  MaxMeasured = 2
  SelectorFaults <- MCSelectorFaults
  Methods = {"shm", "shm-opt"}
  Names = {"futex"}
  ProfilerFaults <- MCProfilerFaults
  Columns <- MCColumns
  FieldTexts <- MCFieldTexts
  MaxFields = 10
  EnvironmentFaults = {"open"}
  Sweeps <- MCSweeps
  ChunkCount = 2
  MethodCount = 2
  SweepFaults <- MCSweepFaults
INVARIANTS
  OutputsAreNamed
  RecommendationIsBest
  UndisturbedIsConsistent
  ProfileIsOwn
  RowIsReadBack
  SweepIsSound
  NoFileLeft
\* Commands end.
CHECK_DEADLOCK FALSE
