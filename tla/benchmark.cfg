SPECIFICATION FairBenchmark
CONSTANTS
  SRC = SRC
  DN = DN
  SINK = SINK
  Workers <- MCWorkers
  Blocks <- MCBlocks
  Kind <- MCKind
  NumInputs <- MCNumInputs
  NumOutputs <- MCNumOutputs
  Queues <- MCQueues
  InputQueue <- MCInputQueue
  OutputQueue <- MCOutputQueue
  FlagValues <- AlwaysSend
  WarningQSize = 1
  MaxCalls = 4
  TimingSamples = 3
  BenchCount <- CountAll
INVARIANTS Paired DurationReal AllRecorded
PROPERTIES BenchmarkEnds
CHECK_DEADLOCK FALSE
