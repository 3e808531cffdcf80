SPECIFICATION BufferSpec
CONSTANTS
  SRC = SRC
  DN = DN
  SINK = SINK
  Workers <- MCWorkers
  Blocks <- MCBlocks
  Kind <- MCKind
  NumInputs <- MCNumInputs
  NumOutputs <- MCNumOutputs
  Queues <- MCQueues
  InputQueue <- MCInputQueue
  OutputQueue <- MCOutputQueue
  FlagValues <- MaySend
  WarningQSize = 1
  MaxCalls = 4
INVARIANTS TypeOK SizeAgrees QueueBound CompleteInputs AtMostOneLateCall NoDangling LossesBounded
PROPERTIES InOrder
CHECK_DEADLOCK FALSE
