SPECIFICATION FairSpec
CONSTANTS
  SRC = SRC
  DN = DN
  SINK = SINK
  Workers <- MCWorkers
  Blocks <- MCBlocks
  Kind <- MCKind
  NumInputs <- MCNumInputs
  NumOutputs <- MCNumOutputs
  Queues <- MCQueues
  InputQueue <- MCInputQueue
  OutputQueue <- MCOutputQueue
  FlagValues <- AlwaysSend
  WarningQSize = 0
  MaxCalls = 2
PROPERTIES AllStop
CHECK_DEADLOCK FALSE
