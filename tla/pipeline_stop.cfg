SPECIFICATION FairSpec
CONSTANTS
  SRC = SRC
  DN = DN
  SINK = SINK
  Workers <- MCWorkers
  Blocks <- MCBlocks
  Kind <- MCKind
  NumInputs <- MCNumInputs
  NumOutputs <- MCNumOutputs
  Queues <- MCQueues
  InputQueue <- MCInputQueue
  OutputQueue <- MCOutputQueue
  FlagValues <- AlwaysSend
  WarningQSize = 0
  MaxCalls = 4
PROPERTIES StopSettles
CHECK_DEADLOCK FALSE
