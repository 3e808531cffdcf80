SPECIFICATION FairAtWork
CONSTANTS
  src = src
  awgn = awgn
  filter = filter
  sink = sink
  Workers <- MCWorkers
  Blocks <- MCBlocks
  Kind <- MCKind
  NumInputs <- MCNumInputs
  NumOutputs <- MCNumOutputs
  Queues <- MCQueues
  InputQueue <- MCInputQueue
  OutputQueue <- MCOutputQueue
  FlagValues <- AlwaysSend
  WarningQSize = 0
  MaxCalls = 3
INVARIANTS Lockstep
PROPERTIES Delivery
