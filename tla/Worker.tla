------------------------------- MODULE Worker -------------------------------
(***************************************************************************)
(* The threads of a flow graph: class Worker of src/include/flowMP.h and   *)
(* its member functions in src/src/flowMP.cpp.  A worker runs one of three *)
(* loops in a thread of its own:                                           *)
(*   - block_source  calls ProcessData and sends what it returns,          *)
(*   - block         reads one item per input port, calls ProcessData and  *)
(*                   sends,                                                *)
(*   - block_sink    reads and calls ProcessData.                          *)
(* One action is one access to state that another thread can touch: a      *)
(* stop flag, a queue, or the atomic counter that goes with a queue.       *)
(*                                                                         *)
(* A queue here is the FIFO sequence that moodycamel's                     *)
(* BlockingReaderWriterQueue promises.  Its counter is the element of      *)
(* m_OutputQueueSizes that connect() shares between the two ends; it is    *)
(* NOT updated in the same step as the queue.                              *)
(*                                                                         *)
(* An item (a void* to a buffer) is the serial number its source gave it;  *)
(* a block passes the number of its port-0 input on to all its outputs, so *)
(* numbers tell which source call a value descends from.                   *)
(***************************************************************************)
EXTENDS Integers, Sequences

CONSTANTS
  Workers,      \* the Worker objects
  Kind,         \* Kind[w]: which of run_source / run / run_sink starts w
  NumInputs,    \* m_NumInputs
  NumOutputs,   \* m_NumOutputs
  Queues,       \* the queues (each with its counter) the constructors made
  InputQueue,   \* InputQueue[<<w,p>>]: the queue behind input port p of w
  OutputQueue,  \* OutputQueue[<<w,p>>]: the queue behind output port p of w
  WarningQSize, \* WARNINGQSIZE
  FlagValues,   \* values ProcessData of w may store in *flag ({}: none)
  MaxCalls      \* bound: items a worker without inputs ever generates

Ins(w)   == 0 .. (NumInputs[w] - 1)
Outs(w)  == 0 .. (NumOutputs[w] - 1)
InPorts  == UNION {{w} \X Ins(w) : w \in Workers}
OutPorts == UNION {{w} \X Outs(w) : w \in Workers}

ASSUME ShapeAssumption ==
  /\ Kind \in [Workers -> {"source", "block", "sink"}]
  /\ NumInputs \in [Workers -> Nat]
  /\ NumOutputs \in [Workers -> Nat]
  /\ FlagValues \in [Workers -> SUBSET {0, 1}]
  /\ WarningQSize \in Nat
  /\ MaxCalls \in Nat

\* After the connect() calls every port has a queue, and a queue has at most
\* one producing and one consuming port (the queue is single-producer,
\* single-consumer).
ASSUME WiringAssumption ==
  /\ InputQueue \in [InPorts -> Queues]
  /\ OutputQueue \in [OutPorts -> Queues]
  /\ \A i, j \in InPorts : InputQueue[i] = InputQueue[j] => i = j
  /\ \A i, j \in OutPorts : OutputQueue[i] = OutputQueue[j] => i = j

None == 0       \* nullptr; serial numbers start at 1

VARIABLES
  pc,      \* where the thread of each worker stands
  stop,    \* m_StopThread
  port,    \* loop variable inport / outport
  inputs,  \* the vector readFromInputQueues fills, one entry per input port
  output,  \* processedData
  flag,    \* the local 'int flag' of the loop, kept from call to call
  queue,   \* contents of the queues
  qsize,   \* the atomic counters of the queues
  calls,   \* history: ProcessData calls that handled an item
  late     \* history: ProcessData calls that began after stop was set

workerVars == <<pc, stop, port, inputs, output, flag, queue, qsize, calls, late>>

WorkerInit ==
  /\ pc     = [w \in Workers |-> "unborn"]
  /\ stop   = [w \in Workers |-> FALSE]
  /\ port   = [w \in Workers |-> 0]
  /\ inputs = [i \in InPorts |-> None]
  /\ output = [w \in Workers |-> None]
  /\ flag   = [w \in Workers |-> 0]
  /\ queue  = [q \in Queues |-> <<>>]
  /\ qsize  = [q \in Queues |-> 0]
  /\ calls  = [w \in Workers |-> 0]
  /\ late   = [w \in Workers |-> 0]

\* The queues behind the ports that w is at.
InQueue(w)  == InputQueue[<<w, port[w]>>]
OutQueue(w) == OutputQueue[<<w, port[w]>>]

GoTo(w, label) == pc' = [pc EXCEPT ![w] = label]

-----------------------------------------------------------------------------
(* Start of a thread.                                                      *)

\* run(), run_sink(), run_source(): the thread exists from here on.
Spawn(w) ==
  /\ pc[w] = "unborn"
  /\ GoTo(w, "init")
  /\ UNCHANGED <<stop, port, inputs, output, flag, queue, qsize, calls, late>>

\* m_FunctionInit(), after block_source's start-up delay.
FunctionInit(w) ==
  /\ pc[w] = "init"
  /\ GoTo(w, "while")
  /\ UNCHANGED <<stop, port, inputs, output, flag, queue, qsize, calls, late>>

-----------------------------------------------------------------------------
(* Reading: readFromInputQueues and readFromInputQueue.                    *)

\* The next thing to do once ports 0 .. p-1 have been read.
ReadFrom(w, p) == IF p \in Ins(w) THEN "wait" ELSE "check"

\* while (!m_StopThread), and the start of a round: a source goes straight to
\* ProcessData, the others start from a vector of null pointers.
WhileTest(w) ==
  /\ pc[w] = "while"
  /\ \/ /\ stop[w]
        /\ GoTo(w, "cleanup")
        /\ UNCHANGED <<port, inputs>>
     \/ /\ ~stop[w]
        /\ Kind[w] = "source"
        /\ GoTo(w, "process")
        /\ UNCHANGED <<port, inputs>>
     \/ /\ ~stop[w]
        /\ Kind[w] # "source"
        /\ GoTo(w, ReadFrom(w, 0))
        /\ port' = [port EXCEPT ![w] = 0]
        /\ inputs' = [i \in InPorts |-> IF i[1] = w THEN None ELSE inputs[i]]
  /\ UNCHANGED <<stop, output, flag, queue, qsize, calls, late>>

\* wait_dequeue_timed returns true.
Dequeue(w) ==
  /\ pc[w] = "wait"
  /\ queue[InQueue(w)] # <<>>
  /\ inputs' = [inputs EXCEPT ![<<w, port[w]>>] = Head(queue[InQueue(w)])]
  /\ queue' = [queue EXCEPT ![InQueue(w)] = Tail(@)]
  /\ GoTo(w, "decrement")
  /\ UNCHANGED <<stop, port, output, flag, qsize, calls, late>>

\* wait_dequeue_timed returns false after 5 ms.
TimedOut(w) ==
  /\ pc[w] = "wait"
  /\ queue[InQueue(w)] = <<>>
  /\ GoTo(w, "nodata")
  /\ UNCHANGED <<stop, port, inputs, output, flag, queue, qsize, calls, late>>

\* Faulty: the time-out ends the read, stopped or not.
AfterTimeoutGivesUp(w) == "read"

\* Faulty: the stop flag is not looked at while there is nothing to read.
AfterTimeoutDeaf(w) == "wait"

\* What readFromInputQueue does after a time-out: return nullptr if told to
\* stop, otherwise wait again.
AfterTimeout(w) == IF stop[w] THEN "read" ELSE "wait"

NoData(w) ==
  /\ pc[w] = "nodata"
  /\ GoTo(w, AfterTimeout(w))
  /\ UNCHANGED <<stop, port, inputs, output, flag, queue, qsize, calls, late>>

\* Faulty: the item is returned without being subtracted.
DecrementForgotten(w) ==
  /\ pc[w] = "decrement"
  /\ GoTo(w, "read")
  /\ UNCHANGED <<stop, port, inputs, output, flag, queue, qsize, calls, late>>

\* (*(m_InputQueueSizes[inport]))--
Decrement(w) ==
  /\ pc[w] = "decrement"
  /\ qsize' = [qsize EXCEPT ![InQueue(w)] = @ - 1]
  /\ GoTo(w, "read")
  /\ UNCHANGED <<stop, port, inputs, output, flag, queue, calls, late>>

\* Back in readFromInputQueues: leave the loop if stopped, else next port.
PortRead(w) ==
  /\ pc[w] = "read"
  /\ IF stop[w]
       THEN GoTo(w, "check") /\ UNCHANGED port
       ELSE GoTo(w, ReadFrom(w, port[w] + 1)) /\ port' = [port EXCEPT ![w] = @ + 1]
  /\ UNCHANGED <<stop, inputs, output, flag, queue, qsize, calls, late>>

\* Faulty: no test between reading and processing.
StopCheckMissing(w) ==
  /\ pc[w] = "check"
  /\ GoTo(w, "process")
  /\ UNCHANGED <<stop, port, inputs, output, flag, queue, qsize, calls, late>>

\* if (m_StopThread) break, between reading and processing.
StopCheck(w) ==
  /\ pc[w] = "check"
  /\ GoTo(w, IF stop[w] THEN "cleanup" ELSE "process")
  /\ UNCHANGED <<stop, port, inputs, output, flag, queue, qsize, calls, late>>

-----------------------------------------------------------------------------
(* Processing.                                                             *)

\* Makes items of its own: ProcessData is given no inputs.
Generates(w) == Kind[w] = "source" \/ Ins(w) = {}

\* The bound on what a generating worker produces: after MaxCalls items its
\* ProcessData has nothing more to send (IdleCall).
CallBound(w) == Generates(w) => calls[w] < MaxCalls

\* What *flag may hold after ProcessData: one of the values it may store, or,
\* if it stores none, whatever the previous call left.
FlagAfter(w) == IF FlagValues[w] = {} THEN {flag[w]} ELSE FlagValues[w]

\* Faulty: outport <= m_NumOutputs.
SendFromOneTooFar(w, p) == IF p <= NumOutputs[w] THEN "full" ELSE "while"

\* The next thing to do once output ports 0 .. p-1 have been served.
SendFrom(w, p) == IF p \in Outs(w) THEN "full" ELSE "while"

\* Faulty: ProcessData is repeated until it has something to send.
AfterProcessRetry(w, f) ==
  IF Kind[w] = "source" THEN "srccheck"
  ELSE IF f = 0 THEN "process"
  ELSE SendFrom(w, 0)

\* What follows ProcessData: a source looks at its stop flag first, a sink
\* sends nothing, a block sends if (flag>0).
AfterProcess(w, f) ==
  IF Kind[w] = "source" THEN "srccheck"
  ELSE IF Kind[w] = "sink" \/ f = 0 THEN "while"
  ELSE SendFrom(w, 0)

CountLate(w) == late' = [late EXCEPT ![w] = IF stop[w] THEN @ + 1 ELSE @]

\* m_ProcessData(data, &flag)
ProcessData(w) ==
  /\ pc[w] = "process"
  /\ CallBound(w)
  /\ calls' = [calls EXCEPT ![w] = @ + 1]
  /\ output' = [output EXCEPT ![w] = IF Generates(w) THEN calls[w] + 1 ELSE inputs[<<w, 0>>]]
  /\ \E f \in FlagAfter(w) :
       /\ flag' = [flag EXCEPT ![w] = f]
       /\ GoTo(w, AfterProcess(w, f))
  /\ port' = [port EXCEPT ![w] = 0]
  /\ CountLate(w)
  /\ UNCHANGED <<stop, inputs, queue, qsize>>

\* A call of a generating worker's ProcessData that has nothing to send.
IdleCall(w) ==
  /\ pc[w] = "process"
  /\ ~CallBound(w)
  /\ flag' = [flag EXCEPT ![w] = 0]
  /\ GoTo(w, AfterProcess(w, 0))
  /\ port' = [port EXCEPT ![w] = 0]
  /\ CountLate(w)
  /\ UNCHANGED <<stop, inputs, output, queue, qsize, calls>>

\* block_source: if (m_StopThread) break; then if (flag>0) send.
SourceCheck(w) ==
  /\ pc[w] = "srccheck"
  /\ GoTo(w, IF stop[w] THEN "cleanup" ELSE IF flag[w] > 0 THEN SendFrom(w, 0) ELSE "while")
  /\ UNCHANGED <<stop, port, inputs, output, flag, queue, qsize, calls, late>>

-----------------------------------------------------------------------------
(* Sending: addToOutputQueues and addToOutputQueue.                        *)

\* Faulty: holds back one item too late.
HasRoomOffByOne(w) == qsize[OutQueue(w)] <= WarningQSize + 1

\* The loop that holds a producer back ends when this is true.  It does not
\* look at m_StopThread.
HasRoom(w) == qsize[OutQueue(w)] <= WarningQSize

Admit(w) ==
  /\ pc[w] = "full"
  /\ HasRoom(w)
  /\ GoTo(w, "enqueue")
  /\ UNCHANGED <<stop, port, inputs, output, flag, queue, qsize, calls, late>>

\* Faulty: the newest item is read first.
EnqueueInFront(w) ==
  /\ pc[w] = "enqueue"
  /\ queue' = [queue EXCEPT ![OutQueue(w)] = <<output[w]>> \o @]
  /\ GoTo(w, "increment")
  /\ UNCHANGED <<stop, port, inputs, output, flag, qsize, calls, late>>

Enqueue(w) ==
  /\ pc[w] = "enqueue"
  /\ queue' = [queue EXCEPT ![OutQueue(w)] = Append(@, output[w])]
  /\ GoTo(w, "increment")
  /\ UNCHANGED <<stop, port, inputs, output, flag, qsize, calls, late>>

\* Faulty: the item is never counted.
IncrementForgotten(w) ==
  /\ pc[w] = "increment"
  /\ port' = [port EXCEPT ![w] = @ + 1]
  /\ GoTo(w, SendFrom(w, port[w] + 1))
  /\ UNCHANGED <<stop, inputs, output, flag, queue, qsize, calls, late>>

\* (*(m_OutputQueueSizes[outport]))++, then the next output port.
Increment(w) ==
  /\ pc[w] = "increment"
  /\ qsize' = [qsize EXCEPT ![OutQueue(w)] = @ + 1]
  /\ port' = [port EXCEPT ![w] = @ + 1]
  /\ GoTo(w, SendFrom(w, port[w] + 1))
  /\ UNCHANGED <<stop, inputs, output, flag, queue, calls, late>>

\* m_FunctionCleanup(); the thread ends.
Cleanup(w) ==
  /\ pc[w] = "cleanup"
  /\ GoTo(w, "done")
  /\ UNCHANGED <<stop, port, inputs, output, flag, queue, qsize, calls, late>>

Read(w)    == Dequeue(w) \/ TimedOut(w) \/ NoData(w) \/ Decrement(w) \/ PortRead(w)
Process(w) == StopCheck(w) \/ ProcessData(w) \/ IdleCall(w) \/ SourceCheck(w)
Send(w)    == Admit(w) \/ Enqueue(w) \/ Increment(w)

\* A step of the thread of w.
ThreadStep(w) == FunctionInit(w) \/ WhileTest(w) \/ Read(w) \/ Process(w) \/ Send(w) \/ Cleanup(w)

-----------------------------------------------------------------------------
(* Properties of the threads and their queues.                             *)

Labels == {"unborn", "init", "while", "wait", "nodata", "decrement", "read", "check",
           "process", "srccheck", "full", "enqueue", "increment", "cleanup", "done"}

\* The type invariant: what the variables hold, and where the loop variable
\* of a thread may point while it reads or sends.
VariableTypes ==
  /\ pc \in [Workers -> Labels]
  /\ stop \in [Workers -> BOOLEAN]
  /\ port \in [Workers -> Nat]
  /\ inputs \in [InPorts -> Nat]
  /\ output \in [Workers -> Nat]
  /\ flag \in [Workers -> {0, 1}]
  /\ queue \in [Queues -> Seq(Nat \ {None})]
  /\ qsize \in [Queues -> Int]
  /\ calls \in [Workers -> Nat]
  /\ late \in [Workers -> Nat]

Reading(w) == pc[w] \in {"wait", "nodata", "decrement", "read"}
Sending(w) == pc[w] \in {"full", "enqueue", "increment"}

PortInRange ==
  \A w \in Workers :
    /\ Reading(w) => <<w, port[w]>> \in InPorts
    /\ Sending(w) => <<w, port[w]>> \in OutPorts /\ output[w] # None

WorkerTypeOK == VariableTypes /\ PortInRange

\* The thread of port i is at this port, at the given place.
At(i, label) == pc[i[1]] = label /\ port[i[1]] = i[2]

\* The consumer of q has taken an item it has not yet subtracted; the
\* producer has added one it has not yet counted.
Unsubtracted(q) ==
  IF \E i \in InPorts : InputQueue[i] = q /\ At(i, "decrement") THEN 1 ELSE 0
Uncounted(q) ==
  IF \E i \in OutPorts : OutputQueue[i] = q /\ At(i, "increment") THEN 1 ELSE 0

\* The counter of a queue is wrong only by the updates that are under way:
\* the two ends update it without a lock, in whichever order, and no update
\* is ever lost or made twice.
SizeAgrees == \A q \in Queues : qsize[q] = Len(queue[q]) + Unsubtracted(q) - Uncounted(q)

\* Back-pressure works: although the test of the counter, the enqueue and the
\* increment are three steps, and the counter can even be -1, a queue never
\* holds more than WARNINGQSIZE + 1 items.
QueueBound == \A q \in Queues : Len(queue[q]) <= WarningQSize + 1

\* ProcessData is never called with a null pointer where an input belongs:
\* a read that was abandoned because of a stop is never processed.
CompleteInputs ==
  \A w \in Workers :
    pc[w] = "process" /\ Kind[w] # "source" => \A p \in Ins(w) : inputs[<<w, p>>] # None

\* Once it has been told to stop a worker starts at most one more call of
\* ProcessData, the one it had already decided on.
AtMostOneLateCall == \A w \in Workers : late[w] <= 1

\* No worker drops an item, so that the n-th call of any ProcessData handles
\* the n-th item of the source on every port: in a graph where paths of
\* different length meet, items are never mispaired, whatever the timing.
Lockstep ==
  \A w \in Workers :
    pc[w] = "process" /\ ~Generates(w) => \A p \in Ins(w) : inputs[<<w, p>>] = calls[w] + 1
=============================================================================
