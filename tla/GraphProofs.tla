----------------------------- MODULE GraphProofs ----------------------------
(***************************************************************************)
(* Proofs about Graph, for any graph (any number of workers, ports and     *)
(* connections), any WARNINGQSIZE and any behaviour of the blocks.         *)
(*                                                                         *)
(* The invariant has four parts that are proved one after the other:       *)
(*   TypeOK      where the threads are and what their variables hold;      *)
(*   Counted     the counters agree with the queues, and a producer that   *)
(*               was let in still has its room;                            *)
(*   Complete    what the ports read so far have delivered;                *)
(*   LateOnce    who may still call ProcessData after a stop.              *)
(***************************************************************************)
EXTENDS Graph, TLAPS

-----------------------------------------------------------------------------
(* Ports and queues.                                                       *)

\* A port is a worker and one of its numbers.
LEMMA InPortShape ==
  /\ \A w \in Workers : \A p \in Ins(w) : <<w, p>> \in InPorts
  /\ \A i \in InPorts : i[1] \in Workers /\ i[2] \in Ins(i[1]) /\ i = <<i[1], i[2]>>
  BY DEF InPorts

LEMMA OutPortShape ==
  /\ \A w \in Workers : \A p \in Outs(w) : <<w, p>> \in OutPorts
  /\ \A i \in OutPorts : i[1] \in Workers /\ i[2] \in Outs(i[1]) /\ i = <<i[1], i[2]>>
  BY DEF OutPorts

\* The ports of a worker are natural numbers, and port 0 is one of them
\* unless it has none.
LEMMA PortNumbers ==
  ASSUME NEW w \in Workers
  PROVE  /\ Ins(w) \subseteq Nat /\ Outs(w) \subseteq Nat
         /\ Ins(w) # {} => 0 \in Ins(w)
  BY ShapeAssumption DEF Ins, Outs, ShapeAssumption

-----------------------------------------------------------------------------
(* Types.                                                                  *)

\* What a thread knows about the items it holds: the ports it has passed have
\* delivered; a read that failed was called off by a stop; what ProcessData is
\* given is complete; and what is about to be sent is a real item.
CompleteAt(w) ==
  /\ Reading(w) => \A p \in Ins(w) : p < port[w] => inputs[<<w, p>>] # None
  /\ pc[w] = "decrement" => inputs[<<w, port[w]>>] # None
  /\ pc[w] = "read" => stop[w] \/ inputs[<<w, port[w]>>] # None
  /\ pc[w] = "check" => stop[w] \/ \A p \in Ins(w) : inputs[<<w, p>>] # None
  /\ pc[w] = "process" /\ Kind[w] # "source" => \A p \in Ins(w) : inputs[<<w, p>>] # None
  /\ pc[w] = "srccheck" => port[w] = 0 /\ (flag[w] > 0 => output[w] # None)

Complete == \A w \in Workers : CompleteAt(w)

\* The main thread's own variables.
MainTypeOK ==
  /\ main \in {"sinks", "blocks", "sources", "sim", "stop", "notify", "join", "linger", "returned"}
  /\ b \in DOMAIN Blocks
  /\ handle \subseteq Workers

\* The loop variable of the main thread stays in range.
LEMMA NextBlockType ==
  ASSUME MainTypeOK, NEW next \in {"blocks", "sources", "sim", "notify", "join", "linger"},
         NextBlock(next)
  PROVE  b' \in DOMAIN Blocks /\ main' \in
           {"sinks", "blocks", "sources", "sim", "stop", "notify", "join", "linger", "returned"}
<1>1. DOMAIN Blocks = 1 .. Len(Blocks) /\ Len(Blocks) \in Nat /\ Len(Blocks) > 0
  BY BlocksAssumption DEF BlocksAssumption
<1>2. QED
  BY <1>1 DEF NextBlock, MainTypeOK

\* The initial state has the types.
LEMMA InitType == Init => TypeOK
<1> SUFFICES ASSUME Init PROVE TypeOK
  OBVIOUS
<1>1. b \in DOMAIN Blocks
  BY BlocksAssumption DEF Init, BlocksAssumption
<1>2. WorkerTypeOK
  BY DEF Init, WorkerInit, WorkerTypeOK, VariableTypes, PortInRange, Reading, Sending,
         Labels, None
<1>3. QED
  BY <1>1, <1>2 DEF Init, TypeOK

\* A port a worker is at has a queue.
LEMMA QueueTypes ==
  ASSUME WorkerTypeOK, NEW w \in Workers
  PROVE  (Reading(w) => InQueue(w) \in Queues) /\ (Sending(w) => OutQueue(w) \in Queues)
  BY WiringAssumption DEF WorkerTypeOK, PortInRange, InQueue, OutQueue, WiringAssumption

\* Where a thread goes on reading and sending.
LEMMA NextLabels ==
  \A w, p : ReadFrom(w, p) \in {"wait", "check"} /\ SendFrom(w, p) \in {"full", "while"}
  BY DEF ReadFrom, SendFrom

\* Reading keeps the types of the variables ...
LEMMA ReadTypes ==
  ASSUME WorkerTypeOK, NEW w \in Workers, WhileTest(w) \/ Read(w)
  PROVE  VariableTypes'
<1> USE DEF VariableTypes, Labels, GoTo, None
<1>1. VariableTypes
  BY DEF WorkerTypeOK
<1>2. CASE WhileTest(w)
  <2>1. inputs' \in [InPorts -> Nat]
    <3>1. \/ inputs' = inputs
          \/ inputs' = [i \in InPorts |-> IF i[1] = w THEN None ELSE inputs[i]]
      BY <1>2 DEF WhileTest
    <3>2. inputs \in [InPorts -> Nat]
      BY <1>1
    <3>3. QED
      BY <3>1, <3>2 DEF None
  <2>2. port' \in [Workers -> Nat] /\ pc' \in [Workers -> Labels]
    <3>1. PICK l \in {"cleanup", "process", ReadFrom(w, 0)} : pc' = [pc EXCEPT ![w] = l]
      BY <1>2 DEF WhileTest
    <3>2. l \in Labels
      BY NextLabels
    <3>3. pc' \in [Workers -> Labels]
      BY <1>1, <3>1, <3>2
    <3>4. port' = port \/ port' = [port EXCEPT ![w] = 0]
      BY <1>2 DEF WhileTest
    <3>5. QED
      BY <1>1, <3>3, <3>4
  <2>3. UNCHANGED <<stop, output, flag, queue, qsize, calls, late>>
    BY <1>2 DEF WhileTest
  <2>4. QED
    BY <1>1, <2>1, <2>2, <2>3
<1>3. CASE Dequeue(w)
  <2>1. InQueue(w) \in Queues /\ <<w, port[w]>> \in InPorts
    BY <1>3, QueueTypes DEF Dequeue, Reading, WorkerTypeOK, PortInRange
  <2>2. queue' \in [Queues -> Seq(Nat \ {None})] /\ inputs' \in [InPorts -> Nat]
    BY <1>1, <1>3, <2>1 DEF Dequeue
  <2>3. pc' \in [Workers -> Labels]
    BY <1>1, <1>3 DEF Dequeue
  <2>4. UNCHANGED <<stop, port, output, flag, qsize, calls, late>>
    BY <1>3 DEF Dequeue
  <2>5. QED
    BY <1>1, <2>2, <2>3, <2>4
<1>4. CASE TimedOut(w) \/ NoData(w)
  BY <1>1, <1>4 DEF TimedOut, NoData, AfterTimeout
<1>5. CASE Decrement(w)
  BY <1>1, <1>5, QueueTypes DEF Decrement, Reading
<1>6. CASE PortRead(w)
  <2>1. CASE stop[w]
    BY <1>1, <1>6, <2>1 DEF PortRead
  <2>2. CASE ~stop[w]
    <3>1. /\ pc' = [pc EXCEPT ![w] = ReadFrom(w, port[w] + 1)]
          /\ port' = [port EXCEPT ![w] = @ + 1]
          /\ UNCHANGED <<stop, inputs, output, flag, queue, qsize, calls, late>>
      BY <1>6, <2>2 DEF PortRead
    <3>2. ReadFrom(w, port[w] + 1) \in Labels
      BY NextLabels
    <3>3. QED
      BY <1>1, <3>1, <3>2
  <2>3. QED
    BY <2>1, <2>2
<1>7. QED
  BY <1>2, <1>3, <1>4, <1>5, <1>6 DEF Read

\* ... and the loop variable in range.
LEMMA ReadPorts ==
  ASSUME WorkerTypeOK, NEW w \in Workers, WhileTest(w) \/ Read(w)
  PROVE  PortInRange'
<1> USE DEF GoTo, Reading, Sending
<1>1. pc \in [Workers -> Labels] /\ port \in [Workers -> Nat] /\ PortInRange
  BY DEF WorkerTypeOK, VariableTypes
<1>2. output' = output
  BY DEF WhileTest, Read, Dequeue, TimedOut, NoData, Decrement, PortRead
<1>3. CASE WhileTest(w)
  BY <1>1, <1>2, <1>3, InPortShape DEF WhileTest, ReadFrom, PortInRange
<1>4. CASE Dequeue(w)
  BY <1>1, <1>2, <1>4 DEF Dequeue, PortInRange
<1>5. CASE TimedOut(w) \/ NoData(w)
  BY <1>1, <1>2, <1>5 DEF TimedOut, NoData, AfterTimeout, PortInRange
<1>6. CASE Decrement(w)
  BY <1>1, <1>2, <1>6 DEF Decrement, PortInRange
<1>7. CASE PortRead(w)
  BY <1>1, <1>2, <1>7, InPortShape DEF PortRead, ReadFrom, PortInRange
<1>8. QED
  BY <1>3, <1>4, <1>5, <1>6, <1>7 DEF Read

\* Processing keeps the types of the variables ...
LEMMA ProcessTypes ==
  ASSUME WorkerTypeOK, NEW w \in Workers, CompleteAt(w), Process(w)
  PROVE  VariableTypes'
<1> USE DEF VariableTypes, Labels, GoTo
<1>1. VariableTypes
  BY DEF WorkerTypeOK
<1>2. CASE StopCheck(w)
  BY <1>1, <1>2 DEF StopCheck
<1>3. CASE ProcessData(w)
  <2>1. output' \in [Workers -> Nat]
    BY <1>1, <1>3, PortNumbers, InPortShape DEF ProcessData, Generates
  <2>2. PICK f \in FlagAfter(w) :
          flag' = [flag EXCEPT ![w] = f] /\ pc' = [pc EXCEPT ![w] = AfterProcess(w, f)]
    BY <1>3 DEF ProcessData
  <2>3. f \in {0, 1}
    BY <1>1, ShapeAssumption DEF FlagAfter, ShapeAssumption
  <2>4. flag' \in [Workers -> {0, 1}] /\ pc' \in [Workers -> Labels]
    BY <1>1, <2>2, <2>3 DEF AfterProcess, SendFrom
  <2>5. late' \in [Workers -> Nat] /\ calls' \in [Workers -> Nat] /\ port' \in [Workers -> Nat]
    BY <1>1, <1>3 DEF ProcessData, CountLate
  <2>6. QED
    BY <1>1, <1>3, <2>1, <2>4, <2>5 DEF ProcessData
<1>4. CASE IdleCall(w)
  BY <1>1, <1>4 DEF IdleCall, CountLate, AfterProcess
<1>5. CASE SourceCheck(w)
  BY <1>1, <1>5 DEF SourceCheck, SendFrom
<1>6. QED
  BY <1>2, <1>3, <1>4, <1>5 DEF Process

\* ... and the loop variable in range, with a real item to send.
LEMMA ProcessPorts ==
  ASSUME WorkerTypeOK, NEW w \in Workers, CompleteAt(w), Process(w)
  PROVE  PortInRange'
<1> USE DEF GoTo, Reading, Sending
<1>1. /\ pc \in [Workers -> Labels] /\ port \in [Workers -> Nat] /\ PortInRange
      /\ output \in [Workers -> Nat] /\ calls \in [Workers -> Nat]
  BY DEF WorkerTypeOK, VariableTypes
<1>2. CASE StopCheck(w)
  BY <1>1, <1>2 DEF StopCheck, PortInRange
<1>3. CASE ProcessData(w)
  <2>1. output'[w] # None
    BY <1>1, <1>3, PortNumbers, InPortShape DEF ProcessData, CompleteAt, Generates, None
  <2>2. PICK f \in FlagAfter(w) : pc' = [pc EXCEPT ![w] = AfterProcess(w, f)]
    BY <1>3 DEF ProcessData
  <2>3. port' = [port EXCEPT ![w] = 0] /\ \A v \in Workers \ {w} : output'[v] = output[v]
    BY <1>1, <1>3 DEF ProcessData
  <2>4. QED
    BY <1>1, <2>1, <2>2, <2>3, OutPortShape DEF AfterProcess, SendFrom, PortInRange
<1>4. CASE IdleCall(w)
  BY <1>1, <1>4 DEF IdleCall, AfterProcess, SendFrom, PortInRange
<1>5. CASE SourceCheck(w)
  BY <1>1, <1>5, OutPortShape DEF SourceCheck, SendFrom, PortInRange, CompleteAt
<1>6. QED
  BY <1>2, <1>3, <1>4, <1>5 DEF Process

\* Sending keeps the types of the variables ...
LEMMA SendTypes ==
  ASSUME WorkerTypeOK, NEW w \in Workers, Send(w)
  PROVE  VariableTypes'
<1> USE DEF VariableTypes, Labels, GoTo
<1>1. VariableTypes
  BY DEF WorkerTypeOK
<1>2. CASE Admit(w)
  BY <1>1, <1>2 DEF Admit
<1>3. CASE Enqueue(w)
  <2>1. OutQueue(w) \in Queues /\ output[w] \in Nat \ {None}
    BY <1>1, <1>3, QueueTypes DEF Enqueue, Sending, WorkerTypeOK, PortInRange
  <2>2. queue' \in [Queues -> Seq(Nat \ {None})]
    BY <1>1, <1>3, <2>1 DEF Enqueue
  <2>3. QED
    BY <1>1, <1>3, <2>2 DEF Enqueue
<1>4. CASE Increment(w)
  <2>1. qsize' \in [Queues -> Int] /\ port' \in [Workers -> Nat]
    BY <1>1, <1>4, QueueTypes DEF Increment, Sending
  <2>2. pc' \in [Workers -> Labels]
    BY <1>1, <1>4, NextLabels DEF Increment
  <2>3. QED
    BY <1>1, <1>4, <2>1, <2>2 DEF Increment
<1>5. QED
  BY <1>2, <1>3, <1>4 DEF Send

\* ... and the loop variable in range.
LEMMA SendPorts ==
  ASSUME WorkerTypeOK, NEW w \in Workers, Send(w)
  PROVE  PortInRange'
<1> USE DEF GoTo, Reading, Sending
<1>1. pc \in [Workers -> Labels] /\ port \in [Workers -> Nat] /\ PortInRange
  BY DEF WorkerTypeOK, VariableTypes
<1>2. output' = output
  BY DEF Send, Admit, Enqueue, Increment
<1>3. CASE Admit(w)
  BY <1>1, <1>2, <1>3 DEF Admit, PortInRange
<1>4. CASE Enqueue(w)
  BY <1>1, <1>2, <1>4 DEF Enqueue, PortInRange
<1>5. CASE Increment(w)
  BY <1>1, <1>2, <1>5, OutPortShape DEF Increment, SendFrom, PortInRange
<1>6. QED
  BY <1>3, <1>4, <1>5 DEF Send

\* So does the rest of what a thread does.
LEMMA ThreadType ==
  ASSUME WorkerTypeOK, NEW w \in Workers, CompleteAt(w), ThreadStep(w)
  PROVE  WorkerTypeOK'
<1>1. CASE WhileTest(w) \/ Read(w)
  BY <1>1, ReadTypes, ReadPorts DEF WorkerTypeOK
<1>2. CASE Process(w)
  BY <1>2, ProcessTypes, ProcessPorts DEF WorkerTypeOK
<1>3. CASE Send(w)
  BY <1>3, SendTypes, SendPorts DEF WorkerTypeOK
<1>4. CASE FunctionInit(w) \/ Cleanup(w)
  BY <1>4 DEF FunctionInit, Cleanup, GoTo, WorkerTypeOK, VariableTypes, PortInRange, Reading,
              Sending, Labels
<1>5. QED
  BY <1>1, <1>2, <1>3, <1>4 DEF ThreadStep

\* What the main thread does to a worker: start it, or tell it to stop.
Ask(w) ==
  /\ stop' = [stop EXCEPT ![w] = TRUE]
  /\ UNCHANGED <<pc, port, inputs, output, flag, queue, qsize, calls, late>>

LEMMA MainStepEffect ==
  ASSUME MainTypeOK, MainStep
  PROVE  UNCHANGED workerVars \/ \E w \in Workers : Spawn(w) \/ Ask(w)
<1>1. Blocks[b] \in Workers
  BY BlocksAssumption DEF BlocksAssumption, MainTypeOK
<1>2. CASE Starting
  BY <1>1, <1>2 DEF Starting, StartSinks, StartBlocks, StartSources, Start
<1>3. CASE SetStop
  BY <1>1, <1>3 DEF SetStop, Ask
<1>4. CASE EndSimulation \/ Notify \/ Join \/ Return
  BY <1>4 DEF EndSimulation, Notify, Join, Return
<1>5. QED
  BY <1>2, <1>3, <1>4 DEF MainStep, Shutdown

\* What a step of the program can do to the workers: every property of the
\* workers alone is proved about these steps, whatever the main thread does
\* besides.
WorkerStep == UNCHANGED workerVars \/ \E w \in Workers : Spawn(w) \/ Ask(w) \/ ThreadStep(w)

LEMMA NextStep == ASSUME MainTypeOK, [Next]_vars PROVE WorkerStep
<1>1. CASE MainStep
  BY <1>1, MainStepEffect DEF WorkerStep
<1>2. CASE \E w \in Workers : Step(w)
  BY <1>2 DEF Step, WorkerStep
<1>3. CASE UNCHANGED vars
  BY <1>3 DEF vars, WorkerStep
<1>4. QED
  BY <1>1, <1>2, <1>3 DEF Next

LEMMA AskType ==
  ASSUME WorkerTypeOK, NEW w \in Workers, Spawn(w) \/ Ask(w)
  PROVE  WorkerTypeOK'
<1> USE DEF GoTo, WorkerTypeOK, VariableTypes, PortInRange, Reading, Sending, Labels
<1>1. CASE Spawn(w)
  BY <1>1 DEF Spawn
<1>2. CASE Ask(w)
  BY <1>2 DEF Ask
<1>3. QED
  BY <1>1, <1>2

\* The main thread keeps its own types.
LEMMA MainType == ASSUME MainTypeOK, MainStep PROVE MainTypeOK'
<1>1. handle' = handle
  BY DEF MainStep, Starting, StartSinks, StartBlocks, StartSources, Start, HandleAfterRun,
         EndSimulation, Shutdown, SetStop, Notify, Join, Return
<1>2. CASE EndSimulation \/ Return
  BY <1>1, <1>2 DEF EndSimulation, Return, MainTypeOK
<1>3. CASE ~(EndSimulation \/ Return)
  <2>1. \E next \in {"blocks", "sources", "sim", "notify", "join", "linger"} : NextBlock(next)
    BY <1>3 DEF MainStep, Starting, StartSinks, StartBlocks, StartSources, Start, Shutdown,
                SetStop, Notify, Join
  <2>2. QED
    BY <1>1, <2>1, NextBlockType DEF MainTypeOK
<1>4. QED
  BY <1>2, <1>3

\* Every step of the program keeps the types.
LEMMA WorkerTypeStep == ASSUME WorkerTypeOK, Complete, WorkerStep PROVE WorkerTypeOK'
<1>1. UNCHANGED workerVars => WorkerTypeOK'
  BY DEF workerVars, WorkerTypeOK, VariableTypes, PortInRange, Reading, Sending
<1>2. QED
  BY <1>1, AskType, ThreadType DEF WorkerStep, Complete

LEMMA TypeStep == ASSUME TypeOK, Complete, [Next]_vars PROVE TypeOK'
<1>1. WorkerTypeOK /\ MainTypeOK
  BY DEF TypeOK, MainTypeOK
<1>2. WorkerTypeOK'
  BY <1>1, NextStep, WorkerTypeStep
<1>3. MainTypeOK'
  BY <1>1, MainType DEF Next, Step, vars, mainVars, MainTypeOK
<1>4. QED
  BY <1>2, <1>3 DEF TypeOK, MainTypeOK

-----------------------------------------------------------------------------
(* Whose variables a step touches.                                         *)

\* A thread writes only its own variables, and it does not set stop flags.
LEMMA Locality ==
  ASSUME WorkerTypeOK, NEW w \in Workers, ThreadStep(w)
  PROVE  /\ stop' = stop
         /\ \A v \in Workers \ {w} :
              /\ pc'[v] = pc[v] /\ port'[v] = port[v] /\ output'[v] = output[v]
              /\ flag'[v] = flag[v] /\ late'[v] = late[v]
              /\ \A p \in Ins(v) : inputs'[<<v, p>>] = inputs[<<v, p>>]
<1> USE DEF WorkerTypeOK, VariableTypes, GoTo
<1>1. CASE WhileTest(w)
  BY <1>1, InPortShape DEF WhileTest
<1>2. CASE Read(w)
  BY <1>2, InPortShape DEF Read, Dequeue, TimedOut, NoData, Decrement, PortRead
<1>3. CASE StopCheck(w) \/ SourceCheck(w) \/ IdleCall(w)
  BY <1>3 DEF StopCheck, SourceCheck, IdleCall, CountLate
<1>4. CASE ProcessData(w)
  BY <1>4 DEF ProcessData, CountLate
<1>5. CASE Send(w)
  BY <1>5 DEF Send, Admit, Enqueue, Increment
<1>6. CASE FunctionInit(w) \/ Cleanup(w)
  BY <1>6 DEF FunctionInit, Cleanup
<1>7. QED
  BY <1>1, <1>2, <1>3, <1>4, <1>5, <1>6 DEF ThreadStep, Process

-----------------------------------------------------------------------------
(* Complete inputs.                                                        *)

\* What a thread knows about its items is not changed by the others.
LEMMA CompleteFrame ==
  ASSUME NEW v \in Workers, CompleteAt(v), stop[v] => stop'[v],
         pc'[v] = pc[v], port'[v] = port[v], output'[v] = output[v], flag'[v] = flag[v],
         \A p \in Ins(v) : inputs'[<<v, p>>] = inputs[<<v, p>>],
         WorkerTypeOK
  PROVE  CompleteAt(v)'
<1>1. Reading(v) => port[v] \in Ins(v)
  BY InPortShape DEF WorkerTypeOK, PortInRange
<1>2. QED
  BY <1>1 DEF CompleteAt, Reading

\* Reading port after port gathers complete inputs.
LEMMA CompleteRead ==
  ASSUME WorkerTypeOK, NEW w \in Workers, CompleteAt(w), Read(w)
  PROVE  CompleteAt(w)'
<1> USE DEF GoTo, Reading, None
<1>1. pc \in [Workers -> Labels] /\ port \in [Workers -> Nat] /\ inputs \in [InPorts -> Nat]
  BY DEF WorkerTypeOK, VariableTypes
<1>2. Ins(w) \subseteq Nat
  BY PortNumbers
<1>3. Reading(w)
  BY DEF Read, Dequeue, TimedOut, NoData, Decrement, PortRead
<1>4. <<w, port[w]>> \in InPorts /\ port[w] \in Ins(w)
  BY <1>3, InPortShape DEF WorkerTypeOK, PortInRange
<1>5. CASE Dequeue(w)
  <2>1. Head(queue[InQueue(w)]) # 0
    BY <1>3, <1>5, QueueTypes DEF Dequeue, WorkerTypeOK, VariableTypes
  <2>2. inputs'[<<w, port[w]>>] # 0
    BY <1>1, <1>4, <1>5, <2>1 DEF Dequeue
  <2>3. \A p \in Ins(w) : p < port[w] => inputs'[<<w, p>>] = inputs[<<w, p>>]
    BY <1>1, <1>2, <1>4, <1>5, InPortShape DEF Dequeue
  <2>4. QED
    BY <1>1, <1>5, <2>2, <2>3 DEF Dequeue, CompleteAt
<1>6. CASE TimedOut(w)
  BY <1>1, <1>6 DEF TimedOut, CompleteAt
<1>7. CASE NoData(w)
  BY <1>1, <1>7 DEF NoData, AfterTimeout, CompleteAt
<1>8. CASE Decrement(w)
  BY <1>1, <1>8 DEF Decrement, CompleteAt
<1>9. CASE PortRead(w)
  <2>1. CASE stop[w]
    BY <1>1, <1>9, <2>1 DEF PortRead, CompleteAt
  <2>2. CASE ~stop[w]
    <3>1. /\ pc'[w] = ReadFrom(w, port[w] + 1) /\ port'[w] = port[w] + 1
          /\ inputs' = inputs /\ stop' = stop
      BY <1>1, <1>9, <2>2 DEF PortRead
    <3>2. \A p \in Ins(w) : p < port[w] + 1 => inputs[<<w, p>>] # 0
      <4>1. \A p \in Ins(w) : p < port[w] + 1 => p < port[w] \/ p = port[w]
        BY <1>1, <1>2
      <4>2. QED
        BY <1>3, <1>9, <2>2, <4>1 DEF PortRead, CompleteAt
    <3>3. CASE port[w] + 1 \in Ins(w)
      BY <3>1, <3>2, <3>3 DEF ReadFrom, CompleteAt
    <3>4. CASE port[w] + 1 \notin Ins(w)
      <4>1. \A p \in Ins(w) : p < port[w] + 1
        BY <1>1, <1>4, <3>4, ShapeAssumption DEF Ins, ShapeAssumption
      <4>2. QED
        BY <3>1, <3>2, <3>4, <4>1 DEF ReadFrom, CompleteAt
    <3>5. QED
      BY <3>3, <3>4
  <2>3. QED
    BY <2>1, <2>2
<1>10. QED
  BY <1>5, <1>6, <1>7, <1>8, <1>9 DEF Read

\* The other steps of a thread keep what it knows.
LEMMA CompleteThread ==
  ASSUME WorkerTypeOK, NEW w \in Workers, CompleteAt(w), ThreadStep(w)
  PROVE  CompleteAt(w)'
<1> USE DEF GoTo, None
<1>1. /\ pc \in [Workers -> Labels] /\ port \in [Workers -> Nat] /\ output \in [Workers -> Nat]
      /\ flag \in [Workers -> {0, 1}] /\ calls \in [Workers -> Nat]
  BY DEF WorkerTypeOK, VariableTypes
<1>2. CASE Read(w)
  BY <1>2, CompleteRead
<1>3. CASE WhileTest(w)
  <2>1. CASE pc'[w] \in {"cleanup", "process"} /\ (pc'[w] = "process" => Kind[w] = "source")
    BY <2>1 DEF CompleteAt, Reading
  <2>2. CASE pc'[w] = ReadFrom(w, 0) /\ port'[w] = 0
    <3>1. Ins(w) # {} => 0 \in Ins(w)
      BY PortNumbers
    <3>2. \A p \in Ins(w) : ~(p < 0)
      BY PortNumbers
    <3>3. QED
      BY <2>2, <3>1, <3>2 DEF ReadFrom, CompleteAt, Reading
  <2>3. QED
    BY <1>1, <1>3, <2>1, <2>2 DEF WhileTest
<1>4. CASE StopCheck(w)
  BY <1>1, <1>4 DEF StopCheck, CompleteAt, Reading
<1>5. CASE ProcessData(w)
  <2>1. PICK f \in FlagAfter(w) : pc' = [pc EXCEPT ![w] = AfterProcess(w, f)]
    BY <1>5 DEF ProcessData
  <2>2. pc'[w] \in {"srccheck", "while", "full"} /\ (pc'[w] = "srccheck" => Kind[w] = "source")
    BY <1>1, <2>1 DEF AfterProcess, SendFrom
  <2>3. port'[w] = 0 /\ (Kind[w] = "source" => output'[w] # 0)
    BY <1>1, <1>5 DEF ProcessData, Generates
  <2>4. QED
    BY <2>2, <2>3 DEF CompleteAt, Reading
<1>6. CASE IdleCall(w)
  <2>1. pc'[w] \in {"srccheck", "while"} /\ port'[w] = 0 /\ flag'[w] = 0
    BY <1>1, <1>6 DEF IdleCall, AfterProcess
  <2>2. QED
    BY <2>1 DEF CompleteAt, Reading
<1>7. CASE SourceCheck(w)
  <2>1. pc'[w] \in {"cleanup", "full", "while"}
    BY <1>1, <1>7 DEF SourceCheck, SendFrom
  <2>2. QED
    BY <2>1 DEF CompleteAt, Reading
<1>8. CASE Send(w)
  <2>1. pc'[w] \in {"enqueue", "increment", "full", "while"}
    BY <1>1, <1>8 DEF Send, Admit, Enqueue, Increment, SendFrom
  <2>2. QED
    BY <2>1 DEF CompleteAt, Reading
<1>9. CASE FunctionInit(w) \/ Cleanup(w)
  <2>1. pc'[w] \in {"while", "done"}
    BY <1>1, <1>9 DEF FunctionInit, Cleanup
  <2>2. QED
    BY <2>1 DEF CompleteAt, Reading
<1>10. QED
  BY <1>2, <1>3, <1>4, <1>5, <1>6, <1>7, <1>8, <1>9 DEF ThreadStep, Process

\* Every step of the program keeps what every thread knows.
LEMMA CompleteStep == ASSUME WorkerTypeOK, Complete, WorkerStep PROVE Complete'
<1> SUFFICES ASSUME NEW v \in Workers PROVE CompleteAt(v)'
  BY DEF Complete
<1>1. CompleteAt(v) /\ pc \in [Workers -> Labels] /\ stop \in [Workers -> BOOLEAN]
  BY DEF Complete, WorkerTypeOK, VariableTypes
<1>2. CASE UNCHANGED workerVars
  BY <1>1, <1>2, CompleteFrame DEF workerVars
<1>3. ASSUME NEW w \in Workers, Spawn(w) PROVE CompleteAt(v)'
  <2>1. CASE v = w
    BY <1>1, <1>3, <2>1 DEF Spawn, GoTo, CompleteAt, Reading
  <2>2. CASE v # w
    BY <1>1, <1>3, <2>2, CompleteFrame DEF Spawn, GoTo
  <2>3. QED
    BY <2>1, <2>2
<1>4. ASSUME NEW w \in Workers, Ask(w) PROVE CompleteAt(v)'
  <2>1. stop[v] => stop'[v]
    BY <1>1, <1>4 DEF Ask
  <2>2. QED
    BY <1>1, <1>4, <2>1, CompleteFrame DEF Ask
<1>5. ASSUME NEW w \in Workers, ThreadStep(w) PROVE CompleteAt(v)'
  <2>1. CASE v = w
    BY <1>1, <1>5, <2>1, CompleteThread
  <2>2. CASE v # w
    BY <1>1, <1>5, <2>2, Locality, CompleteFrame
  <2>3. QED
    BY <2>1, <2>2
<1>6. QED
  BY <1>2, <1>3, <1>4, <1>5 DEF WorkerStep

-----------------------------------------------------------------------------
(* Calls after a stop.                                                     *)

\* A worker has begun at most one call after it was told to stop, and if it
\* has, it is past the points from which it could begin another.
LateAt(w) ==
  /\ late[w] \in {0, 1}
  /\ late[w] = 1 =>
       stop[w] /\ pc[w] \in {"srccheck", "full", "enqueue", "increment", "while", "cleanup", "done"}

LateOnce == \A w \in Workers : LateAt(w)

LEMMA LateThread ==
  ASSUME WorkerTypeOK, NEW w \in Workers, LateAt(w), ThreadStep(w)
  PROVE  LateAt(w)'
<1> USE DEF GoTo, LateAt
<1>1. pc \in [Workers -> Labels] /\ late \in [Workers -> Nat]
  BY DEF WorkerTypeOK, VariableTypes
<1>2. stop' = stop
  BY Locality
<1>3. CASE WhileTest(w) \/ StopCheck(w) \/ SourceCheck(w) \/ FunctionInit(w) \/ Cleanup(w)
  BY <1>1, <1>2, <1>3 DEF WhileTest, StopCheck, SourceCheck, SendFrom, FunctionInit, Cleanup
<1>4. CASE Read(w)
  BY <1>1, <1>2, <1>4 DEF Read, Dequeue, TimedOut, NoData, Decrement, PortRead
<1>5. CASE ProcessData(w)
  <2>1. PICK f \in FlagAfter(w) : pc' = [pc EXCEPT ![w] = AfterProcess(w, f)]
    BY <1>5 DEF ProcessData
  <2>2. pc'[w] \in {"srccheck", "while", "full"}
    BY <1>1, <2>1 DEF AfterProcess, SendFrom
  <2>3. late[w] = 0
    BY <1>5 DEF ProcessData
  <2>4. late'[w] = IF stop[w] THEN 1 ELSE 0
    BY <1>1, <1>5, <2>3 DEF ProcessData, CountLate
  <2>5. QED
    BY <1>2, <2>2, <2>4
<1>6. CASE IdleCall(w)
  <2>1. pc'[w] \in {"srccheck", "while"}
    BY <1>1, <1>6 DEF IdleCall, AfterProcess
  <2>2. late[w] = 0
    BY <1>6 DEF IdleCall
  <2>3. late'[w] = IF stop[w] THEN 1 ELSE 0
    BY <1>1, <1>6, <2>2 DEF IdleCall, CountLate
  <2>4. QED
    BY <1>2, <2>1, <2>3
<1>7. CASE Send(w)
  BY <1>1, <1>2, <1>7 DEF Send, Admit, Enqueue, Increment, SendFrom
<1>8. QED
  BY <1>3, <1>4, <1>5, <1>6, <1>7 DEF ThreadStep, Process

LEMMA LateStep == ASSUME WorkerTypeOK, LateOnce, WorkerStep PROVE LateOnce'
<1> SUFFICES ASSUME NEW v \in Workers PROVE LateAt(v)'
  BY DEF LateOnce
<1>1. LateAt(v) /\ pc \in [Workers -> Labels] /\ stop \in [Workers -> BOOLEAN]
  BY DEF LateOnce, WorkerTypeOK, VariableTypes
<1>2. CASE UNCHANGED workerVars
  BY <1>1, <1>2 DEF workerVars, LateAt
<1>3. ASSUME NEW w \in Workers, Spawn(w) PROVE LateAt(v)'
  BY <1>1, <1>3 DEF Spawn, GoTo, LateAt
<1>4. ASSUME NEW w \in Workers, Ask(w) PROVE LateAt(v)'
  BY <1>1, <1>4 DEF Ask, LateAt
<1>5. ASSUME NEW w \in Workers, ThreadStep(w) PROVE LateAt(v)'
  <2>1. CASE v = w
    BY <1>1, <1>5, <2>1, LateThread
  <2>2. CASE v # w
    BY <1>1, <1>5, <2>2, Locality DEF LateAt
  <2>3. QED
    BY <2>1, <2>2
<1>6. QED
  BY <1>2, <1>3, <1>4, <1>5 DEF WorkerStep

-----------------------------------------------------------------------------
(* Counters.                                                               *)

\* A producer that was let in finds the counter as low as it was then: only
\* its own increment could raise it.
Admitted == \A w \in Workers : pc[w] = "enqueue" => qsize[OutQueue(w)] <= WarningQSize

Counted == SizeAgrees /\ Admitted /\ QueueBound

\* The port w is at is the only one with its queue.
LEMMA OnlyConsumer ==
  ASSUME WorkerTypeOK, NEW w \in Workers, Reading(w), NEW i \in InPorts,
         InputQueue[i] = InQueue(w)
  PROVE  i = <<w, port[w]>>
  BY WiringAssumption DEF WorkerTypeOK, PortInRange, InQueue, WiringAssumption

LEMMA OnlyProducer ==
  ASSUME WorkerTypeOK, NEW w \in Workers, Sending(w), NEW i \in OutPorts,
         OutputQueue[i] = OutQueue(w)
  PROVE  i = <<w, port[w]>>
  BY WiringAssumption DEF WorkerTypeOK, PortInRange, OutQueue, WiringAssumption

\* A step that leaves the queues and their counters alone, and no thread at a
\* counter that was not there before, or the other way round.
Quiet ==
  /\ queue' = queue /\ qsize' = qsize
  /\ \A i \in InPorts : At(i, "decrement")' <=> At(i, "decrement")
  /\ \A i \in OutPorts : At(i, "increment")' <=> At(i, "increment")

LEMMA QuietCounted ==
  ASSUME Quiet, SizeAgrees, QueueBound
  PROVE  SizeAgrees' /\ QueueBound'
<1>1. \A q \in Queues : Unsubtracted(q)' = Unsubtracted(q)
  BY DEF Quiet, Unsubtracted
<1>2. \A q \in Queues : Uncounted(q)' = Uncounted(q)
  BY DEF Quiet, Uncounted
<1>3. QED
  BY <1>1, <1>2 DEF Quiet, SizeAgrees, QueueBound

\* The steps of a thread that touch no counter and no queue.
Elsewhere(w) ==
  \/ FunctionInit(w) \/ WhileTest(w) \/ TimedOut(w) \/ NoData(w) \/ PortRead(w)
  \/ Process(w) \/ Admit(w) \/ Cleanup(w)

LEMMA ElsewhereQuiet ==
  ASSUME WorkerTypeOK, NEW w \in Workers, Elsewhere(w)
  PROVE  Quiet
<1> USE DEF GoTo
<1>1. pc \in [Workers -> Labels]
  BY DEF WorkerTypeOK, VariableTypes
<1>2. queue' = queue /\ qsize' = qsize
  BY DEF Elsewhere, FunctionInit, WhileTest, TimedOut, NoData, PortRead, Process, StopCheck,
         ProcessData, IdleCall, SourceCheck, Admit, Cleanup
<1>3. pc[w] \notin {"decrement", "increment"}
  BY DEF Elsewhere, FunctionInit, WhileTest, TimedOut, NoData, PortRead, Process, StopCheck,
         ProcessData, IdleCall, SourceCheck, Admit, Cleanup
<1>4. pc'[w] \notin {"decrement", "increment"}
  <2>1. CASE FunctionInit(w) \/ WhileTest(w) \/ TimedOut(w) \/ NoData(w) \/ PortRead(w)
    BY <1>1, <2>1 DEF FunctionInit, WhileTest, TimedOut, NoData, AfterTimeout, PortRead, ReadFrom
  <2>2. CASE ProcessData(w)
    <3>1. PICK f \in FlagAfter(w) : pc' = [pc EXCEPT ![w] = AfterProcess(w, f)]
      BY <2>2 DEF ProcessData
    <3>2. QED
      BY <1>1, <3>1 DEF AfterProcess, SendFrom
  <2>3. CASE StopCheck(w) \/ IdleCall(w) \/ SourceCheck(w) \/ Admit(w) \/ Cleanup(w)
    BY <1>1, <2>3 DEF StopCheck, IdleCall, AfterProcess, SourceCheck, SendFrom, Admit, Cleanup
  <2>4. QED
    BY <2>1, <2>2, <2>3 DEF Elsewhere, Process
<1>5. ThreadStep(w)
  BY DEF Elsewhere, ThreadStep, Read, Send
<1>6. \A v \in Workers \ {w} : pc'[v] = pc[v] /\ port'[v] = port[v]
  BY <1>5, Locality
<1>7. QED
  BY <1>2, <1>3, <1>4, <1>6, InPortShape, OutPortShape DEF Quiet, At

\* Taking an item: the queue is one shorter, and the counter owes one.
LEMMA DequeueCounted ==
  ASSUME WorkerTypeOK, SizeAgrees, QueueBound, NEW w \in Workers, Dequeue(w)
  PROVE  SizeAgrees' /\ QueueBound'
<1> USE DEF GoTo
<1>0. PICK q0 \in Queues : q0 = InQueue(w)
  BY QueueTypes DEF Dequeue, Reading
<1>1. /\ pc \in [Workers -> Labels] /\ queue \in [Queues -> Seq(Nat \ {None})]
      /\ qsize \in [Queues -> Int] /\ Reading(w)
  BY DEF WorkerTypeOK, VariableTypes, Dequeue, Reading
<1>2. pc[w] = "wait" /\ pc' = [pc EXCEPT ![w] = "decrement"] /\ port' = port /\ qsize' = qsize
  BY <1>0 DEF Dequeue
<1>3. \A i \in OutPorts : At(i, "increment")' <=> At(i, "increment")
  BY <1>1, <1>2, OutPortShape DEF At
<1>4. \A q \in Queues : Uncounted(q)' = Uncounted(q)
  BY <1>3 DEF Uncounted
<1>5. \A i \in InPorts : At(i, "decrement")' <=> (At(i, "decrement") \/ i = <<w, port[w]>>)
  BY <1>1, <1>2, InPortShape DEF At
<1>6. <<w, port[w]>> \in InPorts /\ InputQueue[<<w, port[w]>>] = q0
  BY <1>0, <1>1 DEF WorkerTypeOK, PortInRange, InQueue
<1>7. Unsubtracted(q0) = 0
  BY <1>1, <1>2, <1>0, OnlyConsumer DEF Unsubtracted, At
<1>8. Unsubtracted(q0)' = 1
  BY <1>5, <1>6 DEF Unsubtracted
<1>9. \A q \in Queues \ {q0} : Unsubtracted(q)' = Unsubtracted(q)
  BY <1>5, <1>6 DEF Unsubtracted
<1>10. Len(queue'[q0]) = Len(queue[q0]) - 1 /\ \A q \in Queues \ {q0} : queue'[q] = queue[q]
  BY <1>0, <1>1 DEF Dequeue
<1>11. \A q \in Queues : Len(queue[q]) \in Nat
  BY <1>1
<1>12. \A q \in Queues : Uncounted(q) \in {0, 1} /\ Unsubtracted(q) \in {0, 1}
  BY DEF Uncounted, Unsubtracted
<1>13. SizeAgrees'
  <2> SUFFICES ASSUME NEW q \in Queues
               PROVE  qsize'[q] = Len(queue'[q]) + Unsubtracted(q)' - Uncounted(q)'
    BY DEF SizeAgrees
  <2>1. /\ qsize'[q] = Len(queue[q]) + Unsubtracted(q) - Uncounted(q)
        /\ Uncounted(q)' = Uncounted(q)
    BY <1>2, <1>4 DEF SizeAgrees
  <2>2. Len(queue[q]) \in Nat /\ Unsubtracted(q) \in {0, 1} /\ Uncounted(q) \in {0, 1}
    BY <1>11, <1>12
  <2>3. CASE q = q0
    <3>1. Unsubtracted(q) = 0 /\ Unsubtracted(q)' = 1 /\ Len(queue'[q]) = Len(queue[q]) - 1
      BY <1>7, <1>8, <1>10, <2>3
    <3>2. QED
      BY <2>1, <2>2, <3>1
  <2>4. CASE q # q0
    BY <1>9, <1>10, <2>1, <2>4
  <2>5. QED
    BY <2>3, <2>4
<1>14. QueueBound'
  BY <1>10, <1>11, ShapeAssumption DEF QueueBound, ShapeAssumption
<1>15. QED
  BY <1>13, <1>14

\* Paying it back.
LEMMA DecrementCounted ==
  ASSUME WorkerTypeOK, SizeAgrees, QueueBound, NEW w \in Workers, Decrement(w)
  PROVE  SizeAgrees' /\ QueueBound'
<1> USE DEF GoTo
<1>0. PICK q0 \in Queues : q0 = InQueue(w)
  BY QueueTypes DEF Decrement, Reading
<1>1. /\ pc \in [Workers -> Labels] /\ queue \in [Queues -> Seq(Nat \ {None})]
      /\ qsize \in [Queues -> Int] /\ Reading(w)
  BY DEF WorkerTypeOK, VariableTypes, Decrement, Reading
<1>2. /\ pc[w] = "decrement" /\ pc' = [pc EXCEPT ![w] = "read"] /\ port' = port
      /\ queue' = queue /\ qsize' = [qsize EXCEPT ![q0] = @ - 1]
  BY <1>0 DEF Decrement
<1>3. \A i \in OutPorts : At(i, "increment")' <=> At(i, "increment")
  BY <1>1, <1>2, OutPortShape DEF At
<1>4. \A q \in Queues : Uncounted(q)' = Uncounted(q)
  BY <1>3 DEF Uncounted
<1>5. \A i \in InPorts : At(i, "decrement")' <=> (At(i, "decrement") /\ i # <<w, port[w]>>)
  BY <1>1, <1>2, InPortShape DEF At
<1>6. <<w, port[w]>> \in InPorts /\ InputQueue[<<w, port[w]>>] = q0
  BY <1>0, <1>1 DEF WorkerTypeOK, PortInRange, InQueue
<1>7. Unsubtracted(q0) = 1
  BY <1>2, <1>6 DEF Unsubtracted, At
<1>8. Unsubtracted(q0)' = 0
  BY <1>1, <1>5, <1>0, OnlyConsumer DEF Unsubtracted
<1>9. \A q \in Queues \ {q0} : Unsubtracted(q)' = Unsubtracted(q)
  BY <1>5, <1>6 DEF Unsubtracted
<1>10. \A q \in Queues : Len(queue[q]) \in Nat
  BY <1>1
<1>11. \A q \in Queues : Uncounted(q) \in {0, 1} /\ Unsubtracted(q) \in {0, 1}
  BY DEF Uncounted, Unsubtracted
<1>12. SizeAgrees'
  <2> SUFFICES ASSUME NEW q \in Queues
               PROVE  qsize'[q] = Len(queue'[q]) + Unsubtracted(q)' - Uncounted(q)'
    BY DEF SizeAgrees
  <2>1. /\ qsize[q] = Len(queue[q]) + Unsubtracted(q) - Uncounted(q)
        /\ Uncounted(q)' = Uncounted(q) /\ queue' = queue
    BY <1>2, <1>4 DEF SizeAgrees
  <2>2. Len(queue[q]) \in Nat /\ Unsubtracted(q) \in {0, 1} /\ Uncounted(q) \in {0, 1}
    BY <1>10, <1>11
  <2>3. CASE q = q0
    <3>1. Unsubtracted(q) = 1 /\ Unsubtracted(q)' = 0 /\ qsize'[q] = qsize[q] - 1
      BY <1>1, <1>2, <1>7, <1>8, <2>3
    <3>2. QED
      BY <2>1, <2>2, <3>1
  <2>4. CASE q # q0
    <3>1. Unsubtracted(q)' = Unsubtracted(q) /\ qsize'[q] = qsize[q]
      BY <1>1, <1>2, <1>9, <2>4
    <3>2. QED
      BY <2>1, <3>1
  <2>5. QED
    BY <2>3, <2>4
<1>13. QueueBound'
  BY <1>2 DEF QueueBound
<1>14. QED
  BY <1>12, <1>13

\* Adding an item: there is room for it, and the counter is one behind.
LEMMA EnqueueCounted ==
  ASSUME WorkerTypeOK, Counted, NEW w \in Workers, Enqueue(w)
  PROVE  SizeAgrees' /\ QueueBound'
<1> USE DEF GoTo
<1>0. PICK q0 \in Queues : q0 = OutQueue(w)
  BY QueueTypes DEF Enqueue, Sending
<1>1. /\ pc \in [Workers -> Labels] /\ queue \in [Queues -> Seq(Nat \ {None})]
      /\ qsize \in [Queues -> Int] /\ Sending(w)
      /\ output[w] \in Nat \ {None}
  BY DEF WorkerTypeOK, VariableTypes, PortInRange, Enqueue, Sending
<1>2. /\ pc[w] = "enqueue" /\ pc' = [pc EXCEPT ![w] = "increment"] /\ port' = port
      /\ qsize' = qsize /\ queue' = [queue EXCEPT ![q0] = Append(@, output[w])]
  BY <1>0 DEF Enqueue
<1>3. \A i \in InPorts : At(i, "decrement")' <=> At(i, "decrement")
  BY <1>1, <1>2, InPortShape DEF At
<1>4. \A q \in Queues : Unsubtracted(q)' = Unsubtracted(q)
  BY <1>3 DEF Unsubtracted
<1>5. \A i \in OutPorts : At(i, "increment")' <=> (At(i, "increment") \/ i = <<w, port[w]>>)
  BY <1>1, <1>2, OutPortShape DEF At
<1>6. <<w, port[w]>> \in OutPorts /\ OutputQueue[<<w, port[w]>>] = q0
  BY <1>0, <1>1 DEF WorkerTypeOK, PortInRange, OutQueue
<1>7. Uncounted(q0) = 0
  BY <1>1, <1>2, <1>0, OnlyProducer DEF Uncounted, At
<1>8. Uncounted(q0)' = 1
  BY <1>5, <1>6 DEF Uncounted
<1>9. \A q \in Queues \ {q0} : Uncounted(q)' = Uncounted(q)
  BY <1>5, <1>6 DEF Uncounted
<1>10. Len(queue'[q0]) = Len(queue[q0]) + 1 /\ \A q \in Queues \ {q0} : queue'[q] = queue[q]
  BY <1>1, <1>2
<1>11. \A q \in Queues : Len(queue[q]) \in Nat
  BY <1>1
<1>12. \A q \in Queues : Uncounted(q) \in {0, 1} /\ Unsubtracted(q) \in {0, 1}
  BY DEF Uncounted, Unsubtracted
<1>13. SizeAgrees'
  <2> SUFFICES ASSUME NEW q \in Queues
               PROVE  qsize'[q] = Len(queue'[q]) + Unsubtracted(q)' - Uncounted(q)'
    BY DEF SizeAgrees
  <2>1. /\ qsize'[q] = Len(queue[q]) + Unsubtracted(q) - Uncounted(q)
        /\ Unsubtracted(q)' = Unsubtracted(q)
    BY <1>2, <1>4 DEF Counted, SizeAgrees
  <2>2. Len(queue[q]) \in Nat /\ Unsubtracted(q) \in {0, 1} /\ Uncounted(q) \in {0, 1}
    BY <1>11, <1>12
  <2>3. CASE q = q0
    <3>1. Uncounted(q) = 0 /\ Uncounted(q)' = 1 /\ Len(queue'[q]) = Len(queue[q]) + 1
      BY <1>7, <1>8, <1>10, <2>3
    <3>2. QED
      BY <2>1, <2>2, <3>1
  <2>4. CASE q # q0
    BY <1>9, <1>10, <2>1, <2>4
  <2>5. QED
    BY <2>3, <2>4
<1>14. Len(queue[q0]) <= WarningQSize
  <2>1. qsize[q0] <= WarningQSize
    BY <1>0, <1>2 DEF Counted, Admitted
  <2>2. qsize[q0] = Len(queue[q0]) + Unsubtracted(q0)
    BY <1>1, <1>7, <1>11, <1>12 DEF Counted, SizeAgrees
  <2>3. Len(queue[q0]) \in Nat /\ Unsubtracted(q0) \in {0, 1} /\ WarningQSize \in Nat
    BY <1>11, <1>12, ShapeAssumption DEF ShapeAssumption
  <2>4. QED
    BY <2>1, <2>2, <2>3
<1>15. QueueBound'
  BY <1>10, <1>11, <1>14, ShapeAssumption DEF Counted, QueueBound, ShapeAssumption
<1>16. QED
  BY <1>13, <1>15

\* Counting it.
LEMMA IncrementCounted ==
  ASSUME WorkerTypeOK, SizeAgrees, QueueBound, NEW w \in Workers, Increment(w)
  PROVE  SizeAgrees' /\ QueueBound'
<1> USE DEF GoTo
<1>0. PICK q0 \in Queues : q0 = OutQueue(w)
  BY QueueTypes DEF Increment, Sending
<1>1. /\ pc \in [Workers -> Labels] /\ queue \in [Queues -> Seq(Nat \ {None})]
      /\ qsize \in [Queues -> Int] /\ Sending(w)
      /\ port \in [Workers -> Nat]
  BY DEF WorkerTypeOK, VariableTypes, Increment, Sending
<1>2. /\ pc[w] = "increment" /\ queue' = queue /\ qsize' = [qsize EXCEPT ![q0] = @ + 1]
      /\ pc' = [pc EXCEPT ![w] = SendFrom(w, port[w] + 1)]
      /\ port' = [port EXCEPT ![w] = @ + 1]
  BY <1>0 DEF Increment
<1>3. pc'[w] \in {"full", "while"} /\ \A v \in Workers \ {w} : pc'[v] = pc[v] /\ port'[v] = port[v]
  BY <1>1, <1>2, NextLabels
<1>4. \A i \in InPorts : At(i, "decrement")' <=> At(i, "decrement")
  BY <1>2, <1>3, InPortShape DEF At
<1>5. \A q \in Queues : Unsubtracted(q)' = Unsubtracted(q)
  BY <1>4 DEF Unsubtracted
<1>6. \A i \in OutPorts : At(i, "increment")' <=> (At(i, "increment") /\ i # <<w, port[w]>>)
  BY <1>2, <1>3, OutPortShape DEF At
<1>7. <<w, port[w]>> \in OutPorts /\ OutputQueue[<<w, port[w]>>] = q0
  BY <1>0, <1>1 DEF WorkerTypeOK, PortInRange, OutQueue
<1>8. Uncounted(q0) = 1
  BY <1>2, <1>7 DEF Uncounted, At
<1>9. Uncounted(q0)' = 0
  BY <1>1, <1>6, <1>0, OnlyProducer DEF Uncounted
<1>10. \A q \in Queues \ {q0} : Uncounted(q)' = Uncounted(q)
  BY <1>6, <1>7 DEF Uncounted
<1>11. \A q \in Queues : Len(queue[q]) \in Nat
  BY <1>1
<1>12. \A q \in Queues : Uncounted(q) \in {0, 1} /\ Unsubtracted(q) \in {0, 1}
  BY DEF Uncounted, Unsubtracted
<1>13. SizeAgrees'
  <2> SUFFICES ASSUME NEW q \in Queues
               PROVE  qsize'[q] = Len(queue'[q]) + Unsubtracted(q)' - Uncounted(q)'
    BY DEF SizeAgrees
  <2>1. /\ qsize[q] = Len(queue[q]) + Unsubtracted(q) - Uncounted(q)
        /\ Unsubtracted(q)' = Unsubtracted(q) /\ queue' = queue
    BY <1>2, <1>5 DEF SizeAgrees
  <2>2. Len(queue[q]) \in Nat /\ Unsubtracted(q) \in {0, 1} /\ Uncounted(q) \in {0, 1}
    BY <1>11, <1>12
  <2>3. CASE q = q0
    <3>1. Uncounted(q) = 1 /\ Uncounted(q)' = 0 /\ qsize'[q] = qsize[q] + 1
      BY <1>1, <1>2, <1>8, <1>9, <2>3
    <3>2. QED
      BY <2>1, <2>2, <3>1
  <2>4. CASE q # q0
    <3>1. Uncounted(q)' = Uncounted(q) /\ qsize'[q] = qsize[q]
      BY <1>1, <1>2, <1>10, <2>4
    <3>2. QED
      BY <2>1, <3>1
  <2>5. QED
    BY <2>3, <2>4
<1>14. QueueBound'
  BY <1>2 DEF QueueBound
<1>15. QED
  BY <1>13, <1>14

\* Only a producer's own increment raises its counter, and it stands at
\* another place then.
LEMMA AdmittedThread ==
  ASSUME WorkerTypeOK, Admitted, NEW w \in Workers, ThreadStep(w)
  PROVE  Admitted'
<1> USE DEF GoTo
<1>1. /\ pc \in [Workers -> Labels] /\ qsize \in [Queues -> Int] /\ port \in [Workers -> Nat]
  BY DEF WorkerTypeOK, VariableTypes
<1>2. SUFFICES ASSUME NEW v \in Workers, pc'[v] = "enqueue"
               PROVE  qsize'[OutputQueue[<<v, port'[v]>>]] <= WarningQSize
  BY DEF Admitted, OutQueue
<1>3. CASE v = w
  <2>1. ASSUME ~Admit(w) PROVE FALSE
    <3>1. CASE FunctionInit(w) \/ WhileTest(w) \/ Read(w) \/ Cleanup(w)
      BY <1>1, <1>2, <1>3, <3>1
      DEF FunctionInit, WhileTest, ReadFrom, Read, Dequeue, TimedOut, NoData, AfterTimeout,
          Decrement, PortRead, Cleanup
    <3>2. CASE ProcessData(w)
      <4>1. PICK f \in FlagAfter(w) : pc' = [pc EXCEPT ![w] = AfterProcess(w, f)]
        BY <3>2 DEF ProcessData
      <4>2. QED
        BY <1>1, <1>2, <1>3, <4>1 DEF AfterProcess, SendFrom
    <3>3. CASE StopCheck(w) \/ IdleCall(w) \/ SourceCheck(w) \/ Enqueue(w) \/ Increment(w)
      BY <1>1, <1>2, <1>3, <3>3
      DEF StopCheck, IdleCall, AfterProcess, SourceCheck, SendFrom, Enqueue, Increment
    <3>4. QED
      BY <2>1, <3>1, <3>2, <3>3 DEF ThreadStep, Process, Send
  <2>2. Admit(w)
    BY <2>1
  <2>3. QED
    BY <1>3, <2>2 DEF Admit, HasRoom, OutQueue
<1>4. CASE v # w
  <2>1. pc[v] = "enqueue" /\ port'[v] = port[v]
    BY <1>2, <1>4, Locality
  <2>2. PICK q \in Queues : q = OutputQueue[<<v, port[v]>>]
    BY <2>1, QueueTypes DEF Sending, OutQueue
  <2>3. qsize[q] \in Int /\ qsize[q] <= WarningQSize /\ WarningQSize \in Nat
    BY <1>1, <2>1, <2>2, ShapeAssumption DEF Admitted, OutQueue, ShapeAssumption
  <2>4. qsize'[q] <= qsize[q]
    <3>1. CASE Increment(w)
      <4>1. OutQueue(w) # q
        <5>1. <<v, port[v]>> \in OutPorts /\ Sending(w)
          BY <2>1, <3>1 DEF WorkerTypeOK, PortInRange, Sending, Increment
        <5>2. OutputQueue[<<v, port[v]>>] = OutQueue(w) => <<v, port[v]>> = <<w, port[w]>>
          BY <5>1, OnlyProducer
        <5>3. QED
          BY <1>4, <2>2, <5>2
      <4>2. qsize'[q] = qsize[q]
        BY <1>1, <3>1, <4>1 DEF Increment
      <4>3. QED
        BY <2>3, <4>2
    <3>2. CASE Decrement(w)
      <4>1. qsize'[q] = qsize[q] \/ qsize'[q] = qsize[q] - 1
        BY <1>1, <3>2 DEF Decrement
      <4>2. QED
        BY <2>3, <4>1
    <3>3. CASE qsize' = qsize
      BY <2>3, <3>3
    <3>4. QED
      BY <3>1, <3>2, <3>3
      DEF ThreadStep, FunctionInit, WhileTest, Read, Dequeue, TimedOut, NoData, PortRead,
          Process, StopCheck, ProcessData, IdleCall, SourceCheck, Send, Admit, Enqueue, Cleanup
  <2>5. qsize'[q] \in Int
    <3>1. qsize' \in [Queues -> Int]
      BY <1>1 DEF ThreadStep, FunctionInit, WhileTest, Read, Dequeue, TimedOut, NoData,
          Decrement, PortRead, Process, StopCheck, ProcessData, IdleCall, SourceCheck, Send,
          Admit, Enqueue, Increment, Cleanup
    <3>2. QED
      BY <3>1
  <2>6. QED
    BY <2>1, <2>2, <2>3, <2>4, <2>5
<1>5. QED
  BY <1>3, <1>4

LEMMA CountedStep == ASSUME WorkerTypeOK, Counted, WorkerStep PROVE Counted'
<1>1. SizeAgrees /\ QueueBound /\ Admitted /\ pc \in [Workers -> Labels]
  BY DEF Counted, WorkerTypeOK, VariableTypes
<1>2. CASE UNCHANGED workerVars
  <2>1. Quiet
    BY <1>2 DEF workerVars, Quiet, At
  <2>2. Admitted'
    BY <1>1, <1>2 DEF workerVars, Admitted, OutQueue
  <2>3. QED
    BY <1>1, <2>1, <2>2, QuietCounted DEF Counted
<1>3. ASSUME NEW w \in Workers, Spawn(w) \/ Ask(w) PROVE Counted'
  <2>1. /\ queue' = queue /\ qsize' = qsize /\ port' = port
        /\ \A v \in Workers : \A l \in {"enqueue", "decrement", "increment"} :
             pc'[v] = l <=> pc[v] = l
    BY <1>1, <1>3 DEF Spawn, Ask, GoTo
  <2>2. Quiet
    BY <2>1, InPortShape, OutPortShape DEF Quiet, At
  <2>3. Admitted'
    BY <1>1, <2>1 DEF Admitted, OutQueue
  <2>4. QED
    BY <1>1, <2>2, <2>3, QuietCounted DEF Counted
<1>4. ASSUME NEW w \in Workers, ThreadStep(w) PROVE Counted'
  <2>1. SizeAgrees' /\ QueueBound'
    <3>1. CASE Elsewhere(w)
      BY <1>1, <3>1, ElsewhereQuiet, QuietCounted
    <3>2. CASE Dequeue(w) \/ Decrement(w) \/ Enqueue(w) \/ Increment(w)
      BY <1>1, <3>2, DequeueCounted, DecrementCounted, EnqueueCounted, IncrementCounted
      DEF Counted
    <3>3. QED
      BY <1>4, <3>1, <3>2 DEF ThreadStep, Read, Send, Elsewhere
  <2>2. Admitted'
    BY <1>1, <1>4, AdmittedThread
  <2>3. QED
    BY <2>1, <2>2 DEF Counted
<1>5. QED
  BY <1>2, <1>3, <1>4 DEF WorkerStep

-----------------------------------------------------------------------------
(* The theorems.                                                           *)

IInv == TypeOK /\ Complete /\ LateOnce /\ Counted

LEMMA InitIInv == Init => IInv
<1> SUFFICES ASSUME Init PROVE IInv
  OBVIOUS
<1>1. TypeOK
  BY InitType
<1>2. \A w \in Workers : pc[w] = "unborn" /\ late[w] = 0
  BY DEF Init, WorkerInit
<1>3. Complete
  BY <1>2 DEF Complete, CompleteAt, Reading
<1>4. LateOnce
  <2> SUFFICES ASSUME NEW w \in Workers PROVE LateAt(w)
    BY DEF LateOnce
  <2>1. late[w] = 0
    BY <1>2
  <2>2. QED
    BY <2>1 DEF LateAt
<1>5. Admitted
  BY <1>2 DEF Admitted
<1>6. \A q \in Queues : Unsubtracted(q) = 0 /\ Uncounted(q) = 0
  BY <1>2, InPortShape, OutPortShape DEF Unsubtracted, Uncounted, At
<1>7. \A q \in Queues : Len(queue[q]) = 0 /\ qsize[q] = 0
  BY DEF Init, WorkerInit
<1>8. SizeAgrees
  BY <1>6, <1>7 DEF SizeAgrees
<1>9. QueueBound
  BY <1>7, ShapeAssumption DEF QueueBound, ShapeAssumption
<1>10. QED
  BY <1>1, <1>3, <1>4, <1>5, <1>8, <1>9 DEF IInv, Counted

LEMMA StepIInv == IInv /\ [Next]_vars => IInv'
<1> SUFFICES ASSUME IInv, [Next]_vars PROVE IInv'
  OBVIOUS
<1>1. WorkerTypeOK /\ MainTypeOK
  BY DEF IInv, TypeOK, MainTypeOK
<1>2. QED
  BY <1>1, NextStep, TypeStep, CompleteStep, LateStep, CountedStep DEF IInv

LEMMA Inductive == Spec => []IInv
  BY InitIInv, StepIInv, PTL DEF Spec

\* In any graph the threads only ever stand at ports they have, send only
\* real items, and every variable keeps its type.
THEOREM TypeCorrect == Spec => []TypeOK
<1>1. IInv => TypeOK
  BY DEF IInv
<1>2. QED
  BY <1>1, Inductive, PTL

\* In any graph, whatever the interleaving of its threads, the lock-free
\* counter of a queue is wrong by at most the updates under way.
THEOREM CountersAgree == Spec => []SizeAgrees
<1>1. IInv => SizeAgrees
  BY DEF IInv, Counted
<1>2. QED
  BY <1>1, Inductive, PTL

\* In any graph and for any WARNINGQSIZE no queue grows beyond
\* WARNINGQSIZE + 1 items, although addToOutputQueue tests the counter, adds
\* the item and counts it in three separate steps.
THEOREM QueuesBounded == Spec => []QueueBound
<1>1. IInv => QueueBound
  BY DEF IInv, Counted
<1>2. QED
  BY <1>1, Inductive, PTL

\* In any graph no worker calls ProcessData with a null pointer for one of its
\* inputs, wherever in its reading a stop arrives.
THEOREM InputsComplete == Spec => []CompleteInputs
<1>1. IInv => CompleteInputs
  BY DEF IInv, Complete, CompleteAt, CompleteInputs
<1>2. QED
  BY <1>1, Inductive, PTL

\* In any graph a worker begins at most one more call of ProcessData after it
\* was told to stop.
THEOREM OneLateCall == Spec => []AtMostOneLateCall
<1>1. ASSUME IInv PROVE AtMostOneLateCall
  <2> SUFFICES ASSUME NEW w \in Workers PROVE late[w] <= 1
    BY DEF AtMostOneLateCall
  <2>1. late[w] = 0 \/ late[w] = 1
    BY <1>1 DEF IInv, LateOnce, LateAt
  <2>2. QED
    BY <2>1
<1>2. QED
  BY <1>1, Inductive, PTL
=============================================================================
