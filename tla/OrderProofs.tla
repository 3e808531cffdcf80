----------------------------- MODULE OrderProofs ----------------------------
(***************************************************************************)
(* Proofs about the numbers of the items in a graph, for any graph and any *)
(* WARNINGQSIZE.                                                           *)
(*                                                                         *)
(* InOrder: whatever items the blocks drop, the calls of one ProcessData   *)
(* handle items of increasing number.  Its invariant, Ordered, compares    *)
(* along every queue what the reader has taken, what the queue holds and   *)
(* what its writer has sent.                                               *)
(*                                                                         *)
(* Lockstep: if no block drops an item, the n-th call handles the n-th     *)
(* item of every input port.  Its invariant, InStep, counts along every    *)
(* queue what is taken, waits and is sent; Rounds says what a thread holds *)
(* at each place of its loop.                                              *)
(***************************************************************************)
EXTENDS GraphProofs

-----------------------------------------------------------------------------
(* The invariant.                                                          *)

\* A round of reading and processing is under way.
Handling(w) == Reading(w) \/ pc[w] \in {"check", "process"}

\* The item a worker took last from its port 0.
Taken(w) == IF inputs[<<w, 0>>] = None THEN output[w] ELSE inputs[<<w, 0>>]

\* The worker of output port o has still to send its item through this port.
Unsent(o) ==
  \/ pc[o[1]] = "srccheck" /\ flag[o[1]] > 0
  \/ pc[o[1]] \in {"full", "enqueue"} /\ o[2] >= port[o[1]]
  \/ pc[o[1]] = "increment" /\ o[2] > port[o[1]]

\* Number n can have been sent through output port o.
Sent(o, n) == n <= output[o[1]] /\ (Unsent(o) => n < output[o[1]])

\* The items of a queue are in order, and not above what its writer has sent.
Sorted == \A q \in Queues : \A j, k \in DOMAIN queue[q] : j < k => queue[q][j] < queue[q][k]

Behind == \A o \in OutPorts : \A j \in DOMAIN queue[OutputQueue[o]] : Sent(o, queue[OutputQueue[o]][j])

\* The reader of a port 0 has taken what comes before the items of the queue
\* and does not go beyond what the writer has sent.
Ahead ==
  \A v \in Workers : ~Generates(v) =>
    \A j \in DOMAIN queue[InputQueue[<<v, 0>>]] : Taken(v) < queue[InputQueue[<<v, 0>>]][j]

Follows ==
  \A v \in Workers : \A o \in OutPorts :
    ~Generates(v) /\ OutputQueue[o] = InputQueue[<<v, 0>>] => Sent(o, Taken(v))

\* What it has taken but not yet processed is new to it.
FreshAt(v) ==
  /\ output[v] <= Taken(v)
  /\ Handling(v) /\ inputs[<<v, 0>>] # None => output[v] < Taken(v)

Fresh == \A v \in Workers : ~Generates(v) => FreshAt(v)

\* A worker that makes its items numbers them.
Numbered == \A w \in Workers : Generates(w) => output[w] = calls[w]

Ordered == Sorted /\ Behind /\ Ahead /\ Follows /\ Fresh /\ Numbered

-----------------------------------------------------------------------------
(* Steps that move no item.                                                *)

\* A worker that is given its items has a port 0.
LEMMA HasPortZero ==
  ASSUME NEW v \in Workers, ~Generates(v)
  PROVE  <<v, 0>> \in InPorts /\ 0 \in Ins(v) /\ Kind[v] # "source"
  BY PortNumbers, InPortShape DEF Generates

\* What a step leaves alone that neither moves an item nor processes one: a
\* reader may forget its inputs, and it does when it begins a round.
Calm ==
  /\ queue' = queue /\ output' = output /\ calls' = calls
  /\ \A o \in OutPorts : Unsent(o)' => Unsent(o)
  /\ \A v \in Workers : ~Generates(v) =>
       \/ inputs'[<<v, 0>>] = inputs[<<v, 0>>] /\ (Handling(v)' => Handling(v))
       \/ inputs'[<<v, 0>>] = None

\* The numbers of the items are natural numbers.
LEMMA Numbers ==
  ASSUME WorkerTypeOK
  PROVE  /\ \A v \in Workers : output[v] \in Nat /\ calls[v] \in Nat
         /\ \A v \in Workers : ~Generates(v) => inputs[<<v, 0>>] \in Nat /\ Taken(v) \in Nat
         /\ \A q \in Queues : \A j \in DOMAIN queue[q] : queue[q][j] \in Nat \ {None}
         /\ \A i \in InPorts : InputQueue[i] \in Queues
         /\ \A o \in OutPorts : OutputQueue[o] \in Queues /\ o[1] \in Workers
<1>1. /\ output \in [Workers -> Nat] /\ calls \in [Workers -> Nat] /\ inputs \in [InPorts -> Nat]
      /\ queue \in [Queues -> Seq(Nat \ {None})]
  BY DEF WorkerTypeOK, VariableTypes
<1>2. \A q \in Queues : \A j \in DOMAIN queue[q] : queue[q][j] \in Nat \ {None}
  <2> SUFFICES ASSUME NEW q \in Queues, NEW j \in DOMAIN queue[q] PROVE queue[q][j] \in Nat \ {None}
    OBVIOUS
  <2>1. queue[q] \in Seq(Nat \ {None})
    BY <1>1
  <2>2. QED
    BY <2>1
<1>3. \A v \in Workers : ~Generates(v) => inputs[<<v, 0>>] \in Nat /\ Taken(v) \in Nat
  BY <1>1, HasPortZero DEF Taken
<1>4. QED
  BY <1>1, <1>2, <1>3, OutPortShape, WiringAssumption DEF WiringAssumption

LEMMA CalmOrdered ==
  ASSUME WorkerTypeOK, Ordered, Calm
  PROVE  Ordered'
<1>1. \A v \in Workers : ~Generates(v) => Taken(v)' = Taken(v) \/ Taken(v)' = output[v]
  BY DEF Calm, Taken
<1>2. \A v \in Workers : ~Generates(v) => Taken(v)' <= Taken(v) /\ output[v] <= Taken(v)' /\ Taken(v)' \in Nat
  <2> SUFFICES ASSUME NEW v \in Workers, ~Generates(v)
               PROVE  Taken(v)' <= Taken(v) /\ output[v] <= Taken(v)' /\ Taken(v)' \in Nat
    OBVIOUS
  <2>1. output[v] \in Nat /\ Taken(v) \in Nat /\ output[v] <= Taken(v)
    BY Numbers DEF Ordered, Fresh, FreshAt
  <2>2. Taken(v)' = Taken(v) \/ Taken(v)' = output[v]
    BY <1>1
  <2>3. QED
    BY <2>1, <2>2
<1>3. \A o \in OutPorts : \A n : Sent(o, n) => n <= output'[o[1]] /\ (Unsent(o)' => n < output'[o[1]])
  BY DEF Calm, Sent
<1>4. Sorted' /\ Numbered'
  BY DEF Calm, Ordered, Sorted, Numbered, Generates
<1>5. Behind'
  BY <1>3 DEF Calm, Ordered, Behind, Sent
<1>6. Ahead'
  <2> SUFFICES ASSUME NEW v \in Workers, ~Generates(v), NEW j \in DOMAIN queue[InputQueue[<<v, 0>>]]
               PROVE  Taken(v)' < queue[InputQueue[<<v, 0>>]][j]
    BY DEF Calm, Ahead, Generates
  <2>1. Taken(v) < queue[InputQueue[<<v, 0>>]][j] /\ queue[InputQueue[<<v, 0>>]][j] \in Nat
    BY HasPortZero, Numbers DEF Ordered, Ahead
  <2>2. QED
    BY <2>1, <1>2, Numbers
<1>7. Follows'
  <2> SUFFICES ASSUME NEW v \in Workers, ~Generates(v), NEW o \in OutPorts,
                      OutputQueue[o] = InputQueue[<<v, 0>>]
               PROVE  Taken(v)' <= output[o[1]] /\ (Unsent(o) => Taken(v)' < output[o[1]])
    BY DEF Calm, Follows, Sent, Generates
  <2>1. Taken(v) <= output[o[1]] /\ (Unsent(o) => Taken(v) < output[o[1]])
    BY DEF Ordered, Follows, Sent
  <2>2. output[o[1]] \in Nat /\ Taken(v) \in Nat /\ Taken(v)' \in Nat /\ Taken(v)' <= Taken(v)
    BY <1>2, Numbers
  <2>3. QED
    BY <2>1, <2>2
<1>8. Fresh'
  <2> SUFFICES ASSUME NEW v \in Workers, ~Generates(v) PROVE FreshAt(v)'
    BY DEF Fresh, Generates
  <2>1. CASE inputs'[<<v, 0>>] = inputs[<<v, 0>>] /\ (Handling(v)' => Handling(v))
    BY <2>1 DEF Calm, Ordered, Fresh, FreshAt, Taken
  <2>2. CASE inputs'[<<v, 0>>] = None
    BY <1>2, <2>2, Numbers DEF Calm, FreshAt
  <2>3. QED
    BY <2>1, <2>2 DEF Calm
<1>9. QED
  BY <1>4, <1>5, <1>6, <1>7, <1>8 DEF Ordered

\* The steps of a thread that move no item.
MovesNothing(w) ==
  \/ FunctionInit(w) \/ WhileTest(w) \/ TimedOut(w) \/ NoData(w) \/ Decrement(w) \/ PortRead(w)
  \/ StopCheck(w) \/ IdleCall(w) \/ SourceCheck(w) \/ Admit(w) \/ Increment(w) \/ Cleanup(w)

LEMMA MovesNothingCalm ==
  ASSUME WorkerTypeOK, NEW w \in Workers, MovesNothing(w)
  PROVE  Calm
<1> USE DEF GoTo
<1>1. /\ pc \in [Workers -> Labels] /\ port \in [Workers -> Nat] /\ flag \in [Workers -> {0, 1}]
      /\ inputs \in [InPorts -> Nat]
  BY DEF WorkerTypeOK, VariableTypes
<1>2. ThreadStep(w)
  BY DEF MovesNothing, ThreadStep, Read, Process, Send
<1>3. queue' = queue /\ output' = output /\ calls' = calls
  BY DEF MovesNothing, FunctionInit, WhileTest, TimedOut, NoData, Decrement, PortRead, StopCheck,
         IdleCall, SourceCheck, Admit, Increment, Cleanup
<1>4. \A v \in Workers \ {w} : /\ pc'[v] = pc[v] /\ port'[v] = port[v] /\ flag'[v] = flag[v]
                               /\ \A p \in Ins(v) : inputs'[<<v, p>>] = inputs[<<v, p>>]
  BY <1>2, Locality
<1>5. ASSUME NEW o \in OutPorts, Unsent(o)' PROVE Unsent(o)
  <2>1. o[1] \in Workers /\ o[2] \in Nat
    BY OutPortShape, PortNumbers
  <2>2. CASE o[1] # w
    BY <1>4, <1>5, <2>1, <2>2 DEF Unsent
  <2>3. CASE o[1] = w
    <3>0. /\ pc'[w] = "srccheck" => flag'[w] > 0
          /\ pc'[w] \in {"srccheck", "full", "enqueue", "increment"}
      BY <1>5, <2>3 DEF Unsent
    <3>1. CASE FunctionInit(w) \/ WhileTest(w) \/ TimedOut(w) \/ NoData(w) \/ Decrement(w) \/ PortRead(w)
      BY <1>1, <3>0, <3>1
      DEF FunctionInit, WhileTest, ReadFrom, TimedOut, NoData, AfterTimeout, Decrement, PortRead
    <3>2. CASE StopCheck(w) \/ Cleanup(w)
      BY <1>1, <3>0, <3>2 DEF StopCheck, Cleanup
    <3>3. CASE IdleCall(w)
      BY <1>1, <3>0, <3>3 DEF IdleCall, AfterProcess
    <3>4. CASE SourceCheck(w)
      BY <1>1, <3>0, <3>4, <2>3 DEF SourceCheck, SendFrom, Unsent
    <3>5. CASE Admit(w)
      BY <1>1, <1>5, <3>5, <2>3 DEF Admit, Unsent
    <3>6. CASE Increment(w)
      <4>1. pc[w] = "increment" /\ port'[w] = port[w] + 1 /\ pc'[w] \in {"full", "while"}
        BY <1>1, <3>6 DEF Increment, SendFrom
      <4>2. o[2] >= port[w] + 1
        BY <1>5, <2>3, <4>1 DEF Unsent
      <4>3. o[2] > port[w]
        BY <1>1, <2>1, <4>2
      <4>4. QED
        BY <2>3, <4>1, <4>3 DEF Unsent
    <3>7. QED
      BY <3>1, <3>2, <3>3, <3>4, <3>5, <3>6 DEF MovesNothing
  <2>4. QED
    BY <2>2, <2>3
<1>6. ASSUME NEW v \in Workers, ~Generates(v)
      PROVE  \/ inputs'[<<v, 0>>] = inputs[<<v, 0>>] /\ (Handling(v)' => Handling(v))
             \/ inputs'[<<v, 0>>] = None
  <2>1. <<v, 0>> \in InPorts /\ 0 \in Ins(v) /\ Kind[v] # "source"
    BY <1>6, HasPortZero
  <2>2. CASE v # w
    BY <1>4, <2>1, <2>2 DEF Handling, Reading
  <2>3. CASE v = w
    <3>1. CASE WhileTest(w)
      BY <1>1, <2>1, <2>3, <3>1 DEF WhileTest, Handling, Reading
    <3>2. CASE TimedOut(w) \/ NoData(w) \/ Decrement(w) \/ PortRead(w) \/ StopCheck(w) \/ IdleCall(w)
      BY <2>3, <3>2 DEF TimedOut, NoData, Decrement, PortRead, StopCheck, IdleCall, Handling, Reading
    <3>3. CASE FunctionInit(w) \/ SourceCheck(w) \/ Admit(w) \/ Increment(w) \/ Cleanup(w)
      BY <1>1, <2>3, <3>3 DEF FunctionInit, SourceCheck, SendFrom, Admit, Increment, Cleanup, Handling, Reading
    <3>4. QED
      BY <3>1, <3>2, <3>3 DEF MovesNothing
  <2>4. QED
    BY <2>2, <2>3
<1>7. QED
  BY <1>3, <1>5, <1>6 DEF Calm

-----------------------------------------------------------------------------
(* Steps that move an item.                                                *)

\* Processing: the item is new to the worker.
LEMMA NewItem ==
  ASSUME WorkerTypeOK, Complete, Ordered, NEW w \in Workers, ProcessData(w)
  PROVE  /\ output'[w] > output[w] /\ output'[w] \in Nat
         /\ Generates(w) => output'[w] = calls'[w]
         /\ ~Generates(w) => output'[w] = inputs[<<w, 0>>] /\ inputs[<<w, 0>>] # None
<1>1. /\ output \in [Workers -> Nat] /\ calls \in [Workers -> Nat] /\ pc[w] = "process"
      /\ output'[w] = IF Generates(w) THEN calls[w] + 1 ELSE inputs[<<w, 0>>]
      /\ calls'[w] = calls[w] + 1
  BY DEF WorkerTypeOK, VariableTypes, ProcessData
<1>2. CASE Generates(w)
  BY <1>1, <1>2 DEF Ordered, Numbered
<1>3. CASE ~Generates(w)
  <2>1. inputs[<<w, 0>>] # None
    BY <1>1, <1>3, HasPortZero DEF Complete, CompleteAt
  <2>2. output[w] < inputs[<<w, 0>>]
    BY <1>1, <1>3, <2>1 DEF Ordered, Fresh, FreshAt, Handling, Taken
  <2>3. QED
    BY <1>1, <1>3, <2>1, <2>2, Numbers
<1>4. QED
  BY <1>2, <1>3

LEMMA ProcessOrdered ==
  ASSUME WorkerTypeOK, Complete, Ordered, NEW w \in Workers, ProcessData(w)
  PROVE  Ordered'
<1>1. queue' = queue /\ inputs' = inputs
  BY DEF ProcessData
<1>2. \A v \in Workers \ {w} :
        output'[v] = output[v] /\ calls'[v] = calls[v] /\ pc'[v] = pc[v] /\ port'[v] = port[v] /\ flag'[v] = flag[v]
  <2>1. ThreadStep(w)
    BY DEF ThreadStep, Process
  <2>2. calls \in [Workers -> Nat]
    BY DEF WorkerTypeOK, VariableTypes
  <2>3. QED
    BY <2>1, <2>2, Locality DEF ProcessData
<1>3. /\ output'[w] > output[w] /\ output'[w] \in Nat /\ output[w] \in Nat
      /\ Generates(w) => output'[w] = calls'[w]
      /\ ~Generates(w) => output'[w] = inputs[<<w, 0>>] /\ inputs[<<w, 0>>] # None
  BY NewItem, Numbers
<1>4. ~Handling(w)' /\ pc[w] = "process"
  <2>1. PICK f \in FlagAfter(w) : pc' = [pc EXCEPT ![w] = AfterProcess(w, f)]
    BY DEF ProcessData, GoTo
  <2>2. pc \in [Workers -> Labels]
    BY DEF WorkerTypeOK, VariableTypes
  <2>3. QED
    BY <2>1, <2>2 DEF ProcessData, AfterProcess, SendFrom, Handling, Reading
<1>5. \A o \in OutPorts : \A n \in Nat : Sent(o, n) => Sent(o, n)'
  <2> SUFFICES ASSUME NEW o \in OutPorts, NEW n \in Nat, Sent(o, n) PROVE Sent(o, n)'
    BY <1>1
  <2>1. CASE o[1] = w
    BY <1>3, <2>1 DEF Sent
  <2>2. CASE o[1] # w
    BY <1>2, <2>2, OutPortShape DEF Sent, Unsent
  <2>3. QED
    BY <2>1, <2>2
<1>6. \A v \in Workers : ~Generates(v) => Taken(v)' = Taken(v)
  <2> SUFFICES ASSUME NEW v \in Workers, ~Generates(v) PROVE Taken(v)' = Taken(v)
    OBVIOUS
  <2>1. CASE v = w
    BY <1>1, <1>3, <2>1 DEF Taken
  <2>2. CASE v # w
    BY <1>1, <1>2, <2>2 DEF Taken
  <2>3. QED
    BY <2>1, <2>2
<1>7. Sorted' /\ Behind' /\ Ahead'
  <2>1. Sorted'
    BY <1>1 DEF Ordered, Sorted
  <2>2. Behind'
    BY <1>1, <1>5, Numbers DEF Ordered, Behind
  <2>3. Ahead'
    BY <1>1, <1>6 DEF Ordered, Ahead, Generates
  <2>4. QED
    BY <2>1, <2>2, <2>3
<1>8. Follows'
  <2> SUFFICES ASSUME NEW v \in Workers, ~Generates(v), NEW o \in OutPorts,
                      OutputQueue[o] = InputQueue[<<v, 0>>]
               PROVE  Sent(o, Taken(v))'
    BY DEF Follows, Generates
  <2>1. Sent(o, Taken(v)) /\ Taken(v) \in Nat /\ Taken(v)' = Taken(v)
    BY <1>6, Numbers DEF Ordered, Follows
  <2>2. PICK n \in Nat : n = Taken(v)
    BY <2>1
  <2>3. Sent(o, n)'
    BY <1>5, <2>1, <2>2
  <2>4. QED
    BY <2>1, <2>2, <2>3 DEF Sent
<1>9. Fresh'
  <2> SUFFICES ASSUME NEW v \in Workers, ~Generates(v) PROVE FreshAt(v)'
    BY DEF Fresh, Generates
  <2>1. CASE v = w
    BY <1>1, <1>3, <1>4, <2>1 DEF FreshAt, Taken
  <2>2. CASE v # w
    BY <1>1, <1>2, <1>6, <2>2 DEF Ordered, Fresh, FreshAt, Handling, Reading
  <2>3. QED
    BY <2>1, <2>2
<1>10. Numbered'
  BY <1>2, <1>3 DEF Ordered, Numbered, Generates
<1>11. QED
  BY <1>7, <1>8, <1>9, <1>10 DEF Ordered

\* Taking the first item of a queue.
LEMMA DequeueOrdered ==
  ASSUME WorkerTypeOK, Ordered, NEW w \in Workers, Dequeue(w)
  PROVE  Ordered'
<1> DEFINE i0 == <<w, port[w]>>
           q0 == InputQueue[i0]
           n0 == Head(queue[q0])
<1>1. /\ i0 \in InPorts /\ q0 \in Queues /\ q0 = InQueue(w)
      /\ port \in [Workers -> Nat] /\ pc \in [Workers -> Labels]
      /\ queue \in [Queues -> Seq(Nat \ {None})] /\ inputs \in [InPorts -> Nat]
  BY Numbers DEF Dequeue, WorkerTypeOK, VariableTypes, PortInRange, Reading, InQueue
<1>2. /\ pc[w] = "wait" /\ pc'[w] = "decrement" /\ queue[q0] # <<>>
      /\ queue' = [queue EXCEPT ![q0] = Tail(@)] /\ inputs' = [inputs EXCEPT ![i0] = n0]
      /\ output' = output /\ calls' = calls /\ port' = port /\ flag' = flag
  BY <1>1 DEF Dequeue, GoTo
<1>3. \A v \in Workers \ {w} : pc'[v] = pc[v]
  BY <1>1 DEF Dequeue, GoTo
<1>4. \A o \in OutPorts : Unsent(o)' = Unsent(o)
  <2> SUFFICES ASSUME NEW o \in OutPorts PROVE Unsent(o)' = Unsent(o)
    OBVIOUS
  <2>1. CASE o[1] = w
    BY <1>2, <2>1 DEF Unsent
  <2>2. CASE o[1] # w
    BY <1>2, <1>3, <2>2, OutPortShape DEF Unsent
  <2>3. QED
    BY <2>1, <2>2
<1>5. /\ DOMAIN queue'[q0] = 1 .. Len(queue[q0]) - 1 /\ DOMAIN queue[q0] = 1 .. Len(queue[q0])
      /\ Len(queue[q0]) \in Nat \ {0} /\ n0 = queue[q0][1] /\ n0 \in Nat \ {None}
      /\ \A j \in 1 .. Len(queue[q0]) - 1 : queue'[q0][j] = queue[q0][j + 1]
  <2>1. queue[q0] \in Seq(Nat \ {None}) /\ queue[q0] # <<>> /\ queue'[q0] = Tail(queue[q0])
    BY <1>1, <1>2
  <2>2. QED
    BY <2>1
<1>6. \A q \in Queues \ {q0} : queue'[q] = queue[q]
  BY <1>1, <1>2
<1>7. \A q \in Queues : \A j \in DOMAIN queue'[q] : \E k \in DOMAIN queue[q] : queue'[q][j] = queue[q][k]
  <2> SUFFICES ASSUME NEW q \in Queues, NEW j \in DOMAIN queue'[q]
               PROVE  \E k \in DOMAIN queue[q] : queue'[q][j] = queue[q][k]
    OBVIOUS
  <2>1. CASE q = q0
    <3>1. j \in 1 .. Len(queue[q0]) - 1 /\ j + 1 \in DOMAIN queue[q0]
      BY <1>5, <2>1
    <3>2. QED
      BY <1>5, <2>1, <3>1
  <2>2. CASE q # q0
    BY <1>6, <2>2
  <2>3. QED
    BY <2>1, <2>2
<1>8. \A o \in OutPorts : \A n : Sent(o, n)' <=> Sent(o, n)
  BY <1>2, <1>4 DEF Sent
<1>9. \A v \in Workers : ~Generates(v) =>
        IF <<v, 0>> = i0 THEN Taken(v)' = n0 ELSE Taken(v)' = Taken(v) /\ inputs'[<<v, 0>>] = inputs[<<v, 0>>]
  <2> SUFFICES ASSUME NEW v \in Workers, ~Generates(v)
               PROVE  IF <<v, 0>> = i0 THEN Taken(v)' = n0
                      ELSE Taken(v)' = Taken(v) /\ inputs'[<<v, 0>>] = inputs[<<v, 0>>]
    OBVIOUS
  <2>1. <<v, 0>> \in InPorts
    BY HasPortZero
  <2>2. CASE <<v, 0>> = i0
    <3>1. inputs'[<<v, 0>>] = n0
      BY <1>1, <1>2, <2>1, <2>2
    <3>2. QED
      BY <1>5, <2>2, <3>1 DEF Taken
  <2>3. CASE <<v, 0>> # i0
    <3>1. inputs'[<<v, 0>>] = inputs[<<v, 0>>]
      BY <1>1, <1>2, <2>1, <2>3
    <3>2. QED
      BY <1>2, <2>3, <3>1 DEF Taken
  <2>4. QED
    BY <2>2, <2>3
<1> HIDE DEF i0, q0, n0
<1>10. Sorted'
  <2> SUFFICES ASSUME NEW q \in Queues, NEW j \in DOMAIN queue'[q], NEW k \in DOMAIN queue'[q], j < k
               PROVE  queue'[q][j] < queue'[q][k]
    BY DEF Sorted
  <2>1. CASE q = q0
    <3>1. j \in 1 .. Len(queue[q0]) - 1 /\ k \in 1 .. Len(queue[q0]) - 1
      BY <1>5, <2>1
    <3>2. j + 1 \in DOMAIN queue[q0] /\ k + 1 \in DOMAIN queue[q0] /\ j + 1 < k + 1
      BY <1>5, <3>1
    <3>3. queue[q0][j + 1] < queue[q0][k + 1]
      BY <2>1, <3>2 DEF Ordered, Sorted
    <3>4. QED
      BY <1>5, <2>1, <3>1, <3>3
  <2>2. CASE q # q0
    BY <1>6, <2>2 DEF Ordered, Sorted
  <2>3. QED
    BY <2>1, <2>2
<1>11. Behind'
  <2> SUFFICES ASSUME NEW o \in OutPorts, NEW j \in DOMAIN queue'[OutputQueue[o]]
               PROVE  Sent(o, queue[OutputQueue[o]][j])'
    BY DEF Behind
  <2>1. PICK k \in DOMAIN queue[OutputQueue[o]] : queue'[OutputQueue[o]][j] = queue[OutputQueue[o]][k]
    BY <1>7, Numbers
  <2>2. Sent(o, queue[OutputQueue[o]][k])
    BY DEF Ordered, Behind
  <2>3. QED
    BY <1>2, <1>4, <2>1, <2>2 DEF Sent
<1>12. Ahead'
  <2> SUFFICES ASSUME NEW v \in Workers, ~Generates(v), NEW j \in DOMAIN queue'[InputQueue[<<v, 0>>]]
               PROVE  Taken(v)' < queue'[InputQueue[<<v, 0>>]][j]
    BY DEF Ahead, Generates
  <2>1. CASE <<v, 0>> = i0
    <3>1. InputQueue[<<v, 0>>] = q0 /\ Taken(v)' = n0
      BY <1>9, <2>1 DEF q0
    <3>2. j \in 1 .. Len(queue[q0]) - 1 /\ 1 \in DOMAIN queue[q0] /\ j + 1 \in DOMAIN queue[q0] /\ 1 < j + 1
      BY <1>5, <3>1
    <3>3. queue[q0][1] < queue[q0][j + 1]
      BY <1>1, <3>2 DEF Ordered, Sorted
    <3>4. QED
      BY <1>5, <3>1, <3>2, <3>3
  <2>2. CASE <<v, 0>> # i0
    <3>1. PICK k \in DOMAIN queue[InputQueue[<<v, 0>>]] :
            queue'[InputQueue[<<v, 0>>]][j] = queue[InputQueue[<<v, 0>>]][k]
      BY <1>7, HasPortZero, Numbers
    <3>2. QED
      BY <1>9, <2>2, <3>1 DEF Ordered, Ahead
  <2>3. QED
    BY <2>1, <2>2
<1>13. Follows'
  <2> SUFFICES ASSUME NEW v \in Workers, ~Generates(v), NEW o \in OutPorts,
                      OutputQueue[o] = InputQueue[<<v, 0>>]
               PROVE  Sent(o, Taken(v))'
    BY DEF Follows, Generates
  <2>1. CASE <<v, 0>> = i0
    <3>1. OutputQueue[o] = q0 /\ Taken(v)' = n0
      BY <1>9, <2>1 DEF q0
    <3>2. Sent(o, n0)
      <4>1. 1 \in DOMAIN queue[q0]
        BY <1>5
      <4>2. QED
        BY <1>5, <3>1, <4>1 DEF Ordered, Behind
    <3>3. QED
      BY <1>2, <1>4, <3>1, <3>2 DEF Sent
  <2>2. CASE <<v, 0>> # i0
    <3>1. Taken(v)' = Taken(v) /\ Sent(o, Taken(v))
      BY <1>9, <2>2 DEF Ordered, Follows
    <3>2. QED
      BY <1>2, <1>4, <3>1 DEF Sent
  <2>3. QED
    BY <2>1, <2>2
<1>14. Fresh'
  <2> SUFFICES ASSUME NEW v \in Workers, ~Generates(v) PROVE FreshAt(v)'
    BY DEF Fresh, Generates
  <2>1. CASE <<v, 0>> = i0
    <3>1. Taken(v) < n0 /\ output[v] <= Taken(v)
      <4>1. 1 \in DOMAIN queue[InputQueue[<<v, 0>>]] /\ n0 = queue[InputQueue[<<v, 0>>]][1]
        BY <1>5, <2>1 DEF q0
      <4>2. QED
        BY <4>1 DEF Ordered, Ahead, Fresh, FreshAt
    <3>2. output[v] < n0
      <4>1. output[v] \in Nat /\ Taken(v) \in Nat /\ n0 \in Nat
        BY <1>5, Numbers
      <4>2. QED
        BY <3>1, <4>1
    <3>3. QED
      BY <1>2, <1>5, <1>9, <2>1, <3>2, Numbers DEF FreshAt
  <2>2. CASE <<v, 0>> # i0
    <3>1. Handling(v)' <=> Handling(v)
      BY <1>2, <1>3 DEF Handling, Reading
    <3>2. QED
      BY <1>2, <1>9, <2>2, <3>1 DEF Ordered, Fresh, FreshAt
  <2>3. QED
    BY <2>1, <2>2
<1>15. Numbered'
  BY <1>2 DEF Ordered, Numbered, Generates
<1>16. QED
  BY <1>10, <1>11, <1>12, <1>13, <1>14, <1>15 DEF Ordered

\* Adding an item: it comes after all that are there.
LEMMA EnqueueOrdered ==
  ASSUME WorkerTypeOK, Ordered, NEW w \in Workers, Enqueue(w)
  PROVE  Ordered'
<1> DEFINE o0 == <<w, port[w]>>
           q0 == OutputQueue[o0]
           n0 == output[w]
<1>1. /\ o0 \in OutPorts /\ q0 \in Queues /\ q0 = OutQueue(w) /\ o0[1] = w /\ o0[2] = port[w]
      /\ port \in [Workers -> Nat] /\ pc \in [Workers -> Labels] /\ n0 \in Nat
      /\ queue \in [Queues -> Seq(Nat \ {None})] /\ n0 \in Nat \ {None}
  BY Numbers DEF Enqueue, WorkerTypeOK, VariableTypes, PortInRange, Sending, OutQueue
<1>2. /\ pc[w] = "enqueue" /\ pc'[w] = "increment"
      /\ queue' = [queue EXCEPT ![q0] = Append(@, n0)]
      /\ inputs' = inputs /\ output' = output /\ calls' = calls /\ port' = port /\ flag' = flag
  BY <1>1 DEF Enqueue, GoTo
<1>3. \A v \in Workers \ {w} : pc'[v] = pc[v]
  BY <1>1 DEF Enqueue, GoTo
<1>4. Unsent(o0) /\ (\A o \in OutPorts : o = o0 => ~Unsent(o)') /\ \A o \in OutPorts : Unsent(o)' => Unsent(o)
  <2>1. Unsent(o0)
    BY <1>1, <1>2 DEF Unsent
  <2>2. \A o \in OutPorts : o = o0 => ~Unsent(o)'
    BY <1>1, <1>2 DEF Unsent
  <2>3. ASSUME NEW o \in OutPorts, Unsent(o)' PROVE Unsent(o)
    <3>1. CASE o[1] = w
      <4>1. o[2] > port[w] /\ o[2] \in Nat /\ port[w] \in Nat
        BY <1>1, <1>2, <2>3, <3>1, OutPortShape, PortNumbers DEF Unsent
      <4>2. QED
        BY <1>2, <3>1, <4>1 DEF Unsent
    <3>2. CASE o[1] # w
      BY <1>2, <1>3, <2>3, <3>2, OutPortShape DEF Unsent
    <3>3. QED
      BY <3>1, <3>2
  <2>4. QED
    BY <2>1, <2>2, <2>3
<1>5. \A o \in OutPorts : OutputQueue[o] = q0 => o = o0
  BY <1>1, WiringAssumption DEF WiringAssumption
<1>6. /\ DOMAIN queue'[q0] = 1 .. Len(queue[q0]) + 1 /\ DOMAIN queue[q0] = 1 .. Len(queue[q0])
      /\ Len(queue[q0]) \in Nat /\ queue'[q0][Len(queue[q0]) + 1] = n0
      /\ \A j \in 1 .. Len(queue[q0]) : queue'[q0][j] = queue[q0][j]
  <2>1. queue[q0] \in Seq(Nat \ {None}) /\ queue'[q0] = Append(queue[q0], n0)
    BY <1>1, <1>2
  <2>2. QED
    BY <2>1
<1>7. \A q \in Queues \ {q0} : queue'[q] = queue[q]
  BY <1>1, <1>2
<1>8. \A j \in DOMAIN queue[q0] : queue[q0][j] < n0
  BY <1>1, <1>4 DEF Ordered, Behind, Sent
<1>9. \A v \in Workers : (~Generates(v) => Taken(v)' = Taken(v)) /\ (Handling(v)' <=> Handling(v))
  BY <1>2, <1>3 DEF Taken, Handling, Reading
<1>10. \A q \in Queues : \A j \in DOMAIN queue'[q] :
         \/ j \in DOMAIN queue[q] /\ queue'[q][j] = queue[q][j]
         \/ q = q0 /\ j = Len(queue[q0]) + 1 /\ queue'[q][j] = n0
  <2> SUFFICES ASSUME NEW q \in Queues, NEW j \in DOMAIN queue'[q]
               PROVE  \/ j \in DOMAIN queue[q] /\ queue'[q][j] = queue[q][j]
                      \/ q = q0 /\ j = Len(queue[q0]) + 1 /\ queue'[q][j] = n0
    OBVIOUS
  <2>1. CASE q = q0
    <3>1. j \in 1 .. Len(queue[q0]) + 1
      BY <1>6, <2>1
    <3>2. j \in 1 .. Len(queue[q0]) \/ j = Len(queue[q0]) + 1
      BY <1>6, <3>1
    <3>3. QED
      BY <1>6, <2>1, <3>2
  <2>2. CASE q # q0
    BY <1>7, <2>2
  <2>3. QED
    BY <2>1, <2>2
<1> HIDE DEF o0, q0, n0
<1>11. Sorted'
  <2> SUFFICES ASSUME NEW q \in Queues, NEW j \in DOMAIN queue'[q], NEW k \in DOMAIN queue'[q], j < k
               PROVE  queue'[q][j] < queue'[q][k]
    BY DEF Sorted
  <2>1. CASE q = q0
    <3>1. j \in 1 .. Len(queue[q0]) + 1 /\ k \in 1 .. Len(queue[q0]) + 1
      BY <1>6, <2>1
    <3>2. j \in DOMAIN queue[q0] /\ queue'[q0][j] = queue[q0][j]
      BY <1>6, <3>1
    <3>3. CASE k = Len(queue[q0]) + 1
      BY <1>6, <1>8, <2>1, <3>2, <3>3
    <3>4. CASE k \in 1 .. Len(queue[q0])
      BY <1>1, <1>6, <2>1, <3>2, <3>4 DEF Ordered, Sorted
    <3>5. QED
      BY <1>6, <3>1, <3>3, <3>4
  <2>2. CASE q # q0
    BY <1>7, <2>2 DEF Ordered, Sorted
  <2>3. QED
    BY <2>1, <2>2
<1>12. Behind'
  <2> SUFFICES ASSUME NEW o \in OutPorts, NEW j \in DOMAIN queue'[OutputQueue[o]]
               PROVE  Sent(o, queue[OutputQueue[o]][j])'
    BY DEF Behind
  <2>1. CASE j \in DOMAIN queue[OutputQueue[o]] /\ queue'[OutputQueue[o]][j] = queue[OutputQueue[o]][j]
    <3>1. Sent(o, queue[OutputQueue[o]][j])
      BY <2>1 DEF Ordered, Behind
    <3>2. QED
      BY <1>2, <1>4, <2>1, <3>1 DEF Sent
  <2>2. CASE OutputQueue[o] = q0 /\ queue'[OutputQueue[o]][j] = n0
    <3>1. o = o0
      BY <1>5, <2>2
    <3>2. ~Unsent(o)'
      BY <1>4, <3>1
    <3>3. output'[o[1]] = n0
      BY <1>1, <1>2, <3>1 DEF n0
    <3>4. QED
      BY <1>1, <2>2, <3>2, <3>3 DEF Sent
  <2>3. QED
    BY <1>10, <2>1, <2>2, Numbers
<1>13. Ahead'
  <2> SUFFICES ASSUME NEW v \in Workers, ~Generates(v), NEW j \in DOMAIN queue'[InputQueue[<<v, 0>>]]
               PROVE  Taken(v) < queue'[InputQueue[<<v, 0>>]][j]
    BY <1>9 DEF Ahead, Generates
  <2>1. InputQueue[<<v, 0>>] \in Queues
    BY HasPortZero, Numbers
  <2>2. CASE j \in DOMAIN queue[InputQueue[<<v, 0>>]]
               /\ queue'[InputQueue[<<v, 0>>]][j] = queue[InputQueue[<<v, 0>>]][j]
    BY <2>2 DEF Ordered, Ahead
  <2>3. CASE InputQueue[<<v, 0>>] = q0 /\ queue'[InputQueue[<<v, 0>>]][j] = n0
    <3>1. Sent(o0, Taken(v))
      BY <1>1, <2>3 DEF Ordered, Follows, q0
    <3>2. QED
      BY <1>1, <1>4, <2>3, <3>1 DEF Sent, n0
  <2>4. QED
    BY <1>10, <2>1, <2>2, <2>3
<1>14. Follows'
  <2> SUFFICES ASSUME NEW v \in Workers, ~Generates(v), NEW o \in OutPorts,
                      OutputQueue[o] = InputQueue[<<v, 0>>]
               PROVE  Sent(o, Taken(v))'
    BY DEF Follows, Generates
  <2>1. Sent(o, Taken(v))
    BY DEF Ordered, Follows
  <2>2. QED
    BY <1>2, <1>4, <1>9, <2>1 DEF Sent
<1>15. Fresh'
  BY <1>2, <1>9 DEF Ordered, Fresh, FreshAt, Generates
<1>16. Numbered'
  BY <1>2 DEF Ordered, Numbered, Generates
<1>17. QED
  BY <1>11, <1>12, <1>13, <1>14, <1>15, <1>16 DEF Ordered

-----------------------------------------------------------------------------
(* The theorem.                                                            *)

LEMMA InitOrdered == Init => Ordered
<1> SUFFICES ASSUME Init PROVE Ordered
  OBVIOUS
<1>1. /\ \A q \in Queues : queue[q] = <<>>
      /\ \A w \in Workers : output[w] = 0 /\ calls[w] = 0 /\ pc[w] = "unborn"
      /\ \A i \in InPorts : inputs[i] = None
  BY DEF Init, WorkerInit, None
<1>2. Sorted /\ Numbered
  BY <1>1 DEF Sorted, Numbered
<1>3. Behind
  BY <1>1, WiringAssumption DEF Behind, WiringAssumption
<1>4. \A v \in Workers : ~Generates(v) => Taken(v) = 0
  BY <1>1, HasPortZero DEF Taken
<1>5. Ahead
  BY <1>1, HasPortZero, WiringAssumption DEF Ahead, WiringAssumption
<1>6. Follows
  BY <1>1, <1>4, OutPortShape DEF Follows, Sent, Unsent
<1>7. Fresh
  BY <1>1, <1>4, HasPortZero DEF Fresh, FreshAt
<1>8. QED
  BY <1>2, <1>3, <1>5, <1>6, <1>7 DEF Ordered

LEMMA OrderedStep == ASSUME WorkerTypeOK, Complete, Ordered, WorkerStep PROVE Ordered'
<1>1. CASE UNCHANGED workerVars
  <2>1. Calm
    BY <1>1 DEF workerVars, Calm, Unsent, Handling, Reading
  <2>2. QED
    BY <2>1, CalmOrdered
<1>2. ASSUME NEW w \in Workers, Spawn(w) \/ Ask(w) PROVE Ordered'
  <2>1. pc \in [Workers -> Labels]
    BY DEF WorkerTypeOK, VariableTypes
  <2>2. /\ queue' = queue /\ output' = output /\ calls' = calls /\ port' = port /\ inputs' = inputs
        /\ flag' = flag
        /\ \A v \in Workers : pc'[v] = pc[v] \/ (pc[v] = "unborn" /\ pc'[v] = "init")
    BY <1>2, <2>1 DEF Spawn, Ask, GoTo
  <2>3. Calm
    BY <2>2, OutPortShape DEF Calm, Unsent, Handling, Reading
  <2>4. QED
    BY <2>3, CalmOrdered
<1>3. ASSUME NEW w \in Workers, ThreadStep(w) PROVE Ordered'
  <2>1. CASE MovesNothing(w)
    BY <2>1, MovesNothingCalm, CalmOrdered
  <2>2. CASE Dequeue(w) \/ ProcessData(w) \/ Enqueue(w)
    BY <2>2, DequeueOrdered, ProcessOrdered, EnqueueOrdered
  <2>3. QED
    BY <1>3, <2>1, <2>2 DEF ThreadStep, Read, Process, Send, MovesNothing
<1>4. QED
  BY <1>1, <1>2, <1>3 DEF WorkerStep

LEMMA AlwaysOrdered == Spec => []Ordered
<1>1. IInv /\ Ordered /\ [Next]_vars => Ordered'
  BY NextStep, OrderedStep DEF IInv, TypeOK, MainTypeOK
<1>2. QED
  BY InitOrdered, <1>1, Inductive, PTL DEF Spec

\* Only ProcessData counts a call.
LEMMA CallStep ==
  ASSUME WorkerTypeOK, WorkerStep, NEW w \in Workers, calls'[w] # calls[w]
  PROVE  ProcessData(w)
<1>1. calls \in [Workers -> Nat]
  BY DEF WorkerTypeOK, VariableTypes
<1>2. CASE UNCHANGED workerVars
  BY <1>2 DEF workerVars
<1>3. CASE \E v \in Workers : Spawn(v) \/ Ask(v)
  BY <1>3 DEF Spawn, Ask
<1>4. ASSUME NEW v \in Workers, ThreadStep(v) PROVE ProcessData(w)
  <2>1. ProcessData(v)
    BY <1>4 DEF ThreadStep, FunctionInit, WhileTest, Read, Dequeue, TimedOut, NoData, Decrement,
        PortRead, Process, StopCheck, IdleCall, SourceCheck, Send, Admit, Enqueue, Increment, Cleanup
  <2>2. v = w
    BY <1>1, <2>1 DEF ProcessData
  <2>3. QED
    BY <2>1, <2>2
<1>5. QED
  BY <1>2, <1>3, <1>4 DEF WorkerStep

\* In any graph, with whatever a block drops and wherever a stop arrives, the
\* calls of a ProcessData handle items of increasing number: no item is
\* delivered twice and none overtakes another.
THEOREM ItemsInOrder == Spec => InOrder
<1>1. ASSUME IInv, Ordered, [Next]_vars
      PROVE  \A w \in Workers : calls'[w] # calls[w] => output'[w] > output[w]
  <2> SUFFICES ASSUME NEW w \in Workers, calls'[w] # calls[w] PROVE output'[w] > output[w]
    OBVIOUS
  <2>1. ProcessData(w)
    BY <1>1, NextStep, CallStep DEF IInv, TypeOK, MainTypeOK
  <2>2. QED
    BY <1>1, <2>1, NewItem DEF IInv, TypeOK
<1>2. QED
  BY <1>1, Inductive, AlwaysOrdered, PTL DEF Spec, InOrder

-----------------------------------------------------------------------------
(* Where the thread of a worker is, and what its vector of inputs holds.   *)

Ended(w) == pc[w] \in {"cleanup", "done"}

\* A source reads nothing; only a source has the stop test after ProcessData;
\* the ports that are not read yet have delivered nothing; no worker ends that
\* was not told to; and a sink sends nothing.
RoundAt(w) ==
  /\ Kind[w] = "source" => ~Reading(w) /\ pc[w] # "check" /\ \A p \in Ins(w) : inputs[<<w, p>>] = None
  /\ pc[w] = "srccheck" => Kind[w] = "source"
  /\ Reading(w) => \A p \in Ins(w) : p > port[w] => inputs[<<w, p>>] = None
  /\ pc[w] \in {"wait", "nodata"} => inputs[<<w, port[w]>>] = None
  /\ Ended(w) => stop[w]
  /\ Kind[w] = "sink" => ~Sending(w)

Rounds == \A w \in Workers : RoundAt(w)

\* A thread's own steps.
LEMMA RoundThread ==
  ASSUME WorkerTypeOK, NEW w \in Workers, RoundAt(w), ThreadStep(w)
  PROVE  RoundAt(w)'
<1> USE DEF GoTo
<1>1. /\ pc \in [Workers -> Labels] /\ port \in [Workers -> Nat] /\ inputs \in [InPorts -> Nat]
      /\ Ins(w) \subseteq Nat /\ stop' = stop
      /\ \A p \in Ins(w) : <<w, p>> \in InPorts
  BY PortNumbers, Locality, InPortShape DEF WorkerTypeOK, VariableTypes
<1>2. CASE WhileTest(w)
  <2>1. CASE stop[w] \/ Kind[w] = "source"
    BY <1>1, <1>2, <2>1 DEF WhileTest, RoundAt, Reading, Sending, Ended
  <2>2. CASE ~stop[w] /\ Kind[w] # "source"
    <3>1. \A p \in Ins(w) : inputs'[<<w, p>>] = None
      BY <1>1, <1>2, <2>2 DEF WhileTest
    <3>2. pc'[w] = ReadFrom(w, 0) /\ port'[w] = 0
      BY <1>1, <1>2, <2>2 DEF WhileTest
    <3>3. QED
      BY <1>1, <2>2, <3>1, <3>2 DEF ReadFrom, RoundAt, Reading, Sending, Ended
  <2>3. QED
    BY <2>1, <2>2
<1>3. CASE Dequeue(w)
  <2>1. /\ pc[w] = "wait" /\ pc'[w] = "decrement" /\ port' = port
        /\ \A p \in Ins(w) : p # port[w] => inputs'[<<w, p>>] = inputs[<<w, p>>]
    BY <1>1, <1>3 DEF Dequeue
  <2>2. \A p \in Ins(w) : p > port[w] => inputs'[<<w, p>>] = None
    BY <1>1, <2>1 DEF RoundAt, Reading
  <2>3. QED
    BY <1>1, <2>1, <2>2 DEF RoundAt, Reading, Sending, Ended
<1>4. CASE TimedOut(w) \/ NoData(w) \/ Decrement(w)
  BY <1>1, <1>4 DEF TimedOut, NoData, AfterTimeout, Decrement, RoundAt, Reading, Sending, Ended
<1>5. CASE PortRead(w)
  <2>1. CASE stop[w]
    BY <1>1, <1>5, <2>1 DEF PortRead, RoundAt, Reading, Sending, Ended
  <2>2. CASE ~stop[w]
    <3>1. /\ pc[w] = "read" /\ pc'[w] = ReadFrom(w, port[w] + 1) /\ port'[w] = port[w] + 1
          /\ inputs' = inputs
      BY <1>1, <1>5, <2>2 DEF PortRead
    <3>2. port[w] \in Nat /\ \A p \in Ins(w) : p > port[w] => inputs[<<w, p>>] = None
      BY <1>1, <3>1 DEF RoundAt, Reading
    <3>3. \A p \in Ins(w) : p >= port[w] + 1 => inputs[<<w, p>>] = None
      BY <1>1, <3>2
    <3>4. QED
      BY <1>1, <3>1, <3>2, <3>3 DEF ReadFrom, RoundAt, Reading, Sending, Ended
  <2>3. QED
    BY <2>1, <2>2
<1>6. CASE StopCheck(w)
  BY <1>1, <1>6 DEF StopCheck, RoundAt, Reading, Sending, Ended
<1>7. CASE ProcessData(w)
  <2>1. PICK f \in FlagAfter(w) : pc' = [pc EXCEPT ![w] = AfterProcess(w, f)]
    BY <1>7 DEF ProcessData
  <2>2. /\ pc'[w] \in {"srccheck", "while", "full"} /\ (pc'[w] = "srccheck" => Kind[w] = "source")
        /\ inputs' = inputs /\ (Kind[w] = "sink" => pc'[w] = "while")
    BY <1>1, <1>7, <2>1 DEF AfterProcess, SendFrom, ProcessData
  <2>3. QED
    BY <2>2 DEF RoundAt, Reading, Sending, Ended
<1>8. CASE IdleCall(w)
  BY <1>1, <1>8 DEF IdleCall, AfterProcess, RoundAt, Reading, Sending, Ended
<1>9. CASE SourceCheck(w)
  BY <1>1, <1>9 DEF SourceCheck, SendFrom, RoundAt, Reading, Sending, Ended
<1>10. CASE Send(w)
  BY <1>1, <1>10 DEF Send, Admit, Enqueue, Increment, SendFrom, RoundAt, Reading, Sending, Ended
<1>11. CASE FunctionInit(w) \/ Cleanup(w)
  BY <1>1, <1>11 DEF FunctionInit, Cleanup, RoundAt, Reading, Sending, Ended
<1>12. QED
  BY <1>2, <1>3, <1>4, <1>5, <1>6, <1>7, <1>8, <1>9, <1>10, <1>11 DEF ThreadStep, Read, Process

\* The others do not touch what it is about.
LEMMA RoundFrame ==
  ASSUME WorkerTypeOK, NEW v \in Workers, RoundAt(v), stop[v] => stop'[v],
         pc'[v] = pc[v], port'[v] = port[v],
         \A p \in Ins(v) : inputs'[<<v, p>>] = inputs[<<v, p>>]
  PROVE  RoundAt(v)'
<1>1. Reading(v) => port[v] \in Ins(v)
  BY InPortShape DEF WorkerTypeOK, PortInRange
<1>2. QED
  BY <1>1 DEF RoundAt, Reading, Sending, Ended

LEMMA RoundsStep == ASSUME WorkerTypeOK, Rounds, WorkerStep PROVE Rounds'
<1> SUFFICES ASSUME NEW v \in Workers PROVE RoundAt(v)'
  BY DEF Rounds
<1>1. RoundAt(v) /\ pc \in [Workers -> Labels] /\ stop \in [Workers -> BOOLEAN]
  BY DEF Rounds, WorkerTypeOK, VariableTypes
<1>2. CASE UNCHANGED workerVars
  BY <1>1, <1>2, RoundFrame DEF workerVars
<1>3. ASSUME NEW w \in Workers, Spawn(w) PROVE RoundAt(v)'
  <2>1. CASE v = w
    BY <1>1, <1>3, <2>1 DEF Spawn, GoTo, RoundAt, Reading, Sending, Ended
  <2>2. CASE v # w
    BY <1>1, <1>3, <2>2, RoundFrame DEF Spawn, GoTo
  <2>3. QED
    BY <2>1, <2>2
<1>4. ASSUME NEW w \in Workers, Ask(w) PROVE RoundAt(v)'
  <2>1. stop[v] => stop'[v]
    BY <1>1, <1>4 DEF Ask
  <2>2. QED
    BY <1>1, <1>4, <2>1, RoundFrame DEF Ask
<1>5. ASSUME NEW w \in Workers, ThreadStep(w) PROVE RoundAt(v)'
  <2>1. CASE v = w
    BY <1>1, <1>5, <2>1, RoundThread
  <2>2. CASE v # w
    BY <1>1, <1>5, <2>2, Locality, RoundFrame
  <2>3. QED
    BY <2>1, <2>2
<1>6. QED
  BY <1>2, <1>3, <1>4, <1>5 DEF WorkerStep

LEMMA InitRounds == Init => Rounds
<1> SUFFICES ASSUME Init, NEW w \in Workers PROVE RoundAt(w)
  BY DEF Rounds
<1>1. pc[w] = "unborn" /\ \A p \in Ins(w) : inputs[<<w, p>>] = None
  BY InPortShape DEF Init, WorkerInit
<1>2. QED
  BY <1>1 DEF RoundAt, Reading, Sending, Ended

LEMMA AlwaysRounds == Spec => []Rounds
<1>1. IInv /\ Rounds /\ [Next]_vars => Rounds'
  BY NextStep, RoundsStep DEF IInv, TypeOK, MainTypeOK
<1>2. QED
  BY InitRounds, <1>1, Inductive, PTL DEF Spec

-----------------------------------------------------------------------------
(* Items in hand.                                                          *)

\* Read through port i and not yet processed.
InHand(i) == Handling(i[1]) /\ inputs[i] # None

\* Read through port i, or made for port o, by a worker that has ended.
LeftIn(i)  == Kind[i[1]] # "source" /\ Ended(i[1])
LeftOut(o) == Kind[o[1]] = "source" /\ Ended(o[1])

\* What a step that moves no item does to who holds what: an item in hand stays
\* in hand, or is left behind as its worker ends.
Still ==
  /\ queue' = queue /\ output' = output
  /\ \A i \in InPorts :
       /\ InHand(i)' => InHand(i) /\ inputs'[i] = inputs[i]
       /\ InHand(i) \/ LeftIn(i) => (InHand(i)' \/ LeftIn(i)') /\ inputs'[i] = inputs[i]
  /\ \A o \in OutPorts :
       /\ Unsent(o)' => Unsent(o)
       /\ Unsent(o) \/ LeftOut(o) => Unsent(o)' \/ LeftOut(o)'

\* A worker that a step of another one leaves alone.
LEMMA StillFrame ==
  ASSUME NEW v \in Workers, pc'[v] = pc[v], port'[v] = port[v], flag'[v] = flag[v],
         \A p \in Ins(v) : inputs'[<<v, p>>] = inputs[<<v, p>>]
  PROVE  /\ \A i \in InPorts : i[1] = v =>
              /\ InHand(i)' = InHand(i) /\ LeftIn(i)' = LeftIn(i) /\ inputs'[i] = inputs[i]
         /\ \A o \in OutPorts : o[1] = v => Unsent(o)' = Unsent(o) /\ LeftOut(o)' = LeftOut(o)
<1>1. \A i \in InPorts : i[1] = v => inputs'[i] = inputs[i]
  BY InPortShape
<1>2. QED
  BY <1>1 DEF InHand, LeftIn, Unsent, LeftOut, Handling, Reading, Ended

\* What the steps of w that move no item do at its input ports ...
LEMMA StillInputs ==
  ASSUME WorkerTypeOK, NEW w \in Workers, RoundAt(w), MovesNothing(w), NEW i \in InPorts, i[1] = w
  PROVE  /\ InHand(i)' => InHand(i) /\ inputs'[i] = inputs[i]
         /\ InHand(i) \/ LeftIn(i) => (InHand(i)' \/ LeftIn(i)') /\ inputs'[i] = inputs[i]
<1> USE DEF GoTo
<1>1. /\ pc \in [Workers -> Labels] /\ inputs \in [InPorts -> Nat]
      /\ i[2] \in Ins(w) /\ i = <<w, i[2]>>
  BY InPortShape DEF WorkerTypeOK, VariableTypes
<1>2. CASE WhileTest(w)
  <2>1. ~InHand(i) /\ ~LeftIn(i)
    BY <1>2 DEF WhileTest, InHand, LeftIn, Handling, Reading, Ended
  <2>2. ~InHand(i)'
    <3>1. CASE stop[w]
      BY <1>1, <1>2, <3>1 DEF WhileTest, InHand, Handling, Reading
    <3>2. CASE Kind[w] = "source"
      <4>1. inputs'[i] = None
        BY <1>1, <1>2, <3>2 DEF WhileTest, RoundAt
      <4>2. QED
        BY <4>1 DEF InHand
    <3>3. CASE ~stop[w] /\ Kind[w] # "source"
      <4>1. inputs'[i] = None
        BY <1>1, <1>2, <3>3 DEF WhileTest
      <4>2. QED
        BY <4>1 DEF InHand
    <3>4. QED
      BY <3>1, <3>2, <3>3
  <2>3. QED
    BY <2>1, <2>2
<1>3. CASE TimedOut(w) \/ NoData(w) \/ Decrement(w) \/ PortRead(w)
  <2>1. inputs' = inputs /\ Reading(w)
    BY <1>3 DEF TimedOut, NoData, Decrement, PortRead, Reading
  <2>2. Handling(w)'
    BY <1>1, <1>3 DEF TimedOut, NoData, AfterTimeout, Decrement, PortRead, ReadFrom, Handling, Reading
  <2>3. QED
    BY <2>1, <2>2 DEF InHand, LeftIn, Handling, Reading, Ended
<1>4. CASE StopCheck(w)
  <2>1. /\ inputs' = inputs /\ pc[w] = "check" /\ pc'[w] \in {"cleanup", "process"}
        /\ Kind[w] # "source"
    BY <1>1, <1>4 DEF StopCheck, RoundAt
  <2>2. QED
    BY <2>1 DEF InHand, LeftIn, Handling, Reading, Ended
<1>5. CASE IdleCall(w)
  <2>1. /\ pc[w] = "process" /\ inputs' = inputs /\ Generates(w)
        /\ pc'[w] \in {"srccheck", "while"}
    BY <1>1, <1>5 DEF IdleCall, CallBound, AfterProcess
  <2>2. inputs[i] = None
    BY <1>1, <2>1 DEF Generates, RoundAt
  <2>3. QED
    BY <2>1, <2>2 DEF InHand, LeftIn, Handling, Reading, Ended
<1>6. CASE FunctionInit(w) \/ SourceCheck(w) \/ Admit(w) \/ Increment(w) \/ Cleanup(w)
  BY <1>1, <1>6 DEF FunctionInit, SourceCheck, SendFrom, Admit, Increment, Cleanup, InHand, LeftIn,
                    Handling, Reading, Ended
<1>7. QED
  BY <1>2, <1>3, <1>4, <1>5, <1>6 DEF MovesNothing

\* ... and at its output ports.
LEMMA StillOutputs ==
  ASSUME WorkerTypeOK, NEW w \in Workers, RoundAt(w), CompleteAt(w), MovesNothing(w),
         NEW o \in OutPorts, o[1] = w
  PROVE  Unsent(o) \/ LeftOut(o) => Unsent(o)' \/ LeftOut(o)'
<1> USE DEF GoTo
<1>1. /\ pc \in [Workers -> Labels] /\ port \in [Workers -> Nat]
      /\ o[2] \in Outs(w) /\ o[2] \in Nat
  BY OutPortShape, PortNumbers DEF WorkerTypeOK, VariableTypes
<1>2. CASE SourceCheck(w)
  <2>1. /\ pc[w] = "srccheck" /\ Kind[w] = "source" /\ port[w] = 0
        /\ port' = port /\ stop' = stop /\ flag' = flag
        /\ pc'[w] = IF stop[w] THEN "cleanup" ELSE IF flag[w] > 0 THEN SendFrom(w, 0) ELSE "while"
    BY <1>1, <1>2 DEF SourceCheck, RoundAt, CompleteAt
  <2>2. 0 \in Outs(w)
    BY <1>1, PortNumbers, ShapeAssumption DEF Outs, ShapeAssumption
  <2>3. QED
    BY <1>1, <2>1, <2>2 DEF SendFrom, Unsent, LeftOut, Ended
<1>3. CASE Increment(w)
  <2>1. /\ pc[w] = "increment" /\ pc'[w] = SendFrom(w, port[w] + 1) /\ port'[w] = port[w] + 1
    BY <1>1, <1>3 DEF Increment
  <2>2. CASE o[2] > port[w]
    <3>1. NumOutputs[w] \in Nat /\ port[w] + 1 \in Outs(w) /\ o[2] >= port[w] + 1
      BY <1>1, <2>2, ShapeAssumption DEF Outs, ShapeAssumption
    <3>2. QED
      BY <2>1, <3>1 DEF SendFrom, Unsent
  <2>3. CASE ~(o[2] > port[w])
    BY <2>1, <2>3 DEF Unsent, LeftOut, Ended
  <2>4. QED
    BY <2>2, <2>3
<1>4. CASE Admit(w) \/ Cleanup(w)
  BY <1>1, <1>4 DEF Admit, Cleanup, Unsent, LeftOut, Ended
<1>5. CASE FunctionInit(w) \/ WhileTest(w) \/ TimedOut(w) \/ NoData(w) \/ Decrement(w) \/ PortRead(w)
           \/ StopCheck(w) \/ IdleCall(w)
  <2>1. pc[w] \notin {"srccheck", "full", "enqueue", "increment", "cleanup", "done"}
    BY <1>5 DEF FunctionInit, WhileTest, TimedOut, NoData, Decrement, PortRead, StopCheck, IdleCall
  <2>2. QED
    BY <2>1 DEF Unsent, LeftOut, Ended
<1>6. QED
  BY <1>2, <1>3, <1>4, <1>5 DEF MovesNothing

LEMMA MovesNothingStill ==
  ASSUME WorkerTypeOK, Complete, Rounds, NEW w \in Workers, MovesNothing(w)
  PROVE  Still
<1>1. ThreadStep(w) /\ RoundAt(w) /\ CompleteAt(w)
  BY DEF MovesNothing, ThreadStep, Read, Process, Send, Rounds, Complete
<1>2. Calm
  BY MovesNothingCalm
<1>3. \A v \in Workers \ {w} :
        /\ \A i \in InPorts : i[1] = v =>
             /\ InHand(i)' = InHand(i) /\ LeftIn(i)' = LeftIn(i) /\ inputs'[i] = inputs[i]
        /\ \A o \in OutPorts : o[1] = v => Unsent(o)' = Unsent(o) /\ LeftOut(o)' = LeftOut(o)
  BY <1>1, Locality, StillFrame
<1>4. ASSUME NEW i \in InPorts
      PROVE  /\ InHand(i)' => InHand(i) /\ inputs'[i] = inputs[i]
             /\ InHand(i) \/ LeftIn(i) => (InHand(i)' \/ LeftIn(i)') /\ inputs'[i] = inputs[i]
  <2>1. CASE i[1] = w
    BY <1>1, <2>1, StillInputs
  <2>2. CASE i[1] # w
    BY <1>3, <2>2, InPortShape
  <2>3. QED
    BY <2>1, <2>2
<1>5. ASSUME NEW o \in OutPorts
      PROVE  Unsent(o) \/ LeftOut(o) => Unsent(o)' \/ LeftOut(o)'
  <2>1. CASE o[1] = w
    BY <1>1, <2>1, StillOutputs
  <2>2. CASE o[1] # w
    BY <1>3, <2>2, OutPortShape
  <2>3. QED
    BY <2>1, <2>2
<1>6. QED
  BY <1>2, <1>4, <1>5 DEF Calm, Still

\* What a call of ProcessData leaves alone, and what it leaves to be sent.
LEMMA ProcessHands ==
  ASSUME WorkerTypeOK, NEW w \in Workers, ProcessData(w)
  PROVE  /\ queue' = queue /\ inputs' = inputs /\ calls'[w] # calls[w]
         /\ \A v \in Workers \ {w} : output'[v] = output[v]
         /\ \A i \in InPorts : IF i[1] = w THEN ~InHand(i)' /\ ~LeftIn(i)' /\ ~LeftIn(i)
                               ELSE (InHand(i)' <=> InHand(i)) /\ (LeftIn(i)' <=> LeftIn(i))
         /\ \A o \in OutPorts : IF o[1] = w THEN ~Unsent(o) /\ ~LeftOut(o)
                                ELSE (Unsent(o)' <=> Unsent(o)) /\ (LeftOut(o)' <=> LeftOut(o))
         /\ \A o \in OutPorts : o[1] = w /\ Unsent(o)' => flag'[w] > 0
         /\ \A o \in OutPorts : o[1] = w /\ flag'[w] > 0 /\ Kind[w] # "sink" => Unsent(o)'
<1>1. /\ pc \in [Workers -> Labels] /\ calls \in [Workers -> Nat] /\ output \in [Workers -> Nat]
      /\ flag \in [Workers -> {0, 1}] /\ port \in [Workers -> Nat]
  BY DEF WorkerTypeOK, VariableTypes
<1>2. PICK f \in FlagAfter(w) :
        flag' = [flag EXCEPT ![w] = f] /\ pc' = [pc EXCEPT ![w] = AfterProcess(w, f)]
  BY DEF ProcessData, GoTo
<1>3. f \in {0, 1}
  BY <1>1, ShapeAssumption DEF FlagAfter, ShapeAssumption
<1>4. /\ pc[w] = "process" /\ queue' = queue /\ inputs' = inputs /\ stop' = stop
      /\ port' = [port EXCEPT ![w] = 0] /\ calls' = [calls EXCEPT ![w] = @ + 1]
      /\ \A v \in Workers \ {w} : output'[v] = output[v]
  BY <1>1 DEF ProcessData
<1>5. \A v \in Workers \ {w} :
        /\ \A i \in InPorts : i[1] = v =>
             /\ InHand(i)' = InHand(i) /\ LeftIn(i)' = LeftIn(i) /\ inputs'[i] = inputs[i]
        /\ \A o \in OutPorts : o[1] = v => Unsent(o)' = Unsent(o) /\ LeftOut(o)' = LeftOut(o)
  BY <1>1, <1>2, <1>4, StillFrame
<1>6. calls'[w] # calls[w]
  BY <1>1, <1>4
<1>7. /\ pc'[w] = AfterProcess(w, f) /\ flag'[w] = f /\ port'[w] = 0
      /\ pc'[w] \in {"srccheck", "while", "full"}
  BY <1>1, <1>2, <1>3, <1>4 DEF AfterProcess, SendFrom
<1>8. \A i \in InPorts : i[1] = w => ~InHand(i)' /\ ~LeftIn(i)' /\ ~LeftIn(i)
  BY <1>4, <1>7 DEF InHand, LeftIn, Handling, Reading, Ended
<1>9. ASSUME NEW o \in OutPorts, o[1] = w
      PROVE  /\ ~Unsent(o) /\ ~LeftOut(o)
             /\ Unsent(o)' => flag'[w] > 0
             /\ flag'[w] > 0 /\ Kind[w] # "sink" => Unsent(o)'
  <2>1. ~Unsent(o) /\ ~LeftOut(o)
    BY <1>4, <1>9 DEF Unsent, LeftOut, Ended
  <2>2. o[2] \in Outs(w) /\ o[2] >= 0 /\ 0 \in Outs(w)
    BY <1>9, OutPortShape, ShapeAssumption DEF Outs, ShapeAssumption
  <2>3. CASE Kind[w] = "source"
    BY <1>3, <1>7, <1>9, <2>1, <2>3 DEF AfterProcess, Unsent
  <2>4. CASE Kind[w] = "sink"
    BY <1>3, <1>7, <1>9, <2>1, <2>4 DEF AfterProcess, Unsent
  <2>5. CASE Kind[w] \notin {"source", "sink"}
    BY <1>3, <1>7, <1>9, <2>1, <2>2, <2>5 DEF AfterProcess, SendFrom, Unsent
  <2>6. QED
    BY <2>3, <2>4, <2>5
<1>10. QED
  BY <1>4, <1>5, <1>6, <1>8, <1>9, InPortShape, OutPortShape

-----------------------------------------------------------------------------
(* Lockstep: where no block drops an item, the n-th call of a ProcessData  *)
(* handles the n-th item on every port.  Along each connection the items   *)
(* are counted: taken by the reader, in the queue, sent by the writer.     *)

\* Every worker that can send passes on what each call gives it.
AllSend == \A w \in Workers : Kind[w] # "sink" => FlagValues[w] = {1}

\* The number of the last item taken through input port i.
Received(i) == IF inputs[i] = None THEN calls[i[1]] ELSE inputs[i]

\* The items of a worker bear the numbers of its calls.
OwnCount == \A w \in Workers : output[w] = calls[w]

\* What a reader holds is the item of the call it is in, or the next one.
InTurn ==
  \A i \in InPorts : ~Generates(i[1]) /\ inputs[i] # None /\ ~Ended(i[1]) =>
    inputs[i] = IF Handling(i[1]) THEN calls[i[1]] + 1 ELSE calls[i[1]]

\* Nothing is missing between the reader and the items of its queue ...
Consecutive ==
  \A i \in InPorts : ~Generates(i[1]) =>
    \A j \in DOMAIN queue[InputQueue[i]] : queue[InputQueue[i]][j] = Received(i) + j

\* ... nor between these and what the writer has still to send.
UpToDate ==
  \A i \in InPorts : \A o \in OutPorts :
    /\ OutputQueue[o] = InputQueue[i]
    /\ ~Generates(i[1]) /\ Kind[o[1]] # "sink" /\ ~Ended(o[1])
    => Received(i) + Len(queue[InputQueue[i]])
         = IF Unsent(o) THEN output[o[1]] - 1 ELSE output[o[1]]

InStep == OwnCount /\ InTurn /\ Consecutive /\ UpToDate

\* A step that moves no item: a worker may end, and a reader may begin a round
\* and forget the items of the last one.
Keeps ==
  /\ queue' = queue /\ output' = output /\ calls' = calls
  /\ \A o \in OutPorts : Ended(o[1])' \/ (~Ended(o[1]) /\ (Unsent(o)' <=> Unsent(o)))
  /\ \A i \in InPorts : ~Generates(i[1]) =>
       \/ /\ inputs'[i] = inputs[i]
          /\ Ended(i[1])' \/ (~Ended(i[1]) /\ (Handling(i[1])' <=> Handling(i[1])))
       \/ inputs'[i] = None /\ ~Handling(i[1]) /\ ~Ended(i[1])

LEMMA KeepsInStep ==
  ASSUME InStep, Keeps
  PROVE  InStep'
<1>1. \A i \in InPorts : ~Generates(i[1]) => Received(i)' = Received(i)
  BY DEF InStep, InTurn, Keeps, Received
<1>2. OwnCount'
  BY DEF InStep, OwnCount, Keeps
<1>3. InTurn'
  BY DEF InStep, InTurn, Keeps, Generates
<1>4. Consecutive'
  BY <1>1 DEF InStep, Consecutive, Keeps, Generates
<1>5. UpToDate'
  <2> SUFFICES ASSUME NEW i \in InPorts, NEW o \in OutPorts, OutputQueue[o] = InputQueue[i],
                      ~Generates(i[1]), Kind[o[1]] # "sink", ~Ended(o[1])'
               PROVE  Received(i)' + Len(queue'[InputQueue[i]])
                        = IF Unsent(o)' THEN output'[o[1]] - 1 ELSE output'[o[1]]
    BY DEF UpToDate, Generates
  <2>1. ~Ended(o[1]) /\ (Unsent(o)' <=> Unsent(o))
    BY DEF Keeps
  <2>2. QED
    BY <1>1, <2>1 DEF InStep, UpToDate, Keeps
<1>6. QED
  BY <1>2, <1>3, <1>4, <1>5 DEF InStep

\* A worker that has ended does nothing more.
LEMMA EndedStays ==
  ASSUME WorkerTypeOK, NEW w \in Workers, ThreadStep(w), NEW v \in Workers, Ended(v)
  PROVE  Ended(v)'
<1>1. pc \in [Workers -> Labels]
  BY DEF WorkerTypeOK, VariableTypes
<1>2. CASE v = w
  BY <1>1, <1>2 DEF ThreadStep, FunctionInit, WhileTest, Read, Dequeue, TimedOut, NoData, Decrement,
        PortRead, Process, StopCheck, ProcessData, IdleCall, SourceCheck, Send, Admit, Enqueue,
        Increment, Cleanup, GoTo, Ended
<1>3. CASE v # w
  BY <1>3, Locality DEF Ended
<1>4. QED
  BY <1>2, <1>3

\* What the steps that move no item do to a reader.
LEMMA RoundGoesOn ==
  ASSUME WorkerTypeOK, NEW w \in Workers, RoundAt(w), MovesNothing(w), NEW v \in Workers, ~Generates(v)
  PROVE  \/ /\ \A p \in Ins(v) : inputs'[<<v, p>>] = inputs[<<v, p>>]
            /\ Ended(v)' \/ (~Ended(v) /\ (Handling(v)' <=> Handling(v)))
         \/ ~Handling(v) /\ ~Ended(v) /\ \A p \in Ins(v) : inputs'[<<v, p>>] = None
<1> USE DEF GoTo, Handling, Reading, Ended
<1>1. /\ pc \in [Workers -> Labels] /\ ThreadStep(w)
      /\ \A p \in Ins(v) : <<v, p>> \in InPorts
  BY InPortShape DEF WorkerTypeOK, VariableTypes, MovesNothing, ThreadStep, Read, Process, Send
<1>2. CASE v # w
  BY <1>1, <1>2, Locality
<1>3. CASE v = w
  <2>1. CASE WhileTest(w)
    <3>1. Kind[v] # "source" /\ pc[v] = "while"
      BY <1>3, <2>1 DEF WhileTest, Generates
    <3>2. CASE stop[w]
      BY <1>1, <1>3, <2>1, <3>1, <3>2 DEF WhileTest
    <3>3. CASE ~stop[w]
      BY <1>1, <1>3, <2>1, <3>1, <3>3 DEF WhileTest
    <3>4. QED
      BY <3>2, <3>3
  <2>2. CASE TimedOut(w) \/ NoData(w) \/ Decrement(w) \/ PortRead(w) \/ StopCheck(w)
    <3>1. inputs' = inputs /\ pc[w] \in {"wait", "nodata", "decrement", "read", "check"}
      BY <2>2 DEF TimedOut, NoData, Decrement, PortRead, StopCheck
    <3>2. pc'[w] \in {"wait", "nodata", "read", "check", "process", "cleanup"}
      BY <1>1, <2>2 DEF TimedOut, NoData, AfterTimeout, Decrement, PortRead, ReadFrom, StopCheck
    <3>3. QED
      BY <1>3, <3>1, <3>2
  <2>3. ~IdleCall(w)
    BY <1>3 DEF IdleCall, CallBound
  <2>4. CASE FunctionInit(w) \/ SourceCheck(w) \/ Admit(w) \/ Increment(w) \/ Cleanup(w)
    BY <1>1, <1>3, <2>4 DEF FunctionInit, SourceCheck, SendFrom, Admit, Increment, Cleanup
  <2>5. QED
    BY <2>1, <2>2, <2>3, <2>4 DEF MovesNothing
<1>4. QED
  BY <1>2, <1>3

LEMMA MovesNothingKeeps ==
  ASSUME WorkerTypeOK, Complete, Rounds, NEW w \in Workers, MovesNothing(w)
  PROVE  Keeps
<1>1. Calm /\ Still /\ ThreadStep(w) /\ RoundAt(w)
  BY MovesNothingCalm, MovesNothingStill DEF MovesNothing, ThreadStep, Read, Process, Send, Rounds
<1>2. ASSUME NEW o \in OutPorts, ~Ended(o[1])'
      PROVE  ~Ended(o[1]) /\ (Unsent(o)' <=> Unsent(o))
  <2>1. ~Ended(o[1])
    BY <1>1, <1>2, EndedStays, OutPortShape
  <2>2. QED
    BY <1>1, <1>2, <2>1 DEF Still, LeftOut, Ended
<1>3. ASSUME NEW i \in InPorts, ~Generates(i[1])
      PROVE  \/ /\ inputs'[i] = inputs[i]
                /\ Ended(i[1])' \/ (~Ended(i[1]) /\ (Handling(i[1])' <=> Handling(i[1])))
             \/ inputs'[i] = None /\ ~Handling(i[1]) /\ ~Ended(i[1])
  <2>1. i[1] \in Workers /\ i[2] \in Ins(i[1]) /\ i = <<i[1], i[2]>>
    BY InPortShape
  <2>2. \/ /\ inputs'[<<i[1], i[2]>>] = inputs[<<i[1], i[2]>>]
           /\ Ended(i[1])' \/ (~Ended(i[1]) /\ (Handling(i[1])' <=> Handling(i[1])))
        \/ ~Handling(i[1]) /\ ~Ended(i[1]) /\ inputs'[<<i[1], i[2]>>] = None
    BY <1>1, <1>3, <2>1, RoundGoesOn
  <2>3. QED
    BY <2>1, <2>2
<1>4. queue' = queue /\ output' = output /\ calls' = calls
  BY <1>1 DEF Calm
<1>5. QED
  BY <1>2, <1>3, <1>4, Zenon DEF Keeps

\* A reader takes the next item.
LEMMA DequeueInStep ==
  ASSUME WorkerTypeOK, Rounds, InStep, NEW w \in Workers, Dequeue(w)
  PROVE  InStep'
<1>0. PICK i0 \in InPorts : i0 = <<w, port[w]>>
  BY DEF Dequeue, WorkerTypeOK, PortInRange, Reading
<1>1. PICK q0 \in Queues : q0 = InputQueue[i0]
  BY Numbers
<1>2. /\ pc \in [Workers -> Labels] /\ inputs \in [InPorts -> Nat] /\ calls \in [Workers -> Nat]
      /\ queue \in [Queues -> Seq(Nat \ {None})] /\ i0[1] = w
  BY <1>0 DEF WorkerTypeOK, VariableTypes
<1>3. /\ pc[w] = "wait" /\ pc'[w] = "decrement" /\ queue[q0] # <<>>
      /\ queue' = [queue EXCEPT ![q0] = Tail(@)] /\ inputs' = [inputs EXCEPT ![i0] = Head(queue[q0])]
      /\ output' = output /\ calls' = calls /\ port' = port /\ flag' = flag
      /\ \A v \in Workers \ {w} : pc'[v] = pc[v]
  BY <1>0, <1>1, <1>2 DEF Dequeue, GoTo, InQueue
<1>4. /\ Len(queue[q0]) \in Nat \ {0} /\ DOMAIN queue[q0] = 1 .. Len(queue[q0])
      /\ Len(queue'[q0]) = Len(queue[q0]) - 1 /\ DOMAIN queue'[q0] = 1 .. Len(queue[q0]) - 1
      /\ inputs'[i0] = queue[q0][1] /\ queue[q0][1] \in Nat \ {None}
      /\ \A j \in 1 .. Len(queue[q0]) - 1 : queue'[q0][j] = queue[q0][j + 1]
  <2>1. /\ queue[q0] \in Seq(Nat \ {None}) /\ queue[q0] # <<>> /\ queue'[q0] = Tail(queue[q0])
        /\ inputs'[i0] = Head(queue[q0])
    BY <1>2, <1>3
  <2>2. QED
    BY <2>1
<1>5. \A i \in InPorts : i # i0 =>
        /\ inputs'[i] = inputs[i] /\ Received(i)' = Received(i)
        /\ InputQueue[i] \in Queues /\ InputQueue[i] # q0 /\ queue'[InputQueue[i]] = queue[InputQueue[i]]
  BY <1>1, <1>2, <1>3, WiringAssumption DEF WiringAssumption, Received
<1>6. /\ \A v \in Workers : (Ended(v)' <=> Ended(v)) /\ (Handling(v)' <=> Handling(v))
      /\ \A o \in OutPorts : Unsent(o)' <=> Unsent(o)
  BY <1>3, OutPortShape DEF Ended, Handling, Reading, Unsent
<1>7. /\ ~Generates(w) => queue[q0][1] = calls[w] + 1 /\ Received(i0) = calls[w]
      /\ Received(i0)' = queue[q0][1] /\ calls[w] \in Nat
  <2>1. inputs[i0] = None /\ Received(i0) = calls[w]
    BY <1>0, <1>2, <1>3 DEF Rounds, RoundAt, Received
  <2>2. 1 \in DOMAIN queue[q0]
    BY <1>4
  <2>3. ~Generates(w) => queue[q0][1] = Received(i0) + 1
    BY <1>1, <1>2, <2>2 DEF InStep, Consecutive
  <2>4. Received(i0)' = queue[q0][1]
    BY <1>4 DEF Received
  <2>5. QED
    BY <1>2, <2>1, <2>3, <2>4
<1>8. OwnCount'
  BY <1>3 DEF InStep, OwnCount
<1>9. InTurn'
  <2> SUFFICES ASSUME NEW i \in InPorts, ~Generates(i[1]), inputs'[i] # None, ~Ended(i[1])'
               PROVE  inputs'[i] = IF Handling(i[1])' THEN calls[i[1]] + 1 ELSE calls[i[1]]
    BY <1>3 DEF InTurn, Generates
  <2>1. CASE i = i0
    BY <1>2, <1>3, <1>4, <1>7, <2>1 DEF Handling, Reading
  <2>2. CASE i # i0
    BY <1>5, <1>6, <2>2, InPortShape DEF InStep, InTurn
  <2>3. QED
    BY <2>1, <2>2
<1>10. Consecutive'
  <2> SUFFICES ASSUME NEW i \in InPorts, ~Generates(i[1]), NEW j \in DOMAIN queue'[InputQueue[i]]
               PROVE  queue'[InputQueue[i]][j] = Received(i)' + j
    BY DEF Consecutive, Generates
  <2>1. CASE i = i0
    <3>1. j \in 1 .. Len(queue[q0]) - 1 /\ j + 1 \in DOMAIN queue[q0] /\ j \in Nat
      BY <1>1, <1>4, <2>1
    <3>2. queue[q0][j + 1] = Received(i0) + (j + 1)
      BY <1>1, <2>1, <3>1 DEF InStep, Consecutive
    <3>3. Received(i0)' = calls[w] + 1 /\ Received(i0) = calls[w] /\ calls[w] \in Nat
      BY <1>2, <1>7, <2>1
    <3>4. queue'[q0][j] = Received(i0)' + j
      BY <1>4, <3>1, <3>2, <3>3
    <3>5. QED
      BY <1>1, <2>1, <3>4
  <2>2. CASE i # i0
    BY <1>5, <2>2 DEF InStep, Consecutive
  <2>3. QED
    BY <2>1, <2>2
<1>11. UpToDate'
  <2> SUFFICES ASSUME NEW i \in InPorts, NEW o \in OutPorts, OutputQueue[o] = InputQueue[i],
                      ~Generates(i[1]), Kind[o[1]] # "sink", ~Ended(o[1])
               PROVE  Received(i)' + Len(queue'[InputQueue[i]])
                        = IF Unsent(o) THEN output[o[1]] - 1 ELSE output[o[1]]
    BY <1>3, <1>6, OutPortShape DEF UpToDate, Generates
  <2>1. Received(i) + Len(queue[InputQueue[i]]) = IF Unsent(o) THEN output[o[1]] - 1 ELSE output[o[1]]
    BY DEF InStep, UpToDate
  <2>2. CASE i = i0
    <3>0. Received(i0)' = calls[w] + 1 /\ Received(i0) = calls[w] /\ calls[w] \in Nat
      BY <1>2, <1>7, <2>2
    <3>1. Received(i0)' + Len(queue'[q0]) = Received(i0) + Len(queue[q0])
      <4>1. PICK n \in Nat : Len(queue[q0]) = n /\ Len(queue'[q0]) = n - 1
        BY <1>4
      <4>2. (calls[w] + 1) + (n - 1) = calls[w] + n
        BY <3>0
      <4>3. QED
        BY <3>0, <4>1, <4>2
    <3>2. QED
      BY <1>1, <2>1, <2>2, <3>1
  <2>3. CASE i # i0
    BY <1>5, <2>1, <2>3
  <2>4. QED
    BY <2>2, <2>3
<1>12. QED
  BY <1>8, <1>9, <1>10, <1>11 DEF InStep

\* A writer adds the item that comes next.
LEMMA EnqueueInStep ==
  ASSUME WorkerTypeOK, Rounds, InStep, NEW w \in Workers, Enqueue(w)
  PROVE  InStep'
<1>0. PICK o0 \in OutPorts : o0 = <<w, port[w]>>
  BY DEF Enqueue, WorkerTypeOK, PortInRange, Sending
<1>1. PICK q0 \in Queues : q0 = OutputQueue[o0]
  BY Numbers
<1>2. /\ pc \in [Workers -> Labels] /\ port \in [Workers -> Nat] /\ output \in [Workers -> Nat]
      /\ inputs \in [InPorts -> Nat] /\ calls \in [Workers -> Nat]
      /\ queue \in [Queues -> Seq(Nat \ {None})] /\ o0[1] = w /\ o0[2] = port[w]
  BY <1>0 DEF WorkerTypeOK, VariableTypes
<1>3. /\ pc[w] = "enqueue" /\ pc'[w] = "increment" /\ queue' = [queue EXCEPT ![q0] = Append(@, output[w])]
      /\ inputs' = inputs /\ output' = output /\ calls' = calls /\ port' = port /\ flag' = flag
      /\ \A v \in Workers \ {w} : pc'[v] = pc[v]
  BY <1>0, <1>1, <1>2 DEF Enqueue, GoTo, OutQueue
<1>4. /\ Len(queue[q0]) \in Nat /\ DOMAIN queue[q0] = 1 .. Len(queue[q0])
      /\ Len(queue'[q0]) = Len(queue[q0]) + 1 /\ DOMAIN queue'[q0] = 1 .. Len(queue[q0]) + 1
      /\ queue'[q0][Len(queue[q0]) + 1] = output[w] /\ output[w] \in Nat
      /\ \A j \in 1 .. Len(queue[q0]) : queue'[q0][j] = queue[q0][j]
  <2>0. output[w] \in Nat \ {None}
    BY <1>2, <1>3 DEF WorkerTypeOK, PortInRange, Sending
  <2>1. queue[q0] \in Seq(Nat \ {None}) /\ queue'[q0] = Append(queue[q0], output[w])
    BY <1>2, <1>3
  <2>2. QED
    BY <2>0, <2>1
<1>5. \A q \in Queues \ {q0} : queue'[q] = queue[q]
  BY <1>2, <1>3
<1>6. /\ \A v \in Workers : (Ended(v)' <=> Ended(v)) /\ (Handling(v)' <=> Handling(v))
      /\ \A i \in InPorts : Received(i)' = Received(i)
  BY <1>3 DEF Ended, Handling, Reading, Received
<1>7. /\ Unsent(o0) /\ ~Unsent(o0)' /\ Kind[w] # "sink" /\ ~Ended(w)
      /\ \A o \in OutPorts : o # o0 => (Unsent(o)' <=> Unsent(o)) /\ OutputQueue[o] # q0
  <2>1. Unsent(o0) /\ ~Unsent(o0)' /\ ~Ended(w)
    BY <1>2, <1>3 DEF Unsent, Ended
  <2>2. Kind[w] # "sink"
    BY <1>3 DEF Rounds, RoundAt, Sending
  <2>3. ASSUME NEW o \in OutPorts, o # o0 PROVE Unsent(o)' <=> Unsent(o)
    <3>1. CASE o[1] = w
      <4>1. o[2] # port[w] /\ o[2] \in Nat /\ port[w] \in Nat
        BY <1>0, <1>2, <2>3, <3>1, OutPortShape, PortNumbers
      <4>2. QED
        BY <1>3, <3>1, <4>1 DEF Unsent
    <3>2. CASE o[1] # w
      BY <1>3, <3>2, OutPortShape DEF Unsent
    <3>3. QED
      BY <3>1, <3>2
  <2>4. \A o \in OutPorts : o # o0 => OutputQueue[o] # q0
    BY <1>1, WiringAssumption DEF WiringAssumption
  <2>5. QED
    BY <2>1, <2>2, <2>3, <2>4
<1>8. \A i \in InPorts : ~Generates(i[1]) /\ InputQueue[i] = q0 =>
        Received(i) + Len(queue[q0]) = output[w] - 1
  BY <1>1, <1>2, <1>7 DEF InStep, UpToDate
<1>9. \A i \in InPorts : Received(i) \in Nat /\ InputQueue[i] \in Queues
  BY <1>2, InPortShape, Numbers DEF Received
<1>10. OwnCount' /\ InTurn'
  BY <1>3, <1>6, InPortShape DEF InStep, OwnCount, InTurn, Generates
<1>11. Consecutive'
  <2> SUFFICES ASSUME NEW i \in InPorts, ~Generates(i[1]), NEW j \in DOMAIN queue'[InputQueue[i]]
               PROVE  queue'[InputQueue[i]][j] = Received(i) + j
    BY <1>6 DEF Consecutive, Generates
  <2>1. CASE InputQueue[i] = q0
    <3>1. j \in 1 .. Len(queue[q0]) + 1 /\ Received(i) \in Nat /\ j \in Nat
      BY <1>4, <1>9, <2>1
    <3>2. CASE j \in 1 .. Len(queue[q0])
      BY <1>4, <2>1, <3>2 DEF InStep, Consecutive
    <3>3. CASE j = Len(queue[q0]) + 1
      <4>1. Received(i) + Len(queue[q0]) = output[w] - 1 /\ queue'[q0][j] = output[w]
        BY <1>4, <1>8, <2>1, <3>3
      <4>2. QED
        BY <1>4, <2>1, <3>1, <3>3, <4>1
    <3>4. QED
      BY <1>4, <3>1, <3>2, <3>3
  <2>2. CASE InputQueue[i] # q0
    BY <1>5, <1>9, <2>2 DEF InStep, Consecutive
  <2>3. QED
    BY <2>1, <2>2
<1>12. UpToDate'
  <2> SUFFICES ASSUME NEW i \in InPorts, NEW o \in OutPorts, OutputQueue[o] = InputQueue[i],
                      ~Generates(i[1]), Kind[o[1]] # "sink", ~Ended(o[1])
               PROVE  Received(i) + Len(queue'[InputQueue[i]])
                        = IF Unsent(o)' THEN output[o[1]] - 1 ELSE output[o[1]]
    BY <1>3, <1>6, OutPortShape DEF UpToDate, Generates
  <2>1. Received(i) + Len(queue[InputQueue[i]]) = IF Unsent(o) THEN output[o[1]] - 1 ELSE output[o[1]]
    BY DEF InStep, UpToDate
  <2>2. CASE o = o0
    <3>1. Received(i) + Len(queue[q0]) = output[w] - 1 /\ InputQueue[i] = q0
      BY <1>1, <1>8, <2>2
    <3>2. Received(i) + Len(queue'[q0]) = output[w]
      <4>1. PICK n \in Nat : Len(queue[q0]) = n /\ Len(queue'[q0]) = n + 1
        BY <1>4
      <4>2. PICK r \in Nat : Received(i) = r
        BY <1>9
      <4>3. r + (n + 1) = output[w]
        BY <1>4, <3>1, <4>1, <4>2
      <4>4. QED
        BY <4>1, <4>2, <4>3
    <3>3. QED
      BY <1>2, <1>7, <2>2, <3>1, <3>2
  <2>3. CASE o # o0
    BY <1>5, <1>7, <1>9, <2>1, <2>3
  <2>4. QED
    BY <2>2, <2>3
<1>13. QED
  BY <1>10, <1>11, <1>12 DEF InStep

\* A call handles the next item on every port and leaves the next one to send.
LEMMA ProcessInStep ==
  ASSUME AllSend, WorkerTypeOK, Complete, InStep, NEW w \in Workers, ProcessData(w)
  PROVE  InStep'
<1>1. /\ pc[w] = "process" /\ queue' = queue /\ inputs' = inputs
      /\ calls' = [calls EXCEPT ![w] = @ + 1] /\ calls \in [Workers -> Nat]
      /\ output' = [output EXCEPT ![w] = IF Generates(w) THEN calls[w] + 1 ELSE inputs[<<w, 0>>]]
      /\ output \in [Workers -> Nat] /\ pc \in [Workers -> Labels]
  BY DEF ProcessData, WorkerTypeOK, VariableTypes
<1>2. PICK f \in FlagAfter(w) :
        flag' = [flag EXCEPT ![w] = f] /\ pc' = [pc EXCEPT ![w] = AfterProcess(w, f)]
  BY DEF ProcessData, GoTo
<1>3. /\ \A v \in Workers \ {w} : pc'[v] = pc[v] /\ calls'[v] = calls[v] /\ output'[v] = output[v]
      /\ calls'[w] = calls[w] + 1 /\ calls[w] \in Nat /\ output[w] \in Nat
      /\ pc'[w] \in {"srccheck", "while", "full"}
  BY <1>1, <1>2 DEF AfterProcess, SendFrom
<1>4. \A i \in InPorts : ~Generates(i[1]) /\ i[1] = w =>
        inputs[i] # None /\ inputs[i] = calls[w] + 1
  <2> SUFFICES ASSUME NEW i \in InPorts, ~Generates(i[1]), i[1] = w
               PROVE  inputs[i] # None /\ inputs[i] = calls[w] + 1
    OBVIOUS
  <2>1. i[2] \in Ins(w) /\ i = <<w, i[2]>> /\ Kind[w] # "source"
    BY InPortShape DEF Generates
  <2>2. inputs[i] # None
    BY <1>1, <2>1 DEF Complete, CompleteAt
  <2>3. QED
    BY <1>1, <2>2 DEF InStep, InTurn, Handling, Ended
<1>5. output'[w] = calls[w] + 1 /\ output[w] = calls[w]
  <2>1. CASE Generates(w)
    BY <1>1, <2>1 DEF InStep, OwnCount
  <2>2. CASE ~Generates(w)
    BY <1>1, <1>4, <2>2, HasPortZero DEF InStep, OwnCount
  <2>3. QED
    BY <2>1, <2>2
<1>6. \A i \in InPorts : ~Generates(i[1]) => Received(i)' = Received(i)
  BY <1>1, <1>3, <1>4, InPortShape DEF Received
<1>7. \A o \in OutPorts :
        IF o[1] = w THEN Kind[w] # "sink" => Unsent(o)' /\ ~Unsent(o) /\ ~Ended(w)
        ELSE (Unsent(o)' <=> Unsent(o)) /\ (Ended(o[1])' <=> Ended(o[1]))
  <2>1. Kind[w] # "sink" => flag'[w] > 0
    <3>1. Kind[w] # "sink" => f = 1
      BY <1>2 DEF AllSend, FlagAfter
    <3>2. flag'[w] = f
      BY <1>2 DEF WorkerTypeOK, VariableTypes
    <3>3. QED
      BY <3>1, <3>2
  <2>2. \A o \in OutPorts : o[1] # w => (Ended(o[1])' <=> Ended(o[1]))
    BY <1>3, OutPortShape DEF Ended
  <2>3. ~Ended(w)
    BY <1>1 DEF Ended
  <2>4. QED
    BY <2>1, <2>2, <2>3, ProcessHands
<1>8. OwnCount'
  BY <1>3, <1>5 DEF InStep, OwnCount
<1>9. InTurn'
  <2> SUFFICES ASSUME NEW i \in InPorts, ~Generates(i[1]), inputs[i] # None, ~Ended(i[1])'
               PROVE  inputs[i] = IF Handling(i[1])' THEN calls'[i[1]] + 1 ELSE calls'[i[1]]
    BY <1>1 DEF InTurn, Generates
  <2>1. CASE i[1] = w
    BY <1>3, <1>4, <2>1 DEF Handling, Reading
  <2>2. CASE i[1] # w
    BY <1>3, <2>2, InPortShape DEF InStep, InTurn, Handling, Reading, Ended
  <2>3. QED
    BY <2>1, <2>2
<1>10. Consecutive'
  BY <1>1, <1>6 DEF InStep, Consecutive, Generates
<1>11. UpToDate'
  <2> SUFFICES ASSUME NEW i \in InPorts, NEW o \in OutPorts, OutputQueue[o] = InputQueue[i],
                      ~Generates(i[1]), Kind[o[1]] # "sink", ~Ended(o[1])'
               PROVE  Received(i) + Len(queue[InputQueue[i]])
                        = IF Unsent(o)' THEN output'[o[1]] - 1 ELSE output'[o[1]]
    BY <1>1, <1>6 DEF UpToDate, Generates
  <2>1. CASE o[1] = w
    <3>1. Received(i) + Len(queue[InputQueue[i]]) = output[w] /\ Unsent(o)'
      BY <1>7, <2>1 DEF InStep, UpToDate
    <3>2. QED
      BY <1>3, <1>5, <2>1, <3>1
  <2>2. CASE o[1] # w
    BY <1>3, <1>7, <2>2, OutPortShape DEF InStep, UpToDate
  <2>3. QED
    BY <2>1, <2>2
<1>12. QED
  BY <1>8, <1>9, <1>10, <1>11 DEF InStep

LEMMA InitInStep == Init => InStep
<1> SUFFICES ASSUME Init PROVE InStep
  OBVIOUS
<1>1. /\ \A q \in Queues : queue[q] = <<>>
      /\ \A w \in Workers : output[w] = 0 /\ calls[w] = 0 /\ pc[w] = "unborn"
      /\ \A i \in InPorts : inputs[i] = None /\ InputQueue[i] \in Queues
  BY WiringAssumption DEF Init, WorkerInit, None, WiringAssumption
<1>2. OwnCount /\ InTurn /\ Consecutive
  BY <1>1 DEF OwnCount, InTurn, Consecutive
<1>3. UpToDate
  BY <1>1, InPortShape, OutPortShape DEF UpToDate, Received, Unsent
<1>4. QED
  BY <1>2, <1>3 DEF InStep

LEMMA InStepStep ==
  ASSUME AllSend, WorkerTypeOK, Complete, Rounds, InStep, WorkerStep
  PROVE  InStep'
<1>1. CASE UNCHANGED workerVars
  <2>1. Keeps
    BY <1>1 DEF workerVars, Keeps, Ended, Unsent, Handling, Reading
  <2>2. QED
    BY <2>1, KeepsInStep
<1>2. ASSUME NEW w \in Workers, Spawn(w) \/ Ask(w) PROVE InStep'
  <2>1. pc \in [Workers -> Labels]
    BY DEF WorkerTypeOK, VariableTypes
  <2>2. /\ queue' = queue /\ output' = output /\ calls' = calls /\ port' = port /\ inputs' = inputs
        /\ flag' = flag
        /\ \A v \in Workers : pc'[v] = pc[v] \/ (pc[v] = "unborn" /\ pc'[v] = "init")
    BY <1>2, <2>1 DEF Spawn, Ask, GoTo
  <2>3. Keeps
    BY <2>2, InPortShape, OutPortShape DEF Keeps, Ended, Unsent, Handling, Reading
  <2>4. QED
    BY <2>3, KeepsInStep
<1>3. ASSUME NEW w \in Workers, ThreadStep(w) PROVE InStep'
  <2>1. CASE MovesNothing(w)
    BY <2>1, MovesNothingKeeps, KeepsInStep
  <2>2. CASE Dequeue(w) \/ ProcessData(w) \/ Enqueue(w)
    BY <2>2, DequeueInStep, ProcessInStep, EnqueueInStep
  <2>3. QED
    BY <1>3, <2>1, <2>2 DEF ThreadStep, Read, Process, Send, MovesNothing
<1>4. QED
  BY <1>1, <1>2, <1>3 DEF WorkerStep

\* In any graph whose blocks pass everything on, however its paths differ in
\* length and wherever a stop arrives, the n-th call of a ProcessData handles
\* the n-th item of each of its input ports.
THEOREM NeverMispaired == ASSUME AllSend PROVE Spec => []Lockstep
<1>1. IInv /\ Rounds /\ InStep /\ [Next]_vars => InStep'
  BY NextStep, InStepStep DEF IInv, TypeOK, MainTypeOK
<1>2. ASSUME Complete, InStep PROVE Lockstep
  <2> SUFFICES ASSUME NEW w \in Workers, pc[w] = "process", ~Generates(w), NEW p \in Ins(w)
               PROVE  inputs[<<w, p>>] = calls[w] + 1
    BY DEF Lockstep
  <2>1. PICK i \in InPorts : i = <<w, p>> /\ i[1] = w
    BY InPortShape
  <2>2. inputs[i] # None
    BY <1>2, <2>1 DEF Complete, CompleteAt, Generates
  <2>3. QED
    BY <1>2, <2>1, <2>2 DEF InStep, InTurn, Handling, Ended
<1>3. IInv => Complete
  BY DEF IInv
<1>4. QED
  BY <1>1, <1>2, <1>3, InitInStep, Inductive, AlwaysRounds, PTL DEF Spec
=============================================================================
