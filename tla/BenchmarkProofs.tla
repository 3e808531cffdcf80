--------------------------- MODULE BenchmarkProofs --------------------------
(***************************************************************************)
(* Proofs about the benchmark of a graph, for any number of samples and    *)
(* any graph in which the first block is the only one that makes items and *)
(* the last one the only sink: it is the time stamps of these two that     *)
(* Graph::run reads.                                                       *)
(***************************************************************************)
EXTENDS Benchmark, OrderProofs

Measurable ==
  /\ Kind[FirstBlock] = "source" /\ Kind[LastBlock] = "sink"
  /\ \A w \in Workers : (Generates(w) => w = FirstBlock) /\ (Kind[w] = "sink" => w = LastBlock)

LEMMA EndBlocks ==
  /\ FirstBlock \in Workers /\ LastBlock \in Workers
  /\ Len(Blocks) \in Nat \ {0} /\ DOMAIN Blocks = 1 .. Len(Blocks)
<1>1. Len(Blocks) \in Nat \ {0} /\ DOMAIN Blocks = 1 .. Len(Blocks) /\ \A j \in DOMAIN Blocks : Blocks[j] \in Workers
  BY BlocksAssumption DEF BlocksAssumption
<1>2. QED
  BY <1>1 DEF FirstBlock, LastBlock

-----------------------------------------------------------------------------
(* The graph under a benchmark: its threads take the steps they always     *)
(* take.                                                                   *)

MeasuringMain == main \in {"starts", "ends"}

BenchMainOK ==
  /\ main \in {"sinks", "blocks", "sources", "sim", "starts", "ends", "stop", "notify", "join",
               "linger", "returned"}
  /\ b \in DOMAIN Blocks
  /\ handle \subseteq Workers

\* The steps of a benchmark, as seen by the workers and their time stamps.
LEMMA BenchmarkSteps ==
  ASSUME BenchMainOK, [BenchmarkNext]_benchVars
  PROVE  /\ BenchMainOK'
         /\ \/ UNCHANGED stampVars /\ (UNCHANGED workerVars \/ \E w \in Workers : Spawn(w) \/ Ask(w))
            \/ \E w \in Workers : Recording(w)
            \/ \E w \in Workers : Report(w)
<1>1. CASE (Starting \/ Shutdown) /\ UNCHANGED <<stampVars, copyVars>>
  <2>1. MainTypeOK
    BY <1>1 DEF BenchMainOK, MainTypeOK, Starting, StartSinks, StartBlocks, StartSources, Start, Shutdown,
                SetStop, Notify, Join, Return
  <2>2. MainStep
    BY <1>1 DEF MainStep
  <2>3. BenchMainOK'
    BY <2>1, <2>2, MainType DEF BenchMainOK, MainTypeOK
  <2>4. QED
    BY <1>1, <2>1, <2>2, <2>3, MainStepEffect
<1>2. CASE Measuring
  BY <1>2 DEF Measuring, Poll, CopyStart, CopyEnd, NextSample, BenchMainOK, stampVars
<1>3. CASE \E w \in Workers : LoopStep(w)
  BY <1>3 DEF LoopStep, BenchMainOK, mainVars
<1>4. CASE \E w \in Workers : Report(w)
  BY <1>4 DEF Report, BenchMainOK, vars, mainVars
<1>5. CASE UNCHANGED benchVars
  BY <1>5 DEF benchVars, vars, mainVars, BenchMainOK
<1>6. QED
  BY <1>1, <1>2, <1>3, <1>4, <1>5 DEF BenchmarkNext

\* A step of a loop is one of Worker.
LEMMA RecordingIsStep == ASSUME NEW w \in Workers, Recording(w) PROVE ThreadStep(w)
  BY DEF Recording, ThreadStep, Process

LEMMA BenchmarkWorkerStep == ASSUME BenchMainOK, [BenchmarkNext]_benchVars PROVE WorkerStep
  BY BenchmarkSteps, RecordingIsStep DEF WorkerStep, Report, vars

\* So what was proved of the threads of a graph holds here too.
GraphInv == WorkerTypeOK /\ Complete /\ Rounds /\ BenchMainOK

LEMMA GraphUnderBenchmark == BenchmarkSpec => []GraphInv
<1>1. BenchmarkInit => GraphInv
  <2> SUFFICES ASSUME BenchmarkInit PROVE GraphInv
    OBVIOUS
  <2>1. Init /\ IInv /\ Rounds
    BY InitIInv, InitRounds DEF BenchmarkInit
  <2>2. QED
    BY <2>1 DEF GraphInv, IInv, TypeOK, BenchMainOK
<1>2. GraphInv /\ [BenchmarkNext]_benchVars => GraphInv'
  BY BenchmarkSteps, BenchmarkWorkerStep, WorkerTypeStep, CompleteStep, RoundsStep DEF GraphInv
<1>3. QED
  BY <1>1, <1>2, PTL DEF BenchmarkSpec

LEMMA InStepUnderBenchmark == ASSUME AllSend PROVE BenchmarkSpec => []InStep
<1>1. BenchmarkInit => InStep
  BY InitInStep DEF BenchmarkInit
<1>2. GraphInv /\ InStep /\ [BenchmarkNext]_benchVars => InStep'
  BY BenchmarkWorkerStep, InStepStep DEF GraphInv
<1>3. QED
  BY <1>1, <1>2, GraphUnderBenchmark, PTL DEF BenchmarkSpec

-----------------------------------------------------------------------------
(* The duration.                                                           *)

\* Until the first block has begun nothing moves in the graph.
Silent ==
  FirstBlock \notin begun =>
    /\ pc[FirstBlock] \in {"unborn", "init"} /\ finished = {}
    /\ \A q \in Queues : queue[q] = <<>>
    /\ \A i \in InPorts : inputs[i] = None
    /\ \A w \in Workers : ~Sending(w)

\* What is reported complete has been finished, and only a sink finishes.
Reported == \A w \in Workers : (complete[w] => w \in finished) /\ (w \in finished => Kind[w] = "sink")

\* The main thread has seen the last block complete.
Measured == MeasuringMain \/ Copied => FirstBlock \in begun /\ LastBlock \in finished

StampTypes ==
  /\ begun \subseteq Workers /\ finished \subseteq Workers
  /\ count \in [Workers -> Nat]
  /\ complete \in [Workers -> BOOLEAN]

DurationInv == StampTypes /\ Silent /\ Reported /\ Measured

\* Nothing of this changes as long as nobody takes a stamp or an item.
LEMMA StampTypesStep == ASSUME StampTypes, BenchMainOK, [BenchmarkNext]_benchVars PROVE StampTypes'
<1> USE DEF StampTypes
<1>1. CASE UNCHANGED stampVars
  BY <1>1 DEF stampVars
<1>2. ASSUME NEW w \in Workers, Recording(w) PROVE StampTypes'
  BY <1>2 DEF Recording, BeginStamp, StartStamp, EndStamp, CountItem, stampVars
<1>3. ASSUME NEW w \in Workers, Report(w) PROVE StampTypes'
  BY <1>3 DEF Report
<1>4. QED
  BY <1>1, <1>2, <1>3, BenchmarkSteps

\* Stamps stay.
LEMMA StampsStay ==
  ASSUME BenchMainOK, [BenchmarkNext]_benchVars
  PROVE  begun \subseteq begun' /\ finished \subseteq finished'
<1>1. CASE UNCHANGED stampVars
  BY <1>1 DEF stampVars
<1>2. ASSUME NEW w \in Workers, Recording(w) PROVE begun \subseteq begun' /\ finished \subseteq finished'
  BY <1>2 DEF Recording, BeginStamp, StartStamp, EndStamp, CountItem, stampVars
<1>3. ASSUME NEW w \in Workers, Report(w) PROVE begun \subseteq begun' /\ finished \subseteq finished'
  BY <1>3 DEF Report
<1>4. QED
  BY <1>1, <1>2, <1>3, BenchmarkSteps

LEMMA SilentStep ==
  ASSUME Measurable, GraphInv, Silent, [BenchmarkNext]_benchVars
  PROVE  Silent'
<1> SUFFICES ASSUME FirstBlock \notin begun'
             PROVE  /\ pc'[FirstBlock] \in {"unborn", "init"} /\ finished' = {}
                    /\ \A q \in Queues : queue'[q] = <<>>
                    /\ \A i \in InPorts : inputs'[i] = None
                    /\ \A w \in Workers : ~Sending(w)'
  BY DEF Silent
<1>1. /\ FirstBlock \notin begun /\ FirstBlock \in Workers
      /\ pc[FirstBlock] \in {"unborn", "init"} /\ finished = {}
      /\ \A q \in Queues : queue[q] = <<>>
      /\ \A i \in InPorts : inputs[i] = None
      /\ \A w \in Workers : ~Sending(w)
  BY StampsStay, EndBlocks DEF Silent, GraphInv
<1>2. pc \in [Workers -> Labels] /\ BenchMainOK /\ inputs \in [InPorts -> Nat]
  BY DEF GraphInv, WorkerTypeOK, VariableTypes
<1>3. CASE UNCHANGED workerVars /\ finished' = finished
  BY <1>1, <1>3 DEF workerVars, Sending
<1>4. ASSUME NEW w \in Workers, Spawn(w) \/ Ask(w), finished' = finished PROVE
             /\ pc'[FirstBlock] \in {"unborn", "init"} /\ finished' = {}
             /\ \A q \in Queues : queue'[q] = <<>>
             /\ \A i \in InPorts : inputs'[i] = None
             /\ \A v \in Workers : ~Sending(v)'
  BY <1>1, <1>2, <1>4 DEF Spawn, Ask, GoTo, Sending
<1>5. ASSUME NEW w \in Workers, Recording(w) PROVE
             /\ pc'[FirstBlock] \in {"unborn", "init"} /\ finished' = {}
             /\ \A q \in Queues : queue'[q] = <<>>
             /\ \A i \in InPorts : inputs'[i] = None
             /\ \A v \in Workers : ~Sending(v)'
  <2>1. w # FirstBlock
    <3>1. SUFFICES ASSUME w = FirstBlock PROVE FALSE
      OBVIOUS
    <3>2. FunctionInit(w) /\ BeginStamp(w)
      BY <1>1, <1>5, <3>1 DEF Recording, SourceCheck, StopCheck, ProcessData, IdleCall, WhileTest, Read,
        Dequeue, TimedOut, NoData, Decrement, PortRead, Send, Admit, Enqueue, Increment, Cleanup
    <3>3. QED
      BY <3>1, <3>2 DEF BeginStamp, Measurable
  <2>2. ThreadStep(w) /\ ~Generates(w) /\ RoundAt(w) /\ CompleteAt(w)
    BY <1>5, <2>1, RecordingIsStep DEF Measurable, GraphInv, Rounds, Complete
  <2>3. pc[w] # "process" /\ pc[w] # "srccheck"
    BY <1>1, <2>2, HasPortZero DEF RoundAt, CompleteAt
  <2>4. ~Dequeue(w) /\ ~Send(w) /\ ~ProcessData(w) /\ ~IdleCall(w) /\ ~SourceCheck(w)
    <3>1. ~Dequeue(w)
      <4>1. pc[w] = "wait" => InQueue(w) \in Queues
        BY Numbers DEF GraphInv, WorkerTypeOK, PortInRange, Reading, InQueue
      <4>2. QED
        BY <1>1, <4>1 DEF Dequeue
    <3>2. QED
      BY <1>1, <2>3, <3>1 DEF Send, Admit, Enqueue, Increment, ProcessData, IdleCall, SourceCheck, Sending
  <2>5. finished' = finished
    BY <1>5, <2>4 DEF Recording, BeginStamp, EndStamp, stampVars
  <2>6. /\ queue' = queue /\ pc'[w] \notin {"full", "enqueue", "increment"}
        /\ \A i \in InPorts : inputs'[i] = inputs[i] \/ inputs'[i] = None
    BY <1>2, <2>2, <2>4 DEF ThreadStep, FunctionInit, WhileTest, ReadFrom, Read, TimedOut, NoData, AfterTimeout,
      Decrement, PortRead, Process, StopCheck, Cleanup, GoTo
  <2>7. \A v \in Workers \ {w} : pc'[v] = pc[v]
    BY <2>2, Locality DEF GraphInv
  <2>8. QED
    BY <1>1, <2>1, <2>5, <2>6, <2>7 DEF Sending
<1>6. ASSUME NEW w \in Workers, Report(w) PROVE UNCHANGED workerVars /\ finished' = finished
  BY <1>6 DEF Report, vars
<1>7. QED
  BY <1>2, <1>3, <1>4, <1>5, <1>6, BenchmarkSteps DEF stampVars

LEMMA ReportedStep ==
  ASSUME StampTypes, Reported, BenchMainOK, [BenchmarkNext]_benchVars
  PROVE  Reported'
<1>1. CASE UNCHANGED stampVars
  BY <1>1 DEF Reported, stampVars
<1>2. ASSUME NEW w \in Workers, Recording(w) PROVE Reported'
  <2>1. /\ complete' = complete
        /\ finished' = finished \/ (Kind[w] = "sink" /\ finished' = finished \cup {w})
    BY <1>2 DEF Recording, BeginStamp, StartStamp, EndStamp, CountItem, stampVars
  <2>2. QED
    BY <2>1 DEF Reported
<1>3. ASSUME NEW w \in Workers, Report(w) PROVE Reported'
  <2>1. \A v \in Workers : complete'[v] => complete[v] \/ v = w
    BY <1>3 DEF Report, StampTypes
  <2>2. QED
    BY <1>3, <2>1 DEF Report, Reported
<1>4. QED
  BY <1>1, <1>2, <1>3, BenchmarkSteps

\* The wait of the main thread ends when the last block is complete.
LEMMA MeasuredStep ==
  ASSUME Measurable, DurationInv, BenchMainOK, [BenchmarkNext]_benchVars
  PROVE  Measured'
<1>1. begun \subseteq begun' /\ finished \subseteq finished'
  BY StampsStay
<1>2. CASE MeasuringMain \/ Copied
  BY <1>1, <1>2 DEF DurationInv, Measured
<1>3. CASE Poll
  <2>1. PICK w \in Workers : complete[w]
    BY <1>3 DEF Poll
  <2>2. LastBlock \in finished
    BY <2>1 DEF DurationInv, Reported, Measurable
  <2>3. FirstBlock \in begun
    BY <2>2 DEF DurationInv, Silent
  <2>4. QED
    BY <1>1, <2>2, <2>3 DEF Measured
<1>4. CASE ~(MeasuringMain \/ Copied) /\ ~Poll
  <2>1. ~(MeasuringMain \/ Copied)'
    BY <1>4 DEF BenchmarkNext, Measuring, CopyStart, CopyEnd, MeasuringMain, Copied, Starting, StartSinks,
      StartBlocks, StartSources, Start, NextBlock, Shutdown, SetStop, Notify, Join, Return, LoopStep,
      Report, mainVars, benchVars, vars
  <2>2. QED
    BY <2>1 DEF Measured
<1>5. QED
  BY <1>2, <1>3, <1>4

LEMMA AlwaysDuration == ASSUME Measurable PROVE BenchmarkSpec => []DurationInv
<1>1. BenchmarkInit => DurationInv
  <2> SUFFICES ASSUME BenchmarkInit PROVE DurationInv
    OBVIOUS
  <2>1. Silent
    BY EndBlocks DEF BenchmarkInit, Init, WorkerInit, Silent, Sending
  <2>2. QED
    BY <2>1 DEF BenchmarkInit, Init, DurationInv, StampTypes, Reported, Measured, MeasuringMain, Copied
<1>2. GraphInv /\ DurationInv /\ [BenchmarkNext]_benchVars => DurationInv'
  BY StampTypesStep, SilentStep, ReportedStep, MeasuredStep DEF DurationInv, GraphInv
<1>3. QED
  BY <1>1, <1>2, GraphUnderBenchmark, PTL DEF BenchmarkSpec

\* When Graph::run computes the duration of a benchmark, both times have been
\* taken, whatever the workers do meanwhile.
THEOREM DurationMeasured == ASSUME Measurable PROVE BenchmarkSpec => []DurationReal
<1>1. DurationInv => DurationReal
  BY DEF DurationInv, Measured, MeasuringMain, DurationReal
<1>2. QED
  BY <1>1, AlwaysDuration, PTL

-----------------------------------------------------------------------------
(* The samples.                                                            *)

RecordTypes ==
  /\ starts \in [Workers -> [Samples -> Nat]]
  /\ ends \in [Workers -> [Samples -> Nat]]

\* Item n has its time at the source, unless it comes after all samples.
Stamped(n) == n \in Samples => starts[FirstBlock][n] = n

\* What the source has stamped: its items in order, the one it is about to
\* stamp excepted, and, once it makes no more, idle calls.
SourceCount ==
  /\ count[FirstBlock] <= TimingSamples
  /\ pc[FirstBlock] = "srccheck" =>
       \/ /\ count[FirstBlock] <= calls[FirstBlock] - 1
          /\ count[FirstBlock] = calls[FirstBlock] - 1 \/ count[FirstBlock] = TimingSamples
       \/ /\ calls[FirstBlock] >= MaxCalls /\ flag[FirstBlock] = 0
          /\ count[FirstBlock] >= calls[FirstBlock] \/ count[FirstBlock] = TimingSamples
  /\ pc[FirstBlock] # "srccheck" /\ ~Ended(FirstBlock) =>
       /\ count[FirstBlock] >= calls[FirstBlock] \/ count[FirstBlock] = TimingSamples
       /\ calls[FirstBlock] < MaxCalls => count[FirstBlock] <= calls[FirstBlock]

\* A sample is stamped once.
Vacant == \A j \in Samples : j > count[FirstBlock] => starts[FirstBlock][j] = None

\* Nothing leaves the source without its time.
Released ==
  /\ \A q \in Queues : \A j \in DOMAIN queue[q] : Stamped(queue[q][j])
  /\ \A i \in InPorts : Stamped(inputs[i])
  /\ \A w \in Workers \ {FirstBlock} : Stamped(output[w])
  /\ Sending(FirstBlock) => Stamped(output[FirstBlock])

StartInv == SourceCount /\ Vacant /\ Released

\* The sink counts its calls, and what it records for the k-th is item k.
SinkCount == count[LastBlock] = calls[LastBlock]

Matched == \A j \in Samples : ends[LastBlock][j] # None => ends[LastBlock][j] = j /\ Stamped(j)

\* It skips none.
Filled ==
  \A j \in Samples :
    j <= count[LastBlock] \/ (j = count[LastBlock] + 1 /\ pc[LastBlock] = "process") =>
      ends[LastBlock][j] = j

EndInv == SinkCount /\ Matched /\ Filled

SampleInv == RecordTypes /\ StartInv /\ EndInv

LEMMA RecordTypesStep ==
  ASSUME Measurable, WorkerTypeOK, RecordTypes, BenchMainOK, [BenchmarkNext]_benchVars
  PROVE  RecordTypes'
<1> USE DEF RecordTypes
<1>0. output \in [Workers -> Nat] /\ inputs \in [InPorts -> Nat]
  BY DEF WorkerTypeOK, VariableTypes
<1>1. CASE UNCHANGED stampVars
  BY <1>1 DEF stampVars
<1>2. ASSUME NEW w \in Workers, Recording(w) PROVE RecordTypes'
  <2>1. CASE SourceCheck(w) /\ StartStamp(w)
    <3>1. output[w] \in Nat /\ starts[w] \in [Samples -> Nat] /\ ends' = ends
      BY <1>0, <2>1 DEF StartStamp
    <3>2. [starts[w] EXCEPT ![count[w] + 1] = output[w]] \in [Samples -> Nat]
      BY <3>1
    <3>3. starts' = starts \/ starts' = [starts EXCEPT ![w] = [starts[w] EXCEPT ![count[w] + 1] = output[w]]]
      BY <2>1 DEF StartStamp
    <3>4. QED
      BY <3>1, <3>2, <3>3
  <2>2. CASE StopCheck(w) /\ EndStamp(w)
    <3>1. CASE ~stop[w] /\ Kind[w] = "sink" /\ count[w] < TimingSamples
      <4>1. ~Generates(w)
        BY <3>1 DEF Measurable
      <4>2. inputs[<<w, 0>>] \in Nat /\ ends[w] \in [Samples -> Nat] /\ starts' = starts
        BY <1>0, <2>2, <4>1, HasPortZero DEF EndStamp
      <4>3. [ends[w] EXCEPT ![count[w] + 1] = inputs[<<w, 0>>]] \in [Samples -> Nat]
        BY <4>2
      <4>4. ends' = [ends EXCEPT ![w] = [ends[w] EXCEPT ![count[w] + 1] = inputs[<<w, 0>>]]]
        BY <2>2, <3>1 DEF EndStamp
      <4>5. QED
        BY <4>2, <4>3, <4>4
    <3>2. CASE ~(~stop[w] /\ Kind[w] = "sink" /\ count[w] < TimingSamples)
      BY <2>2, <3>2 DEF EndStamp
    <3>3. QED
      BY <3>1, <3>2
  <2>3. CASE UNCHANGED <<starts, ends>>
    BY <2>3
  <2>4. QED
    BY <1>2, <2>1, <2>2, <2>3 DEF Recording, BeginStamp, CountItem, stampVars
<1>3. ASSUME NEW w \in Workers, Report(w) PROVE RecordTypes'
  BY <1>3 DEF Report
<1>4. QED
  BY <1>1, <1>2, <1>3, BenchmarkSteps

\* What a step does to the records of the source ...
LEMMA SourceRecords ==
  ASSUME StampTypes, RecordTypes, Measurable, BenchMainOK, [BenchmarkNext]_benchVars
  PROVE  \/ starts'[FirstBlock] = starts[FirstBlock] /\ count'[FirstBlock] = count[FirstBlock]
         \/ SourceCheck(FirstBlock) /\ StartStamp(FirstBlock)
<1>0. FirstBlock \in Workers /\ Kind[FirstBlock] = "source"
  BY EndBlocks DEF Measurable
<1>1. CASE UNCHANGED stampVars
  BY <1>1 DEF stampVars
<1>2. ASSUME NEW w \in Workers, Recording(w)
      PROVE  \/ starts'[FirstBlock] = starts[FirstBlock] /\ count'[FirstBlock] = count[FirstBlock]
             \/ SourceCheck(FirstBlock) /\ StartStamp(FirstBlock)
  <2>1. CASE SourceCheck(w) /\ StartStamp(w)
    <3>1. CASE w = FirstBlock
      BY <2>1, <3>1
    <3>2. CASE w # FirstBlock
      BY <1>0, <2>1, <3>2 DEF StartStamp, StampTypes, RecordTypes
    <3>3. QED
      BY <3>1, <3>2
  <2>2. CASE CountItem(w)
    <3>1. starts' = starts /\ (Kind[w] = "sink" \/ count' = count)
      BY <2>2 DEF CountItem
    <3>2. Kind[w] = "sink" => w # FirstBlock
      BY <1>0
    <3>3. Kind[w] = "sink" => count' = [count EXCEPT ![w] = @ + 1]
      BY <2>2 DEF CountItem
    <3>4. QED
      BY <1>0, <3>1, <3>2, <3>3 DEF StampTypes
  <2>3. CASE UNCHANGED <<starts, count>>
    BY <2>3
  <2>4. QED
    BY <1>2, <2>1, <2>2, <2>3 DEF Recording, BeginStamp, EndStamp, stampVars
<1>3. ASSUME NEW w \in Workers, Report(w)
      PROVE  starts'[FirstBlock] = starts[FirstBlock] /\ count'[FirstBlock] = count[FirstBlock]
  BY <1>3 DEF Report
<1>4. QED
  BY <1>1, <1>2, <1>3, BenchmarkSteps

\* It passes its stop test no other way.
LEMMA SourceStamps ==
  ASSUME Measurable, GraphInv, SourceCheck(FirstBlock), [BenchmarkNext]_benchVars
  PROVE  StartStamp(FirstBlock)
<1> DEFINE F == FirstBlock
<1>1. F \in Workers /\ WorkerTypeOK /\ BenchMainOK /\ pc \in [Workers -> Labels]
  BY EndBlocks DEF GraphInv, WorkerTypeOK, VariableTypes
<1>2. pc[F] = "srccheck" /\ pc'[F] # pc[F]
  BY <1>1 DEF SourceCheck, SendFrom, GoTo
<1>3. ~(UNCHANGED workerVars) /\ \A w \in Workers : ~Spawn(w) /\ ~Ask(w) /\ ~Report(w)
  BY <1>1, <1>2 DEF Report, vars, workerVars, Spawn, Ask, GoTo
<1>4. PICK w \in Workers : Recording(w)
  BY <1>1, <1>3, BenchmarkSteps
<1>5. w = F
  BY <1>1, <1>2, <1>4, RecordingIsStep, Locality
<1>6. QED
  BY <1>2, <1>4, <1>5 DEF Recording, FunctionInit, StopCheck, ProcessData, IdleCall, WhileTest, Read, Dequeue,
     TimedOut, NoData, Decrement, PortRead, Send, Admit, Enqueue, Increment, Cleanup

\* What a step of its loop does to the source's count of calls.
LEMMA SourceCountStep ==
  ASSUME StampTypes, RecordTypes, Measurable, AllSend, GraphInv, SourceCount, [BenchmarkNext]_benchVars
  PROVE  SourceCount'
<1> DEFINE F == FirstBlock
<1>1. /\ F \in Workers /\ Kind[F] = "source" /\ Generates(F)
      /\ pc \in [Workers -> Labels] /\ calls \in [Workers -> Nat] /\ flag \in [Workers -> {0, 1}]
      /\ count \in [Workers -> Nat] /\ TimingSamples \in Nat /\ MaxCalls \in Nat
  BY EndBlocks, BenchmarkAssumption, ShapeAssumption DEF Measurable, Generates, GraphInv, WorkerTypeOK,
     VariableTypes, StampTypes, BenchmarkAssumption, ShapeAssumption
<1>2. BenchMainOK /\ WorkerTypeOK /\ WorkerStep
  BY BenchmarkWorkerStep DEF GraphInv
<1>3. CASE SourceCheck(F) /\ StartStamp(F)
  <2>1. /\ pc[F] = "srccheck" /\ calls'[F] = calls[F] /\ pc'[F] # "srccheck"
        /\ stop[F] => pc'[F] = "cleanup"
        /\ count'[F] = IF ~stop[F] /\ count[F] < TimingSamples THEN count[F] + 1 ELSE count[F]
    BY <1>1, <1>3 DEF SourceCheck, StartStamp, SendFrom, GoTo
  <2>2. QED
    BY <1>1, <2>1 DEF SourceCount, Ended
<1>4. CASE count'[F] = count[F] /\ ~SourceCheck(F)
  <2>1. CASE \E w \in Workers \ {F} : ThreadStep(w)
    <3>1. /\ pc'[F] = pc[F] /\ flag'[F] = flag[F]
      BY <1>1, <1>2, <2>1, Locality
    <3>2. calls'[F] = calls[F]
      <4>1. PICK w \in Workers \ {F} : ThreadStep(w)
        BY <2>1
      <4>2. ProcessData(w) => calls'[F] = calls[F]
        BY <1>1 DEF ProcessData
      <4>3. ~ProcessData(w) => calls' = calls
        BY <4>1 DEF ThreadStep, FunctionInit, WhileTest, Read, Dequeue, TimedOut, NoData, Decrement,
           PortRead, Process, StopCheck, IdleCall, SourceCheck, Send, Admit, Enqueue, Increment, Cleanup
      <4>4. QED
        BY <4>2, <4>3
    <3>3. QED
      BY <1>4, <3>1, <3>2 DEF SourceCount, Ended
  <2>2. CASE ThreadStep(F)
    <3>1. CASE ProcessData(F)
      <4>1. calls[F] < MaxCalls /\ calls'[F] = calls[F] + 1 /\ pc[F] = "process"
        BY <1>1, <3>1 DEF ProcessData, CallBound
      <4>2. pc'[F] = "srccheck"
        BY <1>1, <3>1 DEF ProcessData, GoTo, AfterProcess
      <4>3. QED
        BY <1>1, <1>4, <4>1, <4>2 DEF SourceCount, Ended
    <3>2. CASE IdleCall(F)
      <4>1. calls[F] >= MaxCalls /\ calls'[F] = calls[F] /\ pc[F] = "process" /\ flag'[F] = 0
        BY <1>1, <3>2 DEF IdleCall, CallBound
      <4>2. pc'[F] = "srccheck"
        BY <1>1, <3>2 DEF IdleCall, GoTo, AfterProcess
      <4>3. QED
        BY <1>1, <1>4, <4>1, <4>2 DEF SourceCount, Ended
    <3>3. CASE ~ProcessData(F) /\ ~IdleCall(F)
      <4>1. calls' = calls
        BY <2>2, <3>3 DEF ThreadStep, FunctionInit, WhileTest, Read, Dequeue, TimedOut, NoData, Decrement,
           PortRead, Process, StopCheck, SourceCheck, Send, Admit, Enqueue, Increment, Cleanup
      <4>2. pc[F] # "srccheck" /\ pc'[F] # "srccheck"
        BY <1>1, <1>4, <2>2, <3>3 DEF ThreadStep, FunctionInit, WhileTest, ReadFrom, Read, Dequeue, TimedOut,
           NoData, AfterTimeout, Decrement, PortRead, Process, StopCheck, SourceCheck, Send, Admit,
           Enqueue, Increment, SendFrom, Cleanup, GoTo
      <4>3. Ended(F) => Ended(F)'
        BY <1>1, <1>2, <2>2, EndedStays
      <4>4. QED
        BY <1>4, <4>1, <4>2, <4>3 DEF SourceCount
    <3>4. QED
      BY <3>1, <3>2, <3>3
  <2>3. CASE UNCHANGED workerVars \/ \E w \in Workers : Spawn(w) \/ Ask(w)
    BY <1>1, <1>4, <2>3 DEF workerVars, Spawn, Ask, GoTo, SourceCount, Ended
  <2>4. QED
    BY <1>2, <2>1, <2>2, <2>3 DEF WorkerStep
<1>5. QED
  BY <1>2, <1>3, <1>4, SourceRecords, SourceStamps

\* The stamp of the next sample: the place is vacant, and it stays taken.
LEMMA StampStep ==
  ASSUME StampTypes, RecordTypes, Measurable, BenchMainOK, Vacant, [BenchmarkNext]_benchVars
  PROVE  Vacant' /\ \A n : Stamped(n) => Stamped(n)'
<1> DEFINE F == FirstBlock
<1>1. /\ F \in Workers /\ count \in [Workers -> Nat] /\ starts \in [Workers -> [Samples -> Nat]]
      /\ Samples \subseteq Nat \ {0} /\ count[F] \in Nat
  BY EndBlocks, BenchmarkAssumption DEF StampTypes, RecordTypes, Samples, BenchmarkAssumption
<1>2. CASE starts'[F] = starts[F] /\ count'[F] = count[F]
  BY <1>2 DEF Vacant, Stamped
<1>3. CASE StartStamp(F)
  <2>1. CASE ~stop[F] /\ count[F] < TimingSamples
    <3>1. /\ count'[F] = count[F] + 1
          /\ \A j \in Samples : j # count[F] + 1 => starts'[F][j] = starts[F][j]
      BY <1>1, <1>3, <2>1 DEF StartStamp
    <3>2. \A j \in Samples : j > count[F] + 1 => j > count[F]
      BY <1>1
    <3>3. Vacant'
      BY <1>1, <3>1, <3>2 DEF Vacant
    <3>4. ASSUME NEW n, Stamped(n) PROVE Stamped(n)'
      <4>1. n \in Samples /\ n = count[F] + 1 => starts[F][n] = None
        BY <1>1 DEF Vacant
      <4>2. n \in Samples => n # count[F] + 1
        BY <1>1, <3>4, <4>1 DEF Stamped, None
      <4>3. QED
        BY <3>1, <3>4, <4>2 DEF Stamped
    <3>5. QED
      BY <3>3, <3>4
  <2>2. CASE ~(~stop[F] /\ count[F] < TimingSamples)
    BY <1>3, <2>2 DEF StartStamp, Vacant, Stamped
  <2>3. QED
    BY <2>1, <2>2
<1>4. QED
  BY <1>2, <1>3, SourceRecords

\* An item that the source is about to send has just been stamped.
LEMMA SentStamped ==
  ASSUME StampTypes, RecordTypes, Measurable, WorkerTypeOK, OwnCount, SourceCount,
         SourceCheck(FirstBlock), StartStamp(FirstBlock), Sending(FirstBlock)'
  PROVE  Stamped(output[FirstBlock])'
<1> DEFINE F == FirstBlock
<1>1. /\ F \in Workers /\ count \in [Workers -> Nat] /\ starts \in [Workers -> [Samples -> Nat]]
      /\ Samples = 1 .. TimingSamples /\ TimingSamples \in Nat /\ calls[F] \in Nat /\ output[F] = calls[F]
      /\ pc \in [Workers -> Labels] /\ output' = output
  BY EndBlocks, BenchmarkAssumption DEF StampTypes, RecordTypes, Samples, BenchmarkAssumption, WorkerTypeOK,
     VariableTypes, OwnCount, SourceCheck
<1>2. pc[F] = "srccheck" /\ ~stop[F] /\ flag[F] > 0
  BY <1>1 DEF SourceCheck, GoTo, Sending
<1>3. count[F] <= calls[F] - 1 /\ (count[F] = calls[F] - 1 \/ count[F] = TimingSamples)
  BY <1>2 DEF SourceCount
<1>4. CASE count[F] = TimingSamples
  <2>1. calls[F] \notin Samples
    BY <1>1, <1>3, <1>4
  <2>2. QED
    BY <1>1, <2>1 DEF Stamped
<1>5. CASE count[F] = calls[F] - 1 /\ count[F] # TimingSamples
  <2>1. count[F] < TimingSamples /\ count[F] + 1 = calls[F] /\ calls[F] \in Samples
    BY <1>1, <1>5 DEF SourceCount
  <2>2. starts'[F][calls[F]] = calls[F]
    BY <1>1, <1>2, <2>1 DEF StartStamp
  <2>3. QED
    BY <1>1, <2>2 DEF Stamped
<1>6. QED
  BY <1>3, <1>4, <1>5

LEMMA ReleasedThread ==
  ASSUME Measurable, GraphInv, Released, NEW w \in Workers, ThreadStep(w),
         \A n : Stamped(n) => Stamped(n)',
         SourceCheck(FirstBlock) /\ Sending(FirstBlock)' => Stamped(output[FirstBlock])'
  PROVE  Released'
<1> DEFINE F == FirstBlock
<1>1. /\ F \in Workers /\ Kind[F] = "source" /\ WorkerTypeOK /\ pc \in [Workers -> Labels]
      /\ inputs \in [InPorts -> Nat] /\ output \in [Workers -> Nat]
      /\ queue \in [Queues -> Seq(Nat \ {None})]
      /\ \A v \in Workers \ {F} : ~Generates(v)
  BY EndBlocks DEF Measurable, GraphInv, WorkerTypeOK, VariableTypes
<1>2. Stamped(None)
  BY BenchmarkAssumption DEF Stamped, Samples, None
<1>3. CASE MovesNothing(w)
  <2>1. /\ queue' = queue /\ output' = output
        /\ \A i \in InPorts : inputs'[i] = inputs[i] \/ inputs'[i] = None
    BY <1>1, <1>3, MovesNothingCalm DEF Calm, MovesNothing, FunctionInit, WhileTest, TimedOut, NoData, Decrement,
       PortRead, StopCheck, IdleCall, SourceCheck, Admit, Increment, Cleanup
  <2>2. Stamped(None)'
    BY <1>2
  <2>3. \A i \in InPorts : Stamped(inputs[i])'
    BY <2>1, <2>2 DEF Released, Stamped
  <2>4. Sending(F)' => Stamped(output[F])'
    <3>1. SUFFICES ASSUME Sending(F)' PROVE Sending(F) \/ SourceCheck(F)
      BY <2>1 DEF Released, Stamped
    <3>2. CASE w # F
      BY <1>1, <3>1, <3>2, Locality DEF Sending
    <3>3. CASE w = F
      BY <1>1, <1>3, <3>1, <3>3 DEF MovesNothing, FunctionInit, WhileTest, ReadFrom, TimedOut, NoData,
         AfterTimeout, Decrement, PortRead, StopCheck, IdleCall, AfterProcess, Admit, Increment, Cleanup,
         GoTo, Sending
    <3>4. QED
      BY <3>2, <3>3
  <2>5. QED
    BY <2>1, <2>3, <2>4 DEF Released, Stamped
<1>4. CASE Dequeue(w)
  <2>0. PICK i0 \in InPorts : i0 = <<w, port[w]>>
    BY <1>1, <1>4 DEF Dequeue, WorkerTypeOK, PortInRange, Reading
  <2>1. PICK q0 \in Queues : q0 = InputQueue[i0]
    BY <1>1, Numbers
  <2>2. /\ queue[q0] # <<>> /\ queue' = [queue EXCEPT ![q0] = Tail(@)] /\ output' = output
        /\ inputs' = [inputs EXCEPT ![i0] = Head(queue[q0])] /\ (Sending(F)' => Sending(F))
    BY <1>1, <1>4, <2>0, <2>1 DEF Dequeue, InQueue, GoTo, Sending
  <2>3. /\ \A j \in DOMAIN queue'[q0] : j + 1 \in DOMAIN queue[q0] /\ queue'[q0][j] = queue[q0][j + 1]
        /\ 1 \in DOMAIN queue[q0] /\ inputs'[i0] = queue[q0][1]
    <3>1. /\ queue[q0] \in Seq(Nat \ {None}) /\ queue[q0] # <<>> /\ queue'[q0] = Tail(queue[q0])
          /\ inputs'[i0] = Head(queue[q0])
      BY <1>1, <2>2
    <3>2. QED
      BY <3>1
  <2>4. \A j \in DOMAIN queue[q0] : Stamped(queue[q0][j])
    BY DEF Released
  <2>5. \A q \in Queues : \A j \in DOMAIN queue'[q] : Stamped(queue'[q][j])
    BY <1>1, <2>2, <2>3, <2>4 DEF Released
  <2>6. \A i \in InPorts : Stamped(inputs'[i])
    BY <1>1, <2>2, <2>3, <2>4 DEF Released
  <2>7. QED
    BY <2>2, <2>5, <2>6 DEF Released, Stamped
<1>5. CASE Enqueue(w)
  <2>0. PICK q0 \in Queues : q0 = OutQueue(w)
    BY <1>1, <1>5, Numbers DEF Enqueue, WorkerTypeOK, PortInRange, Sending, OutQueue
  <2>1. /\ queue' = [queue EXCEPT ![q0] = Append(@, output[w])] /\ output' = output /\ inputs' = inputs
        /\ (Sending(F)' => Sending(F)) /\ Sending(w) /\ output[w] \in Nat \ {None}
    BY <1>1, <1>5, <2>0 DEF Enqueue, GoTo, Sending, WorkerTypeOK, PortInRange
  <2>2. Stamped(output[w])
    BY <2>1 DEF Released
  <2>3. \A j \in DOMAIN queue'[q0] :
          (j \in DOMAIN queue[q0] /\ queue'[q0][j] = queue[q0][j]) \/ queue'[q0][j] = output[w]
    <3>1. queue[q0] \in Seq(Nat \ {None}) /\ queue'[q0] = Append(queue[q0], output[w])
      BY <1>1, <2>1
    <3>2. QED
      BY <2>1, <3>1
  <2>4. \A q \in Queues : \A j \in DOMAIN queue'[q] : Stamped(queue'[q][j])
    BY <1>1, <2>1, <2>2, <2>3 DEF Released
  <2>5. QED
    BY <2>1, <2>4 DEF Released, Stamped
<1>6. CASE ProcessData(w)
  <2>1. /\ queue' = queue /\ inputs' = inputs
        /\ output' = [output EXCEPT ![w] = IF Generates(w) THEN calls[w] + 1 ELSE inputs[<<w, 0>>]]
    BY <1>6 DEF ProcessData
  <2>2. \A v \in Workers \ {F} : Stamped(output'[v])
    BY <1>1, <2>1, HasPortZero DEF Released
  <2>3. Sending(F)' => Sending(F) /\ w # F
    <3>1. CASE w = F
      BY <1>1, <1>6, <3>1 DEF ProcessData, AfterProcess, GoTo, Sending
    <3>2. CASE w # F
      BY <1>1, <3>2, Locality DEF Sending
    <3>3. QED
      BY <3>1, <3>2
  <2>4. Sending(F)' => Stamped(output'[F])
    BY <1>1, <2>1, <2>3 DEF Released
  <2>5. QED
    BY <2>1, <2>2, <2>4 DEF Released, Stamped
<1>7. QED
  BY <1>3, <1>4, <1>5, <1>6 DEF ThreadStep, Read, Process, Send, MovesNothing

LEMMA StartInvStep ==
  ASSUME AllSend, Measurable, GraphInv, InStep, StampTypes, RecordTypes, StartInv, [BenchmarkNext]_benchVars
  PROVE  StartInv' /\ \A n : Stamped(n) => Stamped(n)'
<1>1. SourceCount' /\ Vacant' /\ \A n : Stamped(n) => Stamped(n)'
  BY SourceCountStep, StampStep DEF StartInv, GraphInv
<1>2. SourceCheck(FirstBlock) /\ Sending(FirstBlock)' => Stamped(output[FirstBlock])'
  BY SourceStamps, SentStamped DEF InStep, StartInv, GraphInv
<1>3. Released /\ WorkerStep /\ pc \in [Workers -> Labels]
  BY BenchmarkWorkerStep DEF StartInv, GraphInv, WorkerTypeOK, VariableTypes
<1>4. ASSUME UNCHANGED workerVars \/ \E w \in Workers : Spawn(w) \/ Ask(w) PROVE Released'
  <2>1. /\ queue' = queue /\ inputs' = inputs /\ output' = output
        /\ Sending(FirstBlock)' => Sending(FirstBlock)
    BY <1>3, <1>4, EndBlocks DEF workerVars, Spawn, Ask, GoTo, Sending
  <2>2. QED
    BY <1>1, <1>3, <2>1 DEF Released, Stamped
<1>5. ASSUME NEW w \in Workers, ThreadStep(w) PROVE Released'
  BY <1>1, <1>2, <1>3, <1>5, ReleasedThread
<1>6. QED
  BY <1>1, <1>3, <1>4, <1>5 DEF StartInv, WorkerStep

\* What a step does to the records of the sink.
LEMMA SinkRecords ==
  ASSUME StampTypes, RecordTypes, Measurable, GraphInv, [BenchmarkNext]_benchVars
  PROVE  \/ /\ ends'[LastBlock] = ends[LastBlock] /\ count'[LastBlock] = count[LastBlock]
            /\ calls'[LastBlock] = calls[LastBlock]
            /\ pc'[LastBlock] = "process" => pc[LastBlock] = "process"
         \/ StopCheck(LastBlock) /\ EndStamp(LastBlock)
         \/ ProcessData(LastBlock) /\ CountItem(LastBlock)
<1> DEFINE L == LastBlock
           Same == /\ ends'[L] = ends[L] /\ count'[L] = count[L] /\ calls'[L] = calls[L]
                   /\ pc'[L] = "process" => pc[L] = "process"
<1>0. /\ L \in Workers /\ Kind[L] = "sink" /\ ~Generates(L) /\ WorkerTypeOK /\ BenchMainOK
      /\ pc \in [Workers -> Labels] /\ calls \in [Workers -> Nat] /\ count \in [Workers -> Nat]
  BY EndBlocks DEF Measurable, GraphInv, WorkerTypeOK, VariableTypes, StampTypes
<1>1. CASE UNCHANGED stampVars /\ (UNCHANGED workerVars \/ \E w \in Workers : Spawn(w) \/ Ask(w))
  <2>1. Same
    BY <1>0, <1>1 DEF stampVars, workerVars, Spawn, Ask, GoTo
  <2>2. QED
    BY <2>1
<1>2. ASSUME NEW w \in Workers, Recording(w), w = L
      PROVE  Same \/ (StopCheck(L) /\ EndStamp(L)) \/ (ProcessData(L) /\ CountItem(L))
  <2>1. ~IdleCall(L)
    BY <1>0 DEF IdleCall, CallBound
  <2>2. ~SourceCheck(L)
    BY <1>0 DEF SourceCheck, GraphInv, Rounds, RoundAt
  <2>3. (FunctionInit(L) /\ BeginStamp(L)) \/ ((WhileTest(L) \/ Read(L) \/ Send(L) \/ Cleanup(L)) /\ UNCHANGED stampVars)
          => Same
    BY <1>0 DEF FunctionInit, BeginStamp, WhileTest, ReadFrom, Read, Dequeue, TimedOut, NoData, AfterTimeout,
       Decrement, PortRead, Send, Admit, Enqueue, Increment, SendFrom, Cleanup, GoTo, stampVars
  <2>4. QED
    BY <1>2, <2>1, <2>2, <2>3 DEF Recording
<1>3. ASSUME NEW w \in Workers, Recording(w), w # L
      PROVE  Same
  <2>1. pc'[L] = pc[L]
    BY <1>0, <1>3, RecordingIsStep, Locality
  <2>2. calls'[L] = calls[L]
    <3>1. ProcessData(w) => calls'[L] = calls[L]
      BY <1>0, <1>3 DEF ProcessData
    <3>2. ~ProcessData(w) => calls' = calls
      BY <1>3 DEF Recording, FunctionInit, WhileTest, Read, Dequeue, TimedOut, NoData, Decrement,
         PortRead, StopCheck, IdleCall, SourceCheck, Send, Admit, Enqueue, Increment, Cleanup
    <3>3. QED
      BY <3>1, <3>2
  <2>3. ends'[L] = ends[L] /\ count'[L] = count[L]
    BY <1>0, <1>3 DEF Recording, BeginStamp, StartStamp, EndStamp, CountItem, stampVars, StampTypes, RecordTypes
  <2>4. QED
    BY <2>1, <2>2, <2>3
<1>4. ASSUME NEW w \in Workers, Report(w) PROVE Same
  BY <1>4 DEF Report, vars, workerVars
<1>5. QED
  BY <1>0, <1>1, <1>2, <1>3, <1>4, BenchmarkSteps

LEMMA EndInvStep ==
  ASSUME Measurable, GraphInv, InStep, StampTypes, RecordTypes, StartInv, EndInv, [BenchmarkNext]_benchVars,
         \A n : Stamped(n) => Stamped(n)'
  PROVE  EndInv'
<1> DEFINE L == LastBlock
<1>1. /\ L \in Workers /\ Kind[L] = "sink" /\ ~Generates(L) /\ WorkerTypeOK /\ CompleteAt(L)
      /\ pc \in [Workers -> Labels] /\ calls \in [Workers -> Nat] /\ count \in [Workers -> Nat]
      /\ ends \in [Workers -> [Samples -> Nat]] /\ Samples = 1 .. TimingSamples /\ TimingSamples \in Nat
      /\ <<L, 0>> \in InPorts /\ 0 \in Ins(L)
  BY EndBlocks, HasPortZero, BenchmarkAssumption DEF Measurable, GraphInv, WorkerTypeOK, VariableTypes, StampTypes,
     RecordTypes, Complete, Samples, BenchmarkAssumption
<1>2. CASE /\ ends'[L] = ends[L] /\ count'[L] = count[L] /\ calls'[L] = calls[L]
           /\ pc'[L] = "process" => pc[L] = "process"
  <2>1. SinkCount' /\ Filled'
    BY <1>2 DEF EndInv, SinkCount, Filled
  <2>2. Matched'
    BY <1>2 DEF EndInv, Matched
  <2>3. QED
    BY <2>1, <2>2 DEF EndInv
<1>3. CASE StopCheck(L) /\ EndStamp(L)
  <2>1. /\ pc[L] = "check" /\ pc'[L] = (IF stop[L] THEN "cleanup" ELSE "process")
        /\ calls' = calls /\ count' = count
    BY <1>1, <1>3 DEF StopCheck, EndStamp, GoTo
  <2>2. SinkCount'
    BY <2>1 DEF EndInv, SinkCount
  <2>3. CASE ~stop[L] /\ count[L] < TimingSamples
    <3>1. inputs[<<L, 0>>] = count[L] + 1 /\ Stamped(count[L] + 1)
      <4>1. inputs[<<L, 0>>] # None
        BY <1>1, <2>1, <2>3 DEF CompleteAt
      <4>2. PICK i \in InPorts : i = <<L, 0>> /\ i[1] = L
        BY <1>1
      <4>3. inputs[i] = calls[L] + 1
        BY <1>1, <2>1, <4>1, <4>2 DEF InStep, InTurn, Handling, Ended
      <4>4. Stamped(inputs[i])
        BY DEF StartInv, Released
      <4>5. QED
        BY <4>2, <4>3, <4>4 DEF EndInv, SinkCount
    <3>2. /\ count[L] + 1 \in Samples /\ ends'[L][count[L] + 1] = count[L] + 1
          /\ \A j \in Samples : j # count[L] + 1 => ends'[L][j] = ends[L][j]
      BY <1>1, <1>3, <2>3, <3>1 DEF EndStamp
    <3>3. Matched'
      BY <3>1, <3>2 DEF EndInv, Matched
    <3>4. Filled'
      <4>1. \A j \in Samples : j <= count[L] => j # count[L] + 1
        BY <1>1
      <4>2. QED
        BY <2>1, <3>2, <4>1 DEF EndInv, Filled
    <3>5. QED
      BY <2>2, <3>3, <3>4 DEF EndInv
  <2>4. CASE ~(~stop[L] /\ count[L] < TimingSamples)
    <3>1. ends' = ends
      BY <1>3, <2>4 DEF EndStamp
    <3>2. pc'[L] # "process" \/ count[L] + 1 \notin Samples
      BY <1>1, <2>1, <2>4
    <3>3. Filled' /\ Matched'
      BY <2>1, <3>1, <3>2 DEF EndInv, Filled, Matched
    <3>4. QED
      BY <2>2, <3>3 DEF EndInv
  <2>5. QED
    BY <2>3, <2>4
<1>4. CASE ProcessData(L) /\ CountItem(L)
  <2>1. /\ pc[L] = "process" /\ pc'[L] # "process" /\ calls'[L] = calls[L] + 1
        /\ count'[L] = count[L] + 1 /\ ends' = ends
    BY <1>1, <1>4 DEF ProcessData, CountItem, AfterProcess, GoTo
  <2>2. SinkCount' /\ Matched'
    BY <2>1 DEF EndInv, SinkCount, Matched
  <2>3. Filled'
    <3>1. \A j \in Samples : j <= count[L] + 1 => j <= count[L] \/ j = count[L] + 1
      BY <1>1
    <3>2. QED
      BY <2>1, <3>1 DEF EndInv, Filled
  <2>4. QED
    BY <2>2, <2>3 DEF EndInv
<1>5. QED
  BY <1>2, <1>3, <1>4, SinkRecords

LEMMA InitSamples == BenchmarkInit => SampleInv
<1> SUFFICES ASSUME BenchmarkInit PROVE SampleInv
  OBVIOUS
<1>1. /\ \A w \in Workers : pc[w] = "unborn" /\ calls[w] = 0 /\ count[w] = 0 /\ output[w] = 0
      /\ \A w \in Workers : starts[w] = Unstamped /\ ends[w] = Unstamped
      /\ \A q \in Queues : queue[q] = <<>>
      /\ \A i \in InPorts : inputs[i] = 0
      /\ FirstBlock \in Workers /\ LastBlock \in Workers /\ 0 \notin Samples
      /\ TimingSamples \in Nat
  BY EndBlocks, BenchmarkAssumption DEF BenchmarkInit, Init, WorkerInit, None, Samples, BenchmarkAssumption
<1>2. RecordTypes
  BY DEF BenchmarkInit, RecordTypes, Unstamped, None
<1>3. SourceCount /\ Vacant
  BY <1>1 DEF SourceCount, Vacant, Unstamped, Ended
<1>4. Released
  BY <1>1 DEF Released, Stamped, Sending
<1>5. SinkCount /\ Matched
  BY <1>1 DEF SinkCount, Matched, Unstamped
<1>6. Filled
  <2>1. \A j \in Samples : ~(j <= 0)
    BY DEF Samples
  <2>2. QED
    BY <1>1, <2>1 DEF Filled
<1>7. QED
  BY <1>2, <1>3, <1>4, <1>5, <1>6 DEF SampleInv, StartInv, EndInv

LEMMA AlwaysSamples == ASSUME Measurable, AllSend PROVE BenchmarkSpec => []SampleInv
<1>1. GraphInv /\ InStep /\ DurationInv /\ SampleInv /\ [BenchmarkNext]_benchVars => SampleInv'
  <2> SUFFICES ASSUME GraphInv, InStep, DurationInv, SampleInv, [BenchmarkNext]_benchVars PROVE SampleInv'
    OBVIOUS
  <2>1. StampTypes /\ WorkerTypeOK /\ BenchMainOK
    BY DEF DurationInv, GraphInv
  <2>2. RecordTypes'
    BY <2>1, RecordTypesStep DEF SampleInv
  <2>3. StartInv' /\ \A n : Stamped(n) => Stamped(n)'
    BY <2>1, StartInvStep DEF SampleInv
  <2>4. EndInv'
    BY <2>1, <2>3, EndInvStep DEF SampleInv
  <2>5. QED
    BY <2>2, <2>3, <2>4 DEF SampleInv
<1>2. QED
  BY <1>1, InitSamples, GraphUnderBenchmark, InStepUnderBenchmark, AlwaysDuration, PTL DEF BenchmarkSpec

\* In any such graph whose blocks pass everything on, source and sink, each
\* counting by itself, take their k-th time for the same item.
THEOREM TimesPaired == ASSUME Measurable, AllSend PROVE BenchmarkSpec => []Paired
<1>1. SampleInv => Paired
  BY DEF SampleInv, EndInv, Matched, Stamped, Paired
<1>2. QED
  BY <1>1, AlwaysSamples, PTL

-----------------------------------------------------------------------------
(* The records that Graph::run makes.                                      *)

\* The sink is finished when it has made its count of calls.
Enough == LastBlock \in finished => count[LastBlock] >= BenchCount[LastBlock]

\* What has been copied so far is what was measured, if the count is not below
\* the number of samples.
CopiedUpTo(copy, n) == \A j \in Samples : j < n => copy[j] = j

CopiesInStep ==
  /\ main = "starts" => CopiedUpTo(startCopy, k)
  /\ main = "ends" \/ Copied => \A j \in Samples : startCopy[j] = j
  /\ main = "ends" => CopiedUpTo(endCopy, k)
  /\ Copied => \A j \in Samples : endCopy[j] = j
  /\ main \notin {"starts", "ends"} => k = 1

CopyInv ==
  /\ k \in Samples /\ startCopy \in [Samples -> Nat] /\ endCopy \in [Samples -> Nat]
  /\ Enough
  /\ BenchCount[LastBlock] >= TimingSamples => CopiesInStep

LEMMA EnoughStep ==
  ASSUME StampTypes, Enough, BenchMainOK, [BenchmarkNext]_benchVars
  PROVE  Enough'
<1> DEFINE L == LastBlock
<1>1. L \in Workers /\ count \in [Workers -> Nat] /\ BenchCount[L] \in Nat
  BY EndBlocks, BenchmarkAssumption DEF StampTypes, BenchmarkAssumption
<1>2. CASE UNCHANGED stampVars
  BY <1>2 DEF stampVars, Enough
<1>3. ASSUME NEW w \in Workers, Recording(w) PROVE Enough'
  <2>1. CASE CountItem(w)
    <3>1. count'[L] >= count[L]
      BY <1>1, <2>1 DEF CountItem
    <3>2. L \in finished' => L \in finished \/ count'[L] = BenchCount[L]
      BY <2>1 DEF CountItem
    <3>3. count'[L] \in Nat
      BY <1>1, <2>1 DEF CountItem
    <3>4. QED
      BY <1>1, <3>1, <3>2, <3>3 DEF Enough
  <2>2. CASE StartStamp(w)
    <3>1. count'[L] >= count[L] /\ count'[L] \in Nat /\ finished' = finished
      BY <1>1, <2>2 DEF StartStamp
    <3>2. QED
      BY <1>1, <3>1 DEF Enough
  <2>3. CASE count' = count /\ finished' = finished
    BY <2>3 DEF Enough
  <2>4. QED
    BY <1>3, <2>1, <2>2, <2>3 DEF Recording, BeginStamp, EndStamp, stampVars
<1>4. ASSUME NEW w \in Workers, Report(w) PROVE Enough'
  BY <1>4 DEF Report, Enough
<1>5. QED
  BY <1>2, <1>3, <1>4, BenchmarkSteps

\* All samples are there when the copying begins.
LEMMA AllMeasured ==
  ASSUME SampleInv, DurationInv, CopyInv, BenchCount[LastBlock] >= TimingSamples, MeasuringMain
  PROVE  \A j \in Samples : starts[FirstBlock][j] = j /\ ends[LastBlock][j] = j
<1> SUFFICES ASSUME NEW j \in Samples PROVE starts[FirstBlock][j] = j /\ ends[LastBlock][j] = j
  OBVIOUS
<1>1. /\ j \in Nat /\ j <= TimingSamples /\ j # None /\ TimingSamples \in Nat
      /\ BenchCount[LastBlock] \in Nat /\ count[LastBlock] \in Nat
  BY EndBlocks, BenchmarkAssumption DEF Samples, None, BenchmarkAssumption, DurationInv, StampTypes
<1>2. count[LastBlock] >= BenchCount[LastBlock]
  BY DEF DurationInv, Measured, CopyInv, Enough
<1>3. ends[LastBlock][j] = j
  BY <1>1, <1>2 DEF SampleInv, EndInv, Filled
<1>4. QED
  BY <1>1, <1>3 DEF SampleInv, EndInv, Matched, Stamped

LEMMA CopyStep ==
  ASSUME SampleInv, DurationInv, CopyInv, BenchMainOK, [BenchmarkNext]_benchVars
  PROVE  CopyInv'
<1>1. /\ k \in Samples /\ Samples = 1 .. TimingSamples /\ TimingSamples \in Nat \ {0}
      /\ startCopy \in [Samples -> Nat] /\ endCopy \in [Samples -> Nat]
      /\ starts[FirstBlock] \in [Samples -> Nat] /\ ends[LastBlock] \in [Samples -> Nat]
  BY EndBlocks, BenchmarkAssumption DEF CopyInv, Samples, BenchmarkAssumption, SampleInv, RecordTypes
<1>2. Enough'
  BY EnoughStep DEF CopyInv, DurationInv
<1>3. CASE UNCHANGED copyVars /\ (main' = main \/ (~MeasuringMain /\ ~MeasuringMain' /\ (Copied' => Copied)))
  BY <1>1, <1>2, <1>3 DEF copyVars, CopyInv, CopiesInStep, CopiedUpTo, MeasuringMain, Copied
<1>4. CASE Poll
  BY <1>1, <1>2, <1>4 DEF Poll, copyVars, CopyInv, CopiesInStep, CopiedUpTo, Copied
<1>5. CASE CopyStart
  <2>1. /\ main = "starts" /\ endCopy' = endCopy /\ startCopy'[k] = starts[FirstBlock][k]
        /\ \A j \in Samples : j # k => startCopy'[j] = startCopy[j]
        /\ startCopy' \in [Samples -> Nat]
        /\ IF k < TimingSamples THEN k' = k + 1 /\ main' = "starts" ELSE k' = 1 /\ main' = "ends"
    BY <1>1, <1>5 DEF CopyStart, NextSample
  <2>2. k' \in Samples /\ ~Copied' /\ main' \in {"starts", "ends"}
    BY <1>1, <2>1 DEF Copied
  <2>3. ASSUME BenchCount[LastBlock] >= TimingSamples PROVE CopiesInStep'
    <3>1. startCopy'[k] = k
      BY <1>1, <2>1, <2>3, AllMeasured DEF MeasuringMain
    <3>2. \A j \in Samples : j < k + 1 => startCopy'[j] = j
      <4>1. \A j \in Samples : j < k + 1 => j < k \/ j = k
        BY <1>1
      <4>2. QED
        BY <2>1, <2>3, <3>1, <4>1 DEF CopyInv, CopiesInStep, CopiedUpTo
    <3>3. CASE k < TimingSamples
      BY <2>1, <2>2, <3>2, <3>3 DEF CopiesInStep, CopiedUpTo
    <3>4. CASE ~(k < TimingSamples)
      <4>1. \A j \in Samples : j < k + 1 /\ ~(j < 1)
        BY <1>1, <3>4
      <4>2. QED
        BY <2>1, <2>2, <3>2, <3>4, <4>1 DEF CopiesInStep, CopiedUpTo
    <3>5. QED
      BY <3>3, <3>4
  <2>4. QED
    BY <1>1, <1>2, <2>1, <2>2, <2>3 DEF CopyInv
<1>6. CASE CopyEnd
  <2>1. /\ main = "ends" /\ startCopy' = startCopy /\ endCopy'[k] = ends[LastBlock][k]
        /\ \A j \in Samples : j # k => endCopy'[j] = endCopy[j]
        /\ endCopy' \in [Samples -> Nat]
        /\ IF k < TimingSamples THEN k' = k + 1 /\ main' = "ends" ELSE k' = 1 /\ main' = "stop"
    BY <1>1, <1>6 DEF CopyEnd, NextSample
  <2>2. k' \in Samples /\ main' \in {"ends", "stop"}
    BY <1>1, <2>1
  <2>3. ASSUME BenchCount[LastBlock] >= TimingSamples PROVE CopiesInStep'
    <3>1. endCopy'[k] = k /\ \A j \in Samples : startCopy'[j] = j
      BY <1>1, <2>1, <2>3, AllMeasured DEF MeasuringMain, CopyInv, CopiesInStep
    <3>2. \A j \in Samples : j < k + 1 => endCopy'[j] = j
      <4>1. \A j \in Samples : j < k + 1 => j < k \/ j = k
        BY <1>1
      <4>2. QED
        BY <2>1, <2>3, <3>1, <4>1 DEF CopyInv, CopiesInStep, CopiedUpTo
    <3>3. CASE k < TimingSamples
      BY <2>1, <2>2, <3>1, <3>2, <3>3 DEF CopiesInStep, CopiedUpTo, Copied
    <3>4. CASE ~(k < TimingSamples)
      <4>1. \A j \in Samples : j < k + 1
        BY <1>1, <3>4
      <4>2. QED
        BY <2>1, <2>2, <3>1, <3>2, <3>4, <4>1 DEF CopiesInStep, CopiedUpTo, Copied
    <3>5. QED
      BY <3>3, <3>4
  <2>4. QED
    BY <1>1, <1>2, <2>1, <2>2, <2>3 DEF CopyInv
<1>7. CASE (Starting \/ Shutdown) /\ UNCHANGED <<stampVars, copyVars>>
  <2>1. main' = main \/ (~MeasuringMain /\ ~MeasuringMain' /\ (Copied' => Copied))
    BY <1>7 DEF Starting, StartSinks, StartBlocks, StartSources, Start, NextBlock, Shutdown, SetStop, Notify,
       Join, Return, MeasuringMain, Copied
  <2>2. QED
    BY <1>3, <1>7, <2>1 DEF copyVars
<1>8. CASE \E w \in Workers : LoopStep(w) \/ Report(w)
  BY <1>3, <1>8 DEF LoopStep, Report, mainVars, copyVars, vars
<1>9. CASE UNCHANGED benchVars
  BY <1>3, <1>9 DEF benchVars, vars, mainVars
<1>10. QED
  BY <1>4, <1>5, <1>6, <1>7, <1>8, <1>9 DEF BenchmarkNext, Measuring

LEMMA InitCopies == ASSUME Measurable PROVE BenchmarkInit => CopyInv
<1> SUFFICES ASSUME BenchmarkInit PROVE CopyInv
  OBVIOUS
<1>1. k = 1 /\ 1 \in Samples /\ finished = {} /\ main = "sinks"
  BY BenchmarkAssumption DEF BenchmarkInit, Init, Samples, BenchmarkAssumption
<1>2. startCopy \in [Samples -> Nat] /\ endCopy \in [Samples -> Nat]
  BY DEF BenchmarkInit, Unstamped, None
<1>3. QED
  BY <1>1, <1>2 DEF CopyInv, Enough, CopiesInStep, Copied

\* With a count that is not below the number of samples Graph::run writes all
\* samples to its files, each with both its times, although the threads go on
\* recording while it copies.
THEOREM EverySampleRecorded == ASSUME Measurable, AllSend PROVE BenchmarkSpec => []AllRecorded
<1>1. GraphInv /\ DurationInv /\ SampleInv /\ CopyInv /\ [BenchmarkNext]_benchVars => CopyInv'
  BY CopyStep DEF GraphInv
<1>2. CopyInv => AllRecorded
  BY DEF CopyInv, CopiesInStep, AllRecorded
<1>3. QED
  BY <1>1, <1>2, InitCopies, GraphUnderBenchmark, AlwaysDuration, AlwaysSamples, PTL DEF BenchmarkSpec
=============================================================================
