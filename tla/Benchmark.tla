------------------------------ MODULE Benchmark -----------------------------
(***************************************************************************)
(* A graph built with BENCHMARKING: what the loops of a source and a sink  *)
(* record (src/src/flowMP.cpp), how SimDuration waits for the end of the   *)
(* benchmark, and what Graph::run reads and writes to its files before it  *)
(* shuts the graph down (src/src/graph.cpp).  The graph runs with a        *)
(* duration above 0, as in all programs of the repository: with 0 the user *)
(* ends a benchmark, as any other graph, when he likes.                    *)
(*                                                                         *)
(* A time stamp is the number of the item it was taken for, None as long   *)
(* as it has not been taken.  The vectors of stamps are plain memory; here *)
(* one element is written or copied at a time.                             *)
(***************************************************************************)
EXTENDS Graph

CONSTANTS
  TimingSamples,  \* TIMING_SAMPLES
  BenchCount      \* m_BenchMarkingCount of each worker

ASSUME BenchmarkAssumption ==
  /\ TimingSamples \in Nat \ {0}
  /\ BenchCount \in [Workers -> Nat]

Samples == 1 .. TimingSamples

VARIABLES
  begun,     \* the workers whose m_BM_START is set
  count,     \* the local 'count' of the loops
  starts,    \* m_BenchMarkingStarts
  ends,      \* m_BenchMarkingEnds
  finished,  \* the workers whose m_BM_END is set
  complete,  \* m_BenchMarkComplete
  k,         \* the element of the vectors that run() is at
  startCopy, \* BenchMarkingStarts of run()
  endCopy    \* BenchMarkingEnds of run()

stampVars == <<begun, count, starts, ends, finished, complete>>
copyVars  == <<k, startCopy, endCopy>>
benchVars == <<vars, stampVars, copyVars>>

Unstamped == [j \in Samples |-> None]

BenchmarkInit ==
  /\ Init
  /\ begun = {}
  /\ count = [w \in Workers |-> 0]
  /\ starts = [w \in Workers |-> Unstamped]
  /\ ends = [w \in Workers |-> Unstamped]
  /\ finished = {}
  /\ complete = [w \in Workers |-> FALSE]
  /\ k = 1
  /\ startCopy = Unstamped
  /\ endCopy = Unstamped

FirstBlock == Blocks[1]
LastBlock  == Blocks[Len(Blocks)]

-----------------------------------------------------------------------------
(* The loops of source and sink.                                           *)

\* m_BM_START: taken by a source before its initialisation.
BeginStamp(w) ==
  /\ begun' = IF Kind[w] = "source" THEN begun \cup {w} ELSE begun
  /\ UNCHANGED <<count, starts, ends, finished, complete>>

\* A source, between its stop test and sending: it stamps whether it is going
\* to send the item or not.
StartStamp(w) ==
  /\ IF ~stop[w] /\ count[w] < TimingSamples
       THEN /\ starts' = [starts EXCEPT ![w][count[w] + 1] = output[w]]
            /\ count' = [count EXCEPT ![w] = @ + 1]
       ELSE UNCHANGED <<starts, count>>
  /\ UNCHANGED <<begun, ends, finished, complete>>

\* A sink, between its stop test and ProcessData.
EndStamp(w) ==
  /\ ends' = IF ~stop[w] /\ Kind[w] = "sink" /\ count[w] < TimingSamples
               THEN [ends EXCEPT ![w][count[w] + 1] = inputs[<<w, 0>>]]
               ELSE ends
  /\ UNCHANGED <<begun, count, starts, finished, complete>>

\* Faulty: a full vector ends the counting, as in the loop of the source.
CountItemWhileSampling(w) ==
  /\ count' = IF Kind[w] = "sink" /\ count[w] < TimingSamples - 1
                THEN [count EXCEPT ![w] = @ + 1] ELSE count
  /\ finished' = IF Kind[w] = "sink" /\ count'[w] = BenchCount[w] THEN finished \cup {w} ELSE finished
  /\ UNCHANGED <<begun, starts, ends, complete>>

\* Faulty: the benchmark is over when the last item arrives, before it counts.
CountItemOneEarly(w) ==
  /\ count' = IF Kind[w] = "sink" THEN [count EXCEPT ![w] = @ + 1] ELSE count
  /\ finished' = IF Kind[w] = "sink" /\ count'[w] + 1 = BenchCount[w] THEN finished \cup {w} ELSE finished
  /\ UNCHANGED <<begun, starts, ends, complete>>

\* A sink, after ProcessData: m_BM_END when the count is reached.
CountItem(w) ==
  /\ count' = IF Kind[w] = "sink" THEN [count EXCEPT ![w] = @ + 1] ELSE count
  /\ finished' = IF Kind[w] = "sink" /\ count'[w] = BenchCount[w] THEN finished \cup {w} ELSE finished
  /\ UNCHANGED <<begun, starts, ends, complete>>

\* A step of the loop with what it records.
Recording(w) ==
  \/ FunctionInit(w) /\ BeginStamp(w)
  \/ SourceCheck(w) /\ StartStamp(w)
  \/ StopCheck(w) /\ EndStamp(w)
  \/ (ProcessData(w) \/ IdleCall(w)) /\ CountItem(w)
  \/ (WhileTest(w) \/ Read(w) \/ Send(w) \/ Cleanup(w)) /\ UNCHANGED stampVars

LoopStep(w) ==
  /\ w \in finished => complete[w]
  /\ Recording(w)
  /\ UNCHANGED <<mainVars, copyVars>>

\* m_BenchMarkComplete = true, the statement after m_BM_END.
Report(w) ==
  /\ w \in finished /\ ~complete[w]
  /\ complete' = [complete EXCEPT ![w] = TRUE]
  /\ UNCHANGED <<vars, begun, count, starts, ends, finished, copyVars>>

-----------------------------------------------------------------------------
(* The main thread, between the start and the shutdown of the graph.       *)

\* Faulty: one round of the loop, for as long as 'duration' says.
PollOnce ==
  /\ main = "sim"
  /\ main' = "starts"
  /\ UNCHANGED <<workerVars, b, handle, stampVars, copyVars>>

\* SimDuration: every second it looks for a worker that is complete.
Poll ==
  /\ main = "sim"
  /\ \E w \in Workers : complete[w]
  /\ main' = "starts"
  /\ UNCHANGED <<workerVars, b, handle, stampVars, copyVars>>

\* After element k of a vector: the next one, or what follows the vector.
NextSample(next) ==
  IF k < TimingSamples THEN k' = k + 1 /\ main' = main ELSE k' = 1 /\ main' = next

CopyStart ==
  /\ main = "starts"
  /\ startCopy' = [startCopy EXCEPT ![k] = starts[FirstBlock][k]]
  /\ NextSample("ends")
  /\ UNCHANGED <<workerVars, b, handle, stampVars, endCopy>>

\* The records are written to the file from the copies, once these are made.
CopyEnd ==
  /\ main = "ends"
  /\ endCopy' = [endCopy EXCEPT ![k] = ends[LastBlock][k]]
  /\ NextSample("stop")
  /\ UNCHANGED <<workerVars, b, handle, stampVars, startCopy>>

Measuring == Poll \/ CopyStart \/ CopyEnd

BenchmarkNext ==
  \/ (Starting \/ Shutdown) /\ UNCHANGED <<stampVars, copyVars>>
  \/ Measuring
  \/ \E w \in Workers : LoopStep(w) \/ Report(w)

BenchmarkSpec == BenchmarkInit /\ [][BenchmarkNext]_benchVars

\* As in Graph, with the main thread's poll and its copies.
BenchmarkFairness ==
  /\ WF_benchVars((Starting \/ Shutdown) /\ UNCHANGED <<stampVars, copyVars>>)
  /\ WF_benchVars(Measuring)
  /\ \A w \in Workers : WF_benchVars(LoopStep(w) \/ Report(w))

FairBenchmark == BenchmarkSpec /\ BenchmarkFairness

-----------------------------------------------------------------------------
(* Properties.                                                             *)

\* The k-th time stamp of the sink is taken for the same item as the k-th of
\* the source, although the two count by themselves: in a chain of blocks that
\* send what they are given, the differences are transfer times.
Paired == \A j \in Samples : ends[LastBlock][j] # None => starts[FirstBlock][j] = ends[LastBlock][j]

\* What the duration is computed from has been measured: the flag that ends
\* the wait is set after m_BM_END, and the source began before.
DurationReal == main = "starts" => FirstBlock \in begun /\ LastBlock \in finished

Copied == main \in {"stop", "notify", "join", "linger", "returned"}

\* "MAKE SURE TIMING_SAMPLES IS THE SAME AS THIS VALUE" (the count,
\* src/benchmarking/block_transfer_eval.m:22): then all samples are recorded,
\* each with both its times, although nothing stops the threads meanwhile.
AllRecorded ==
  Copied /\ BenchCount[LastBlock] >= TimingSamples =>
    \A j \in Samples : startCopy[j] = j /\ endCopy[j] = j

\* The benchmark ends by itself: the sink's count is reached, and found.
BenchmarkEnds == main = "sim" ~> main = "stop"
=============================================================================
