-------------------------------- MODULE Graph -------------------------------
(***************************************************************************)
(* A whole flow graph: the thread that executes Graph::run and             *)
(* Graph::shutdown of src/src/graph.cpp, together with the threads of the  *)
(* Workers it starts.                                                      *)
(*                                                                         *)
(* run() walks over Blocks three times and starts first the sinks, then    *)
(* the blocks, then the sources; lets them work for the duration of the    *)
(* simulation; and calls shutdown(), which sets the stop flags one after   *)
(* the other, signals the (unused) condition variables, joins the threads  *)
(* and sleeps.  Here every worker is started once, by the function its     *)
(* Kind names; which names run() starts, and how often, is the subject of  *)
(* module GraphLaunch.                                                     *)
(***************************************************************************)
EXTENDS Worker

CONSTANT Blocks     \* the vector Blocks: the Workers, in the order of their indices

ASSUME BlocksAssumption ==
  /\ Blocks \in Seq(Workers)
  /\ Blocks # <<>>
  /\ \A w \in Workers : \E b \in DOMAIN Blocks : Blocks[b] = w

VARIABLES
  main,    \* the loop or wait the main thread is in
  b,       \* its loop variable (from 1)
  handle   \* the workers whose member m_BlockThread stands for a thread

mainVars == <<main, b, handle>>
vars     == <<workerVars, mainVars>>

Init ==
  /\ WorkerInit
  /\ main = "sinks"
  /\ b = 1
  /\ handle = {}

\* After the b-th round of the loop over Blocks: the next round, or what
\* follows the loop.
NextBlock(next) ==
  IF b < Len(Blocks) THEN main' = main /\ b' = b + 1 ELSE main' = next /\ b' = 1

-----------------------------------------------------------------------------
(* Graph::run.                                                             *)

\* What run(), run_sink() and run_source() leave in the member m_BlockThread:
\* the thread they start belongs to a local variable that hides the member,
\* and is detached when that variable goes out of scope.
HandleAfterRun(w) == handle

\* One round of the loop that starts the workers of one kind.
Start(loop, kind, next) ==
  /\ main = loop
  /\ IF Kind[Blocks[b]] = kind
       THEN Spawn(Blocks[b]) /\ handle' = HandleAfterRun(Blocks[b])
       ELSE UNCHANGED <<workerVars, handle>>
  /\ NextBlock(next)

StartSinks   == Start("sinks", "sink", "blocks")
StartBlocks  == Start("blocks", "block", "sources")
StartSources == Start("sources", "source", "sim")

\* SimDuration(duration) or std::cin.ignore() returns.
EndSimulation ==
  /\ main = "sim"
  /\ main' = "stop"
  /\ UNCHANGED <<workerVars, b, handle>>

-----------------------------------------------------------------------------
(* Graph::shutdown.                                                        *)

\* (*Blocks[b]).m_StopThread = true
SetStop ==
  /\ main = "stop"
  /\ stop' = [stop EXCEPT ![Blocks[b]] = TRUE]
  /\ NextBlock("notify")
  /\ UNCHANGED <<pc, port, inputs, output, flag, queue, qsize, calls, late, handle>>

\* (*Blocks[b]).notifyConnectedBlocks(): nobody waits for the conditions it
\* signals, so that it changes nothing.
Notify ==
  /\ main = "notify"
  /\ NextBlock("join")
  /\ UNCHANGED <<workerVars, handle>>

\* (*Blocks[b]).m_BlockThread.join(): waits for the thread the member stands
\* for, and not at all if it stands for none.
Join ==
  /\ main = "join"
  /\ Blocks[b] \in handle => pc[Blocks[b]] = "done"
  /\ NextBlock("linger")
  /\ UNCHANGED <<workerVars, handle>>

\* The last sleep; run() returns.
Return ==
  /\ main = "linger"
  /\ main' = "returned"
  /\ UNCHANGED <<workerVars, b, handle>>

-----------------------------------------------------------------------------
Starting == StartSinks \/ StartBlocks \/ StartSources
Shutdown == SetStop \/ Notify \/ Join \/ Return

MainStep == Starting \/ EndSimulation \/ Shutdown

Step(w) == ThreadStep(w) /\ UNCHANGED mainVars

Next == MainStep \/ \E w \in Workers : Step(w)

Spec == Init /\ [][Next]_vars

\* The operating system runs every thread that can run.  The end of the
\* simulation is left open: with a duration of 0 it is up to the user.
Fairness ==
  /\ WF_vars(Starting \/ Shutdown)
  /\ \A w \in Workers : WF_vars(Step(w))

FairSpec == Spec /\ Fairness

-----------------------------------------------------------------------------
(* Properties of the graph.                                                *)

\* The type invariant of the composition.
TypeOK ==
  /\ WorkerTypeOK
  /\ main \in {"sinks", "blocks", "sources", "sim", "stop", "notify", "join", "linger", "returned"}
  /\ b \in DOMAIN Blocks
  /\ handle \subseteq Workers

\* Items neither overtake nor repeat each other: the calls of any one
\* ProcessData handle items of increasing number, even when blocks drop some.
InOrder ==
  [][\A w \in Workers : calls'[w] # calls[w] => output'[w] > output[w]]_vars

\* Nothing gets lost on the way: if no block drops items and nobody asks for
\* the end, each item the sources make reaches every sink.
Delivery ==
  \A s, t \in Workers : \A k \in 1 .. MaxCalls :
    Kind[s] = "source" /\ Kind[t] = "sink" =>
      (calls[s] >= k ~> calls[t] >= k \/ stop[s])

\* The worker that reads the queue w is writing to.
Consumers(w) == {i[1] : i \in {j \in InPorts : InputQueue[j] = OutQueue(w)}}

\* Waiting for room in a queue that nobody will read again.
Wedged(w) ==
  /\ pc[w] = "full"
  /\ ~HasRoom(w)
  /\ \A v \in Consumers(w) : stop[v] /\ pc[v] \in {"full", "cleanup", "done"}

\* A stop is heard: a worker told to stop ends, unless it is caught for good
\* waiting for room in a queue whose reader has gone or is caught itself.
\* (Nothing resets a stop flag, so that <>[] speaks of every stop.)
StopSettles ==
  <>[](\A w \in Workers : stop[w] => pc[w] = "done" \/ Wedged(w))

\* "Join all threads" (graph.cpp:181): when the loop that joins them is over,
\* the threads have ended.
JoinWaits == main \in {"linger", "returned"} => \A w \in Workers : pc[w] = "done"

\* "Wait for all to stop" (graph.cpp:186): a worker that is told to stop
\* stops.
AllStop == \A w \in Workers : stop[w] ~> pc[w] = "done"
=============================================================================
