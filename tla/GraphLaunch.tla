----------------------------- MODULE GraphLaunch ----------------------------
(***************************************************************************)
(* Which thread functions Graph::run (src/src/graph.cpp) starts for which  *)
(* Worker.  It recognises sources and sinks by name: each of its three     *)
(* double loops takes every Worker of Blocks with every index n below      *)
(* Sinks.size(), compares the Worker's name with Sinks[n] or Sources[n],   *)
(* and starts a thread for each comparison that comes out right.           *)
(*                                                                         *)
(* The names are those of the generated main programs                      *)
(* (src/mfiles/GraphGenerator.m): the MATLAB function of the block and the *)
(* word Source, Sink or Block, so that two Workers can share a name.       *)
(***************************************************************************)
EXTENDS Integers, Sequences

VARIABLES
  names,     \* m_BlockName of each of Blocks
  loop,      \* the double loop run() is in, "off" before it is called
  b, n,      \* its loop variables (from 1)
  threads    \* the threads started for each Worker, by function

launchVars == <<names, loop, b, n, threads>>

Indices == DOMAIN names

\* FlowGraph.Sources and FlowGraph.Sinks: the constructors append their names.
Labelled(kind) ==
  LET upTo[k \in 0 .. Len(names)] ==
        IF k = 0 THEN <<>>
        ELSE IF names[k][2] = kind THEN Append(upTo[k - 1], names[k]) ELSE upTo[k - 1]
  IN  upTo[Len(names)]
Sources     == Labelled("source")
Sinks       == Labelled("sink")

LaunchInit ==
  /\ names = <<>>
  /\ loop = "off"
  /\ b = 1
  /\ n = 1
  /\ threads = <<>>

\* run() is called: the names are those of the constructors.
CallRun(labels) ==
  /\ names' = labels
  /\ loop' = "sinks"
  /\ threads' = [k \in DOMAIN labels |-> <<>>]
  /\ UNCHANGED <<b, n>>

\* The results that comparing the name of Blocks[b] with list[n] can have:
\* what is read behind the end of a vector may be anything.
IsNamed(list) == IF n <= Len(list) THEN {names[b] = list[n]} ELSE BOOLEAN

\* run_sink(), run() or run_source() of Blocks[b] if the test is met.
RunIf(test, kind) ==
  threads' = IF test THEN [threads EXCEPT ![b] = Append(@, kind)] ELSE threads

\* Faulty: n <= Sinks.size().
NextRoundOneTooFar(next) ==
  IF n < Len(Sinks) + 1 THEN n' = n + 1 /\ UNCHANGED <<b, loop>>
  ELSE IF b < Len(names) THEN n' = 1 /\ b' = b + 1 /\ UNCHANGED loop
  ELSE n' = 1 /\ b' = 1 /\ loop' = next

\* The next round of the double loop, or the next loop.
NextRound(next) ==
  IF n < Len(Sinks) THEN n' = n + 1 /\ UNCHANGED <<b, loop>>
  ELSE IF b < Len(names) THEN n' = 1 /\ b' = b + 1 /\ UNCHANGED loop
  ELSE n' = 1 /\ b' = 1 /\ loop' = next

InLoop(l) == loop = l /\ Sinks # <<>> /\ UNCHANGED names

\* Faulty: the loop for the sources comes before the one for the blocks.
StartSinksThenSources ==
  /\ InLoop("sinks")
  /\ \E isSink \in IsNamed(Sinks) : RunIf(isSink, "sink")
  /\ NextRound("sources")

StartSinks ==
  /\ InLoop("sinks")
  /\ \E isSink \in IsNamed(Sinks) : RunIf(isSink, "sink")
  /\ NextRound("blocks")

\* Faulty: a sink is taken for a block.
StartBlocksAndSinks ==
  /\ InLoop("blocks")
  /\ \E isSource \in IsNamed(Sources) : RunIf(~isSource, "block")
  /\ NextRound("sources")

\* Faulty: the thread function of a sink is started.
StartBlocksAsSinks ==
  /\ InLoop("blocks")
  /\ \E isSink \in IsNamed(Sinks), isSource \in IsNamed(Sources) :
       RunIf(~isSink /\ ~isSource, "sink")
  /\ NextRound("sources")

StartBlocks ==
  /\ InLoop("blocks")
  /\ \E isSink \in IsNamed(Sinks), isSource \in IsNamed(Sources) :
       RunIf(~isSink /\ ~isSource, "block")
  /\ NextRound("sources")

StartSources ==
  /\ InLoop("sources")
  /\ \E isSource \in IsNamed(Sources) : RunIf(isSource, "source")
  /\ NextRound("sim")

\* Comparing with a string behind the end of Sources can also end the program.
Crash ==
  /\ \/ InLoop("blocks") /\ FALSE \in IsNamed(Sinks)
     \/ InLoop("sources")
  /\ n > Len(Sources)
  /\ loop' = "crashed"
  /\ UNCHANGED <<b, n, threads>>

\* Without a sink no double loop has a round.
SkipLoops ==
  /\ loop = "sinks"
  /\ Sinks = <<>>
  /\ loop' = "sim"
  /\ UNCHANGED <<names, b, n, threads>>

Launch == StartSinks \/ StartBlocks \/ StartSources \/ Crash \/ SkipLoops

-----------------------------------------------------------------------------
(* Properties.                                                             *)

\* In a graph with one sink and at least one source every Worker gets exactly
\* one thread, also where Workers share a name, and even where the graph has
\* sources the loops never look at.
OneThreadEach ==
  loop = "sim" /\ Len(Sinks) = 1 /\ Len(Sources) >= 1 =>
    \A k \in Indices : Len(threads[k]) = 1

\* With one source and one sink it is the thread of the right kind.
RightThread ==
  loop = "sim" /\ Len(Sinks) = 1 /\ Len(Sources) = 1 =>
    \A k \in Indices : threads[k] = <<names[k][2]>>

\* The loops stay within Sources as long as there are no fewer sources than
\* sinks.
IndexInRange == Len(Sources) >= Len(Sinks) => loop # "crashed"

\* No Worker starts to produce before every Worker of the graph that consumes
\* has its thread (one source, one sink).
SourcesLast ==
  Len(Sinks) = 1 /\ Len(Sources) = 1 =>
    \A k, j \in Indices :
      threads[k] = <<"source">> /\ names[j][2] # "source" => threads[j] # <<>>

\* "Every Worker object created in a simulation will run in it's own thread"
\* (doc/overview.m:39-40).
OwnThread == loop = "sim" => \A k \in Indices : Len(threads[k]) = 1
=============================================================================
