----------------------------- MODULE MCPipeline -----------------------------
(***************************************************************************)
(* The graph of src/test/testFlowMP.cpp: SRC -> DN -> SINK.                *)
(***************************************************************************)
EXTENDS Graph, Wiring, TLC

CONSTANTS SRC, DN, SINK

MCWorkers    == {SRC, DN, SINK}
MCBlocks     == <<SRC, DN, SINK>>
MCKind       == SRC :> "source" @@ DN :> "block" @@ SINK :> "sink"
MCNumInputs  == SRC :> 0 @@ DN :> 1 @@ SINK :> 1
MCNumOutputs == SRC :> 1 @@ DN :> 1 @@ SINK :> 0

MCOutputQueue == NewOutputQueues(Ports(MCWorkers, MCNumOutputs))
MCInputQueue  ==
  ConnectAll(NewInputQueues(Ports(MCWorkers, MCNumInputs)), MCOutputQueue,
             << <<SRC, 0, DN, 0>>, <<DN, 0, SINK, 0>> >>)
MCQueues == Range(MCOutputQueue) \cup Range(MCInputQueue)

\* The blocks of the test: SRC and DN set *flag = 1, SINK sets *flag = 0.
AlwaysSend == SRC :> {1} @@ DN :> {1} @@ SINK :> {0}

\* DN sends or not, as its data decide; SINK never stores anything in *flag,
\* so that its flag stays 0.
MaySend == SRC :> {1} @@ DN :> {0, 1} @@ SINK :> {}
=============================================================================
