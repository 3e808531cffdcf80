------------------------------ MODULE MCDiamond -----------------------------
(***************************************************************************)
(* The first graph of src/mfiles/testGraphGenerator.m: the sink takes one  *)
(* input straight from the channel and the other through a filter.         *)
(***************************************************************************)
EXTENDS Graph, Wiring, TLC

CONSTANTS src, awgn, filter, sink

MCWorkers    == {src, awgn, filter, sink}
MCBlocks     == <<src, awgn, filter, sink>>
MCKind       == src :> "source" @@ awgn :> "block" @@ filter :> "block" @@ sink :> "sink"
MCNumInputs  == src :> 0 @@ awgn :> 1 @@ filter :> 1 @@ sink :> 2
MCNumOutputs == src :> 1 @@ awgn :> 2 @@ filter :> 1 @@ sink :> 0

MCOutputQueue == NewOutputQueues(Ports(MCWorkers, MCNumOutputs))
MCInputQueue  ==
  ConnectAll(NewInputQueues(Ports(MCWorkers, MCNumInputs)), MCOutputQueue,
             << <<src, 0, awgn, 0>>, <<awgn, 0, sink, 0>>,
                <<awgn, 1, filter, 0>>, <<filter, 0, sink, 1>> >>)
MCQueues == Range(MCOutputQueue) \cup Range(MCInputQueue)

\* Every block passes on what it is given.
AlwaysSend == [w \in MCWorkers |-> {1}]

\* The graph at work: all threads have been created, none has called its
\* m_FunctionInit yet, and nobody asks for the end.  (How a graph starts and
\* stops is checked on MCPipeline.)
Started ==
  /\ pc     = [w \in Workers |-> "init"]
  /\ stop   = [w \in Workers |-> FALSE]
  /\ port   = [w \in Workers |-> 0]
  /\ inputs = [i \in InPorts |-> None]
  /\ output = [w \in Workers |-> None]
  /\ flag   = [w \in Workers |-> 0]
  /\ queue  = [q \in Queues |-> <<>>]
  /\ qsize  = [q \in Queues |-> 0]
  /\ calls  = [w \in Workers |-> 0]
  /\ late   = [w \in Workers |-> 0]
  /\ main = "sim" /\ b = 1 /\ handle = {}

AtWork     == \E w \in Workers : Step(w)
WorkSpec   == Started /\ [][AtWork]_vars
FairAtWork == WorkSpec /\ \A w \in Workers : WF_vars(Step(w))
=============================================================================
