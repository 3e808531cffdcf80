----------------------------- MODULE MCBenchmark ----------------------------
(***************************************************************************)
(* The graph of MCPipeline built with BENCHMARKING.                        *)
(***************************************************************************)
EXTENDS MCPipeline, Benchmark

\* testFlowMP.cpp sets the count of DN, which does not count; a generated
\* program sets that of its last block.
CountAll == [w \in MCWorkers |-> TimingSamples]
=============================================================================
