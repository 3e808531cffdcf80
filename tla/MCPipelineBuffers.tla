-------------------------- MODULE MCPipelineBuffers -------------------------
(***************************************************************************)
(* The graph of MCPipeline with the buffers its wrappers make and delete.  *)
(***************************************************************************)
EXTENDS MCPipeline, Buffers
=============================================================================
