-------------------------- MODULE MCDiamondBuffers --------------------------
(***************************************************************************)
(* The graph of MCDiamond, at work, with the buffers its wrappers make and *)
(* delete: its sink has two inputs.                                        *)
(***************************************************************************)
EXTENDS MCDiamond, Buffers

BuffersAtWork == Started /\ live = {} /\ [][\E w \in Workers : BufferStep(w)]_bufferVars
=============================================================================
