------------------------------- MODULE Buffers ------------------------------
(***************************************************************************)
(* The memory behind the pointers that a graph hands from block to block.  *)
(* The Workers only move pointers; buffers are allocated and deleted in    *)
(* the ProcessData functions, the wrappers that src/process_header.py      *)
(* generates (src/include/blocks_gen.h) and those written by hand          *)
(* (src/include/blocks.h, src/test/testFlowMP.cpp): each call allocates    *)
(* one buffer per output and deletes an input.                             *)
(*                                                                         *)
(* The buffer of item n that is made for queue k is the pair <<k, n>>; the *)
(* wrapper that makes it is the only one that writes to this queue.        *)
(***************************************************************************)
EXTENDS Graph, FiniteSets

VARIABLE live    \* the buffers that have been allocated and not deleted

bufferVars == <<vars, live>>

BufferInit == Init /\ live = {}

\* Faulty: the pointer that is sent was never given a buffer (Producer of
\* src/include/blocks_bm.h does this; its Consumer does not look at it).
MadeNothing(w) == {}

\* 'new' in the wrapper of w: a buffer for every output, if it sends at all.
Made(w) ==
  IF flag'[w] > 0 THEN {<<OutputQueue[<<w, p>>], output'[w]>> : p \in Outs(w)} ELSE {}

\* Faulty: the input is never deleted.
DeletedForgotten(w) == {}

\* 'delete a,b;' in the wrapper of w: by the comma operator it deletes a, the
\* buffer of the first input, only.
Deleted(w) ==
  IF Ins(w) = {} THEN {} ELSE {<<InputQueue[<<w, 0>>], inputs[<<w, 0>>]>>}

\* A step of the thread of w, with the wrapper it may call.
BufferStep(w) ==
  /\ Step(w)
  /\ live' = IF calls'[w] # calls[w] THEN (live \ Deleted(w)) \cup Made(w) ELSE live

BufferNext == (MainStep /\ UNCHANGED live) \/ \E w \in Workers : BufferStep(w)

BufferSpec == BufferInit /\ [][BufferNext]_bufferVars

-----------------------------------------------------------------------------
(* Properties.                                                             *)

InQueues == UNION {{k} \X {queue[k][j] : j \in DOMAIN queue[k]} : k \in Queues}

\* Read, and not yet processed.
ReadBy(w) ==
  IF Reading(w) \/ pc[w] \in {"check", "process"}
    THEN {<<InputQueue[i], inputs[i]>> : i \in {j \in {w} \X Ins(w) : inputs[j] # None}}
    ELSE {}

\* Made, and not yet sent: the port an increment is due for has been served.
UnsentBy(w) ==
  LET first == IF pc[w] = "increment" THEN port[w] + 1 ELSE port[w] IN
  IF Sending(w) \/ (pc[w] = "srccheck" /\ flag[w] > 0)
    THEN {<<OutputQueue[o], output[w]>> : o \in {w} \X {p \in Outs(w) : p >= first}}
    ELSE {}

Held == InQueues \cup UNION {ReadBy(w) \cup UnsentBy(w) : w \in Workers}

\* No buffer is used or deleted after it has been deleted: whatever a queue or
\* a thread still holds is alive, also while a stop is under way and while the
\* two ends of a queue are at different places of their updates.
NoDangling == Held \subseteq live

\* The workers at the two ends of queue k.
EndsOf(k) ==
  {i[1] : i \in {j \in InPorts : InputQueue[j] = k}}
    \cup {o[1] : o \in {j \in OutPorts : OutputQueue[j] = k}}

\* A stop loses no more than one buffer at each end of a queue, the item its
\* worker had in hand (an input it will not process, a source's result it will
\* not send), and only when that worker has left its loop.
LossesBounded ==
  LET lost == live \ Held IN
    \A k \in {m[1] : m \in lost} :
      Cardinality({m \in lost : m[1] = k})
        <= Cardinality({w \in EndsOf(k) : pc[w] \in {"cleanup", "done"}})

\* "Make sure you delete inputs to blocks after you use them"
\* (doc/Walkthrough.m:13-14): in a graph at work every buffer is still going to be
\* used.
InputsDeleted == (\A w \in Workers : ~stop[w]) => live \subseteq Held
=============================================================================
