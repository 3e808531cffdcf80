--------------------------- MODULE MCBlockingQueue --------------------------
(***************************************************************************)
(* A small instance of BlockingQueue.  A second has ten ticks and the      *)
(* time-out is three, so that a deadline can lie in this second, exactly   *)
(* at its end, or in the next.                                             *)
(***************************************************************************)
EXTENDS BlockingQueue

CONSTANTS v1, v2

Second  == 10
Timeout == 3

\* One before, one at and one after the reading that hits the boundary.
Readings == {6, 7, 8}

\* Each refused deadline leaves the count one too low, or a post too many,
\* for good.  These bound how far that goes.
LowestCount == -2
HighestSem  == 2
Bounded     == count' >= LowestCount /\ sem' <= HighestSem

\* The producer thread completes an enqueue() it has begun; the consumer
\* thread keeps running, and keeps calling.
BoundedSpec ==
  /\ Init /\ [][Next /\ Bounded]_vars
  /\ WF_vars(consumer # "aborted" /\ Signal /\ UNCHANGED items /\ Bounded)
  /\ WF_vars(Consumer /\ Bounded)
=============================================================================
