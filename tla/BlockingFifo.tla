---------------------------- MODULE BlockingFifo ----------------------------
(***************************************************************************)
(* What BlockingReaderWriterQueue promises its two threads, in the words   *)
(* of the comments of src/include/readerwriterqueue.h: elements come out   *)
(* in the order they went in, each once; a call that may give up does so   *)
(* only at a moment when the queue is empty; a call that may not, never.   *)
(***************************************************************************)
EXTENDS Sequences, Integers

CONSTANTS Values, Modes, MaxItems

VARIABLES
  fifo,   \* the elements in the queue
  call    \* the consumer's pending call, or "none"

Init == fifo = <<>> /\ call = "none"

Put ==
  /\ Len(fifo) < MaxItems
  /\ \E v \in Values : fifo' = Append(fifo, v)
  /\ UNCHANGED call

Call ==
  /\ call = "none"
  /\ call' \in Modes
  /\ UNCHANGED fifo

Take ==
  /\ call # "none"
  /\ fifo # <<>>
  /\ fifo' = Tail(fifo)
  /\ call' = "none"

GiveUp ==
  /\ call \in {"try", "pop", "timed"}
  /\ fifo = <<>>
  /\ call' = "none"
  /\ UNCHANGED fifo

Next == Put \/ Call \/ Take \/ GiveUp

Spec == Init /\ [][Next]_<<fifo, call>>
=============================================================================
