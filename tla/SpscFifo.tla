------------------------------ MODULE SpscFifo ------------------------------
(***************************************************************************)
(* What ReaderWriterQueue promises its producer and its consumer: elements *)
(* come out once, in the order they went in; peek only looks.  A call      *)
(* finds nothing only if the queue was empty at a moment of the call.      *)
(* Nobody calls it once it is destroyed, with all that is in it.           *)
(***************************************************************************)
EXTENDS Sequences

CONSTANTS Values, Operations, Nothing

VARIABLES
  fifo,   \* the elements
  call,   \* the consumer's call, "none", or "destroyed"
  empty,  \* the call has met an empty queue
  result  \* what was delivered last

Init ==
  /\ fifo = <<>>
  /\ call = "none"
  /\ empty = FALSE
  /\ result = Nothing

Put ==
  /\ call # "destroyed"
  /\ \E v \in Values : fifo' = Append(fifo, v)
  /\ UNCHANGED <<call, empty, result>>

Call ==
  /\ call = "none"
  /\ call' \in Operations
  /\ UNCHANGED <<fifo, empty, result>>

SeeEmpty ==
  /\ call \in Operations
  /\ fifo = <<>>
  /\ empty' = TRUE
  /\ UNCHANGED <<fifo, call, result>>

GiveUp ==
  /\ empty
  /\ call' = "none"
  /\ empty' = FALSE
  /\ UNCHANGED <<fifo, result>>

Find ==
  /\ call \in Operations
  /\ fifo # <<>>
  /\ fifo' = IF call = "peek" THEN fifo ELSE Tail(fifo)
  /\ result' = IF call = "pop" THEN result ELSE Head(fifo)
  /\ call' = "none"
  /\ empty' = FALSE

Destroy ==
  /\ call = "none"
  /\ fifo' = <<>>
  /\ call' = "destroyed"
  /\ UNCHANGED <<empty, result>>

Next == Put \/ Call \/ SeeEmpty \/ GiveUp \/ Find \/ Destroy

Spec == Init /\ [][Next]_<<fifo, call, empty, result>>
=============================================================================
