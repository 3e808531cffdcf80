---------------------------- MODULE BlockingQueue ---------------------------
(***************************************************************************)
(* moodycamel::BlockingReaderWriterQueue of                                *)
(* src/include/readerwriterqueue.h with one producer and one consumer      *)
(* thread: a lock-free FIFO (here the sequence items; its two operations   *)
(* are atomic) and the LightweightSemaphore that counts what is in it.     *)
(* The producer first enqueues and then signals; the consumer first waits  *)
(* for the semaphore and then dequeues.                                    *)
(***************************************************************************)
EXTENDS LightweightSemaphore, Sequences

CONSTANTS
  Values,    \* the elements
  Modes,     \* the consumer's calls: "try", "pop", "timed" and "wait"
  MaxItems   \* bound: the producer enqueues only below this length

ASSUME QueueAssumption ==
  /\ Modes \subseteq {"try", "pop", "timed", "wait"}
  /\ MaxItems \in Nat

VARIABLE items   \* the contents of inner

vars == <<semVars, items>>

Init == SemInit /\ items = <<>>

\* enqueue() and try_enqueue(): those of inner, followed by sema.signal().
\* If inner has no memory, or no room, nothing changes.
InnerEnqueue ==
  /\ producer = "idle"
  /\ Len(items) < MaxItems
  /\ \E v \in Values : items' = Append(items, v)
  /\ producer' = "signal"
  /\ UNCHANGED <<count, sem, consumer, mode, deadline, einval>>

\* try_dequeue(), pop(), wait_dequeue_timed() or wait_dequeue() is called.
Call ==
  /\ consumer = "idle"
  /\ mode' \in Modes
  /\ consumer' = "load"
  /\ UNCHANGED <<count, sem, producer, deadline, einval, items>>

\* inner.try_dequeue(result) or inner.pop(), whose success is asserted.
InnerDequeue ==
  /\ consumer = "acquired"
  /\ items # <<>>
  /\ items' = Tail(items)
  /\ consumer' = "idle"
  /\ UNCHANGED <<count, sem, producer, mode, deadline, einval>>

\* assert(success) fails: the process aborts.
AssertFails ==
  /\ consumer = "acquired"
  /\ items = <<>>
  /\ consumer' = "aborted"
  /\ UNCHANGED <<count, sem, producer, mode, deadline, einval, items>>

Producer == InnerEnqueue \/ (Signal /\ UNCHANGED items)
Consumer == Call \/ InnerDequeue \/ AssertFails \/ (Wait /\ UNCHANGED items)

Next == consumer # "aborted" /\ (Producer \/ Consumer)

Spec == Init /\ [][Next]_vars

-----------------------------------------------------------------------------
(* Properties.                                                             *)

\* The type invariant.
TypeOK ==
  /\ count \in Int
  /\ sem \in Nat
  /\ producer \in {"idle", "signal", "post"}
  /\ consumer \in {"idle", "load", "take", "register", "blocked", "restore",
                   "retake", "trysem", "acquired", "aborted"}
  /\ mode \in {"try", "pop", "timed", "wait"}
  /\ deadline \in Nat
  /\ einval \in BOOLEAN
  /\ items \in Seq(Values)

\* The consumer has lowered the count for an element it is still waiting for,
\* or may now fetch.
Registered == consumer \in {"blocked", "restore", "trysem"}
Holding    == consumer \in {"acquired", "aborted"}

\* 1 if P holds, else 0.
One(P) == IF P THEN 1 ELSE 0

\* The properties hold until sem_timedwait refuses a deadline.

\* assert(success) in try_dequeue, pop, wait_dequeue and wait_dequeue_timed:
\* whoever got the semaphore finds an element, on every path through the
\* fast exits, the time-out and the retry.
DequeueSucceeds == einval \/ (Holding => items # <<>>)

\* assert(oldCount >= -1) in signal(): never more than one waiter.
OneWaiter == einval \/ count >= -1

\* The count is the number of elements, less the one that is not signalled
\* yet and the one the consumer has claimed: no element is counted twice,
\* none is forgotten.
CountAgrees ==
  einval \/ count = Len(items) - One(producer = "signal") - One(Registered \/ Holding)

\* The POSIX semaphore is posted exactly when a registered consumer has an
\* element to fetch: a post is never left over for a later call, and never
\* missing.
PostsAgree ==
  einval \/ sem + One(producer = "post") =
              One((Registered /\ count >= 0) \/ consumer = "retake")

\* No lost wake-up: an element in the queue is fetched by a consumer that
\* keeps asking, in whatever way, and its retry after a time-out ends.
EveryItemTaken == items # <<>> /\ ~einval ~> Holding \/ einval

\* What the abstract queue shows of this one: an element is in the queue once
\* it is signalled.
Signalled == IF producer = "signal" THEN SubSeq(items, 1, Len(items) - 1) ELSE items
Pending   == IF consumer = "idle" THEN "none" ELSE mode

Fifo == INSTANCE BlockingFifo WITH fifo <- Signalled, call <- Pending

\* The promise of the queue: until a deadline is refused, every step is one of
\* BlockingFifo's or none.
Refinement == Fifo!Init /\ [][einval \/ Fifo!Next]_<<Signalled, Pending>>

\* No clock reading makes timed_wait compute a tv_nsec of exactly one second.
NoCarryBoundary == \A now \in ClockReadings : now + TimeoutNsec # NsecPerSec

\* "waits until an element is available up to the specified timeout, then
\* dequeues it and returns true, or returns false if the timeout expires"
\* (readerwriterqueue.h:761-764): a timed call that is about to return true
\* has an element to return.
TimedCallDelivers == Holding /\ mode = "timed" => items # <<>>
=============================================================================
