------------------------- MODULE BlockingQueueProofs ------------------------
(***************************************************************************)
(* Proofs about BlockingQueue, for any set of elements, any length of the  *)
(* queue, any time-out and any clock.                                      *)
(*                                                                         *)
(* The invariant says what the count and the POSIX semaphore stand for in  *)
(* every phase of the two threads (CountAgrees, PostsAgree) and adds what  *)
(* the consumer may rely on between two of its steps.  It holds until      *)
(* sem_timedwait refuses a deadline.                                       *)
(***************************************************************************)
EXTENDS BlockingQueue, SequenceTheorems, TLAPS

\* Having seen a positive count, the consumer can rely on it: nobody else
\* lowers it.
SeenIsThere == consumer \in {"take", "retake"} => count > 0

\* An element claimed is an element signalled.
HeldIsSignalled == Holding => count >= 0

\* The element just enqueued is still there when it is signalled.
SignalledIsThere == producer = "signal" => Len(items) >= 1

Bookkeeping ==
  /\ CountAgrees
  /\ PostsAgree
  /\ SeenIsThere
  /\ HeldIsSignalled
  /\ SignalledIsThere

\* The inductive invariant.
IInv == TypeOK /\ (einval \/ Bookkeeping)

USE DEF One, Registered, Holding

-----------------------------------------------------------------------------

\* The initial state satisfies the invariant.
LEMMA InitIInv == Init => IInv
<1> SUFFICES ASSUME Init PROVE IInv
  OBVIOUS
<1> USE DEF Init, SemInit
<1>1. items \in Seq(Values) /\ Len(items) = 0
  OBVIOUS
<1>2. einval \in BOOLEAN
  BY Zenon
<1>3. TypeOK
  BY <1>1, <1>2 DEF TypeOK
<1>4. Bookkeeping
  BY <1>1 DEF Bookkeeping, CountAgrees, PostsAgree, SeenIsThere, HeldIsSignalled,
              SignalledIsThere
<1>5. QED
  BY <1>3, <1>4 DEF IInv

\* Every step of either thread keeps the types.
LEMMA TypeStep == ASSUME TypeOK, [Next]_vars PROVE TypeOK'
<1> USE QueueAssumption, ClockAssumption DEF TypeOK
<1>1. CASE InnerEnqueue
  BY <1>1 DEF InnerEnqueue
<1>2. CASE Signal /\ UNCHANGED items
  BY <1>2 DEF Signal, SignalAdd, SemPost
<1>3. CASE Call
  BY <1>3 DEF Call
<1>4. CASE InnerDequeue
  BY <1>4 DEF InnerDequeue
<1>5. CASE AssertFails
  BY <1>5 DEF AssertFails
<1>6. CASE Register /\ UNCHANGED items
  <2>1. \A now \in ClockReadings : Deadline(now) \in Nat
    BY DEF Deadline, Carried
  <2>2. QED
    BY <1>6, <2>1 DEF Register
<1>7. CASE (LoadCount \/ TakeCount \/ SemTimedOut \/ SemInvalid) /\ UNCHANGED items
  <2>1. einval' \in BOOLEAN
    BY <1>7, Zenon DEF LoadCount, TakeCount, SemTimedOut, SemInvalid
  <2>2. QED
    BY <1>7, <2>1 DEF LoadCount, TakeCount, SemTimedOut, SemInvalid
<1>8. CASE (Restore \/ Retake) /\ UNCHANGED items
  BY <1>8 DEF Restore, Retake
<1>9. CASE (SemWait \/ SemTryWait) /\ UNCHANGED items
  BY <1>9 DEF SemWait, SemTryWait
<1>10. CASE UNCHANGED vars
  BY <1>10 DEF vars, semVars
<1>11. QED
  BY <1>1, <1>2, <1>3, <1>4, <1>5, <1>6, <1>7, <1>8, <1>9, <1>10
     DEF Next, Producer, Consumer, Wait

\* Every step keeps the books, unless sem_timedwait refuses its deadline.
LEMMA BookStep ==
  ASSUME TypeOK, ~einval, Bookkeeping, [Next]_vars
  PROVE  (einval \/ Bookkeeping)'
<1> USE DEF TypeOK, Bookkeeping, CountAgrees, PostsAgree, SeenIsThere, HeldIsSignalled,
            SignalledIsThere
<1>1. CASE InnerEnqueue
  BY <1>1 DEF InnerEnqueue
<1>2. CASE SignalAdd /\ UNCHANGED items
  BY <1>2 DEF SignalAdd
<1>3. CASE SemPost /\ UNCHANGED items
  BY <1>3 DEF SemPost
<1>4. CASE Call
  BY <1>4 DEF Call
<1>5. CASE InnerDequeue
  BY <1>5 DEF InnerDequeue
<1>6. CASE AssertFails
  BY <1>6 DEF AssertFails
<1>7. CASE LoadCount /\ UNCHANGED items
  BY <1>7 DEF LoadCount
<1>8. CASE TakeCount /\ UNCHANGED items
  BY <1>8 DEF TakeCount
<1>9. CASE Register /\ UNCHANGED items
  BY <1>9 DEF Register
<1>10. CASE SemWait /\ UNCHANGED items
  BY <1>10 DEF SemWait
<1>11. CASE SemTimedOut /\ UNCHANGED items
  BY <1>11 DEF SemTimedOut
<1>12. CASE SemInvalid
  BY <1>12 DEF SemInvalid
<1>13. CASE Restore /\ UNCHANGED items
  BY <1>13 DEF Restore
<1>14. CASE Retake /\ UNCHANGED items
  BY <1>14 DEF Retake
<1>15. CASE SemTryWait /\ UNCHANGED items
  BY <1>15 DEF SemTryWait
<1>16. CASE UNCHANGED vars
  BY <1>16 DEF vars, semVars
<1>17. QED
  BY <1>1, <1>2, <1>3, <1>4, <1>5, <1>6, <1>7, <1>8, <1>9, <1>10, <1>11, <1>12, <1>13,
     <1>14, <1>15, <1>16 DEF Next, Producer, Consumer, Signal, Wait

\* A refused deadline is never forgotten.
LEMMA EinvalStable == ASSUME einval = TRUE, [Next]_vars PROVE einval' = TRUE
  BY DEF Next, Producer, Consumer, Signal, Wait, InnerEnqueue, SignalAdd, SemPost, Call,
         InnerDequeue, AssertFails, LoadCount, TakeCount, Register, SemWait, SemTimedOut,
         SemInvalid, Restore, Retake, SemTryWait, vars, semVars

LEMMA NextIInv == IInv /\ [Next]_vars => IInv'
<1> SUFFICES ASSUME IInv, [Next]_vars PROVE IInv'
  OBVIOUS
<1>1. TypeOK /\ TypeOK'
  BY TypeStep DEF IInv
<1>2. CASE einval
  BY <1>1, <1>2, EinvalStable DEF IInv, TypeOK
<1>3. CASE ~einval
  BY <1>1, <1>3, BookStep DEF IInv
<1>4. QED
  BY <1>2, <1>3

LEMMA Inductive == Spec => []IInv
<1>1. IInv /\ [Next]_vars => IInv'
  BY NextIInv
<1>2. QED
  BY InitIInv, <1>1, PTL DEF Spec

-----------------------------------------------------------------------------

\* The types are right in every reachable state.
THEOREM QueueTypeCorrect == Spec => []TypeOK
<1>1. IInv => TypeOK
  BY DEF IInv
<1>2. QED
  BY Inductive, <1>1, PTL

\* The invariant implies what the queue asserts and what its runs check.
LEMMA QueueSafe == IInv => DequeueSucceeds /\ OneWaiter /\ CountAgrees /\ PostsAgree
  BY DEF IInv, TypeOK, Bookkeeping, CountAgrees, PostsAgree, HeldIsSignalled,
         SignalledIsThere, DequeueSucceeds, OneWaiter

\* assert(success) of the four ways to dequeue: until sem_timedwait refuses a
\* deadline, and whatever the clock shows, who got the semaphore finds its
\* element.
THEOREM EveryDequeueSucceeds == Spec => []DequeueSucceeds
  BY Inductive, QueueSafe, PTL

\* assert(oldCount >= -1) of signal(): there is never more than one waiter.
THEOREM NeverTwoWaiters == Spec => []OneWaiter
  BY Inductive, QueueSafe, PTL

\* The count of the semaphore is the length of the queue, less the element that
\* is not signalled yet and the one that is claimed.
THEOREM CountIsLength == Spec => []CountAgrees
  BY Inductive, QueueSafe, PTL

\* No post of the POSIX semaphore is missing or left over for a later call.
THEOREM NoStrayPost == Spec => []PostsAgree
  BY Inductive, QueueSafe, PTL

\* If no clock reading leads to a deadline of exactly one second, none is ever
\* refused.
DeadlineFits == deadline < NsecPerSec /\ ~einval

LEMMA DeadlineAlwaysFits ==
  ASSUME NoCarryBoundary
  PROVE  Spec => []DeadlineFits
<1> USE ClockAssumption DEF DeadlineFits
<1>1. Init => DeadlineFits
  BY DEF Init, SemInit
<1>2. IInv /\ DeadlineFits /\ [Next]_vars => DeadlineFits'
  <2> SUFFICES ASSUME IInv, DeadlineFits, [Next]_vars PROVE DeadlineFits'
    OBVIOUS
  <2>1. \A now \in ClockReadings : Deadline(now) < NsecPerSec
    BY NoCarryBoundary DEF NoCarryBoundary, Deadline, Carried
  <2>2. CASE Register
    BY <2>1, <2>2 DEF Register
  <2>3. CASE ~Register
    BY <2>3 DEF Next, Producer, Consumer, Signal, Wait, InnerEnqueue, SignalAdd, SemPost,
       Call, InnerDequeue, AssertFails, LoadCount, TakeCount, SemWait, SemTimedOut,
       SemInvalid, ValidDeadline, Restore, Retake, SemTryWait, vars, semVars
  <2>4. QED
    BY <2>2, <2>3
<1>3. QED
  BY Inductive, <1>1, <1>2, PTL DEF Spec

\* With such a clock the assertions of the queue hold for ever.
THEOREM AlwaysDelivers ==
  ASSUME NoCarryBoundary
  PROVE  Spec => []TimedCallDelivers
<1>1. DeadlineFits /\ DequeueSucceeds => TimedCallDelivers
  BY DEF DeadlineFits, DequeueSucceeds, TimedCallDelivers
<1>2. QED
  BY DeadlineAlwaysFits, EveryDequeueSucceeds, <1>1, PTL

-----------------------------------------------------------------------------
(* The queue implements BlockingFifo.                                      *)

\* Only a timed call gives up, and the producer minds its bound.
TimedOnly == consumer \in {"restore", "retake", "trysem"} => mode = "timed"
Short     == Len(items) <= MaxItems

LEMMA TimedAndShort == Spec => [](TimedOnly /\ Short)
<1>1. Init => TimedOnly /\ Short
  BY QueueAssumption DEF Init, SemInit, TimedOnly, Short
<1>2. IInv /\ TimedOnly /\ Short /\ [Next]_vars => (TimedOnly /\ Short)'
  <2> SUFFICES ASSUME IInv, TimedOnly, Short, [Next]_vars PROVE (TimedOnly /\ Short)'
    OBVIOUS
  <2>1. TypeOK
    BY DEF IInv
  <2>2. Short'
    BY <2>1, QueueAssumption
       DEF TypeOK, Short, Next, Producer, Consumer, InnerEnqueue, Call, InnerDequeue,
           AssertFails, vars
  <2>3. TimedOnly'
    BY DEF TimedOnly, Next, Producer, Consumer, Signal, Wait, InnerEnqueue, SignalAdd,
       SemPost, Call, InnerDequeue, AssertFails, LoadCount, TakeCount, Register, SemWait,
       SemTimedOut, SemInvalid, Restore, Retake, SemTryWait, vars, semVars
  <2>4. QED
    BY <2>2, <2>3
<1>3. QED
  BY Inductive, <1>1, <1>2, PTL DEF Spec

\* What the producer has appended shows up when it signals, and taking the
\* head of the queue takes the head of what shows.
LEMMA SignalledLength ==
  ASSUME TypeOK, SignalledIsThere
  PROVE  /\ Signalled \in Seq(Values)
         /\ Len(Signalled) = Len(items) - One(producer = "signal")
<1>1. CASE producer = "signal"
  <2>1. \A i \in 1 .. Len(items) - 1 : items[i] \in Values
    BY DEF TypeOK
  <2>2. /\ SubSeq(items, 1, Len(items) - 1) \in Seq(Values)
        /\ Len(SubSeq(items, 1, Len(items) - 1)) = Len(items) - 1
    <3> DEFINE n == Len(items) - 1
    <3>1. n \in Int /\ n >= 0 /\ 1 \in Int
      BY <1>1 DEF TypeOK, SignalledIsThere
    <3> HIDE DEF n
    <3>2. /\ SubSeq(items, 1, n) \in Seq(Values)
          /\ Len(SubSeq(items, 1, n)) = IF 1 <= n THEN n - 1 + 1 ELSE 0
      <4>1. \A i \in 1 .. n : items[i] \in Values
        BY <2>1 DEF n
      <4>2. QED
        BY <3>1, <4>1, SubSeqProperties
    <3>3. /\ SubSeq(items, 1, n) \in Seq(Values)
          /\ Len(SubSeq(items, 1, n)) = n
      BY <3>1, <3>2
    <3>4. QED
      BY <3>3 DEF n
  <2>3. QED
    BY <1>1, <2>2 DEF Signalled
<1>2. CASE producer # "signal"
  BY <1>2 DEF TypeOK, Signalled
<1>3. QED
  BY <1>1, <1>2

LEMMA PutStep ==
  ASSUME TypeOK, SignalledIsThere, Short, SignalAdd, UNCHANGED items
  PROVE  Fifo!Put
<1> DEFINE v == items[Len(items)]
<1>1. Len(items) \in 1 .. MaxItems /\ v \in Values
  BY QueueAssumption DEF TypeOK, SignalledIsThere, Short, SignalAdd
<1>2. Signalled = SubSeq(items, 1, Len(items) - 1) /\ Signalled' = items
  BY DEF Signalled, SignalAdd
<1>3. SubSeq(items, 1, Len(items)) = SubSeq(items, 1, Len(items) - 1) \o <<v>>
  BY <1>1, SubSeqRecursiveSecond DEF TypeOK
<1>4. Signalled' = Append(Signalled, v)
  BY <1>1, <1>2, <1>3, SubSeqFull, SignalledLength DEF TypeOK
<1>5. Len(Signalled) < MaxItems
  <2>1. Len(Signalled) = Len(items) - 1
    BY SignalledLength DEF SignalAdd
  <2>2. QED
    BY <1>1, <2>1, QueueAssumption
<1>6. UNCHANGED Pending
  BY DEF Pending, SignalAdd
<1>7. QED
  BY <1>1, <1>4, <1>5, <1>6 DEF Fifo!Put

LEMMA TakeStep ==
  ASSUME TypeOK, ~einval, Bookkeeping, InnerDequeue
  PROVE  Fifo!Take
<1>1. Len(Signalled) >= 1
  BY SignalledLength
     DEF TypeOK, Bookkeeping, CountAgrees, HeldIsSignalled, InnerDequeue
<1>2. Signalled' = Tail(Signalled)
  <2>1. CASE producer = "signal"
    <3>1. Len(items) >= 2
      BY <1>1, <2>1, SignalledLength DEF TypeOK, Bookkeeping
    <3>2. Tail(items) = SubSeq(items, 2, Len(items)) /\ Len(Tail(items)) = Len(items) - 1
      BY <3>1, TailIsSubSeq, HeadTailProperties DEF TypeOK
    <3>3. SubSeq(SubSeq(items, 2, Len(items)), 1, Len(items) - 2)
            = SubSeq(items, 2, Len(items) - 1)
      <4>1. CASE Len(items) = 2
        BY <4>1, SubSeqEmpty DEF TypeOK
      <4>2. CASE Len(items) > 2
        <5>1. 2 \in 1 .. Len(items) /\ Len(items) \in 1 .. Len(items)
          BY <4>2 DEF TypeOK
        <5>2. /\ 1 \in 1 .. Len(items) - 2 + 1
              /\ Len(items) - 2 \in 1 .. Len(items) - 2 + 1
          BY <4>2 DEF TypeOK
        <5>3. SubSeq(SubSeq(items, 2, Len(items)), 1, Len(items) - 2)
                = SubSeq(items, 2 + 1 - 1, 2 + (Len(items) - 2) - 1)
          BY <5>1, <5>2, SubSeqOfSubSeq DEF TypeOK
        <5>4. QED
          BY <5>3 DEF TypeOK
      <4>3. QED
        BY <3>1, <4>1, <4>2 DEF TypeOK
    <3>4. Tail(SubSeq(items, 1, Len(items) - 1)) = SubSeq(items, 2, Len(items) - 1)
      BY <3>1, HeadTailOfSubSeq DEF TypeOK
    <3>5. Signalled' = SubSeq(Tail(items), 1, Len(Tail(items)) - 1)
      BY <2>1 DEF Signalled, InnerDequeue
    <3>6. QED
      BY <2>1, <3>2, <3>3, <3>4, <3>5 DEF Signalled, TypeOK
  <2>2. CASE producer # "signal"
    BY <2>2 DEF Signalled, InnerDequeue
  <2>3. QED
    BY <2>1, <2>2
<1>3. Signalled # <<>>
  BY <1>1
<1>4. Pending # "none" /\ Pending' = "none"
  BY DEF Pending, InnerDequeue, TypeOK
<1>5. QED
  BY <1>2, <1>3, <1>4 DEF Fifo!Take

\* A call that returns without an element has found the queue empty.
LEMMA GiveUpStep ==
  ASSUME TypeOK, ~einval, Bookkeeping, TimedOnly, LoadCount \/ Restore, UNCHANGED items,
         consumer' = "idle"
  PROVE  Fifo!GiveUp
<1>1. Len(Signalled) = 0 /\ Signalled \in Seq(Values)
  BY SignalledLength DEF TypeOK, Bookkeeping, CountAgrees, LoadCount, Restore
<1>2. Pending \in {"try", "pop", "timed"} /\ Pending' = "none"
  BY DEF Pending, LoadCount, Restore, Tries, TimedOnly
<1>3. Signalled' = Signalled
  BY DEF LoadCount, Restore, Signalled
<1>4. Signalled = <<>>
  BY <1>1
<1>5. QED
  BY <1>2, <1>3, <1>4 DEF Fifo!GiveUp

LEMMA RefinementStep ==
  ASSUME IInv, TimedOnly, Short, [Next]_vars
  PROVE  [einval \/ Fifo!Next]_<<Signalled, Pending>>
<1> SUFFICES ASSUME ~einval PROVE Fifo!Next \/ UNCHANGED <<Signalled, Pending>>
  OBVIOUS
<1>0. TypeOK /\ Bookkeeping /\ SignalledIsThere
  BY DEF IInv, Bookkeeping
<1> USE DEF Fifo!Next
<1>1. CASE InnerEnqueue
  <2>1. PICK v \in Values : items' = Append(items, v)
    BY <1>1 DEF InnerEnqueue
  <2>2. items' = items \o <<v>> /\ Len(items') = Len(items) + 1
    BY <1>0, <2>1 DEF TypeOK
  <2>3. SubSeq(items', 1, Len(items)) = items
    <3>1. CASE Len(items) = 0
      BY <1>0, <3>1, SubSeqEmpty DEF TypeOK
    <3>2. CASE Len(items) > 0
      <4>1. <<v>> \in Seq(Values) /\ 1 \in 1 .. Len(items) /\ Len(items) \in 1 .. Len(items)
        BY <1>0, <3>2 DEF TypeOK
      <4>2. QED
        BY <1>0, <2>2, <4>1, SubSeqOfConcat1, SubSeqFull DEF TypeOK
    <3>3. QED
      BY <1>0, <3>1, <3>2 DEF TypeOK
  <2>4. Signalled' = items /\ Signalled = items
    BY <1>0, <1>1, <2>2, <2>3 DEF InnerEnqueue, Signalled, TypeOK
  <2>5. UNCHANGED Pending
    BY <1>1 DEF InnerEnqueue, Pending
  <2>6. QED
    BY <2>4, <2>5
<1>2. CASE SignalAdd /\ UNCHANGED items
  BY <1>0, <1>2, PutStep
<1>3. CASE SemPost /\ UNCHANGED items
  BY <1>3 DEF SemPost, Signalled, Pending
<1>4. CASE Call
  BY <1>0, <1>4 DEF Call, Signalled, Pending, Fifo!Call, TypeOK
<1>5. CASE InnerDequeue
  BY <1>0, <1>5, TakeStep
<1>6. CASE (LoadCount \/ Restore) /\ UNCHANGED items /\ consumer' = "idle"
  BY <1>0, <1>6, GiveUpStep
<1>7. CASE /\ LoadCount \/ TakeCount \/ Register \/ SemWait \/ SemTimedOut \/ SemInvalid
              \/ Restore \/ Retake \/ SemTryWait
           /\ UNCHANGED items
           /\ consumer' # "idle"
  BY <1>7 DEF LoadCount, TakeCount, Register, SemWait, SemTimedOut, SemInvalid, Restore,
     Retake, SemTryWait, Signalled, Pending
<1>8. CASE AssertFails
  BY <1>8 DEF AssertFails, Signalled, Pending
<1>9. CASE UNCHANGED vars
  BY <1>9 DEF vars, semVars, Signalled, Pending
<1>10. CASE Wait /\ UNCHANGED items
  <2>1. LoadCount \/ Restore \/ consumer' # "idle"
    BY <1>10 DEF Wait, TakeCount, Register, SemWait, SemTimedOut, SemInvalid, Retake,
       SemTryWait
  <2>2. QED
    BY <1>6, <1>7, <1>10, <2>1 DEF Wait
<1>11. QED
  BY <1>1, <1>2, <1>3, <1>4, <1>5, <1>8, <1>9, <1>10 DEF Next, Producer, Consumer, Signal

\* For any elements, any length and any clock the queue is a BlockingFifo, in
\* which nothing is lost, doubled or reordered and no call gives up while an
\* element is there, until sem_timedwait refuses a deadline.
THEOREM QueueImplementsFifo == Spec => Refinement
<1>1. Init => Fifo!Init
  BY DEF Init, SemInit, Fifo!Init, Signalled, Pending
<1>2. QED
  BY Inductive, TimedAndShort, <1>1, RefinementStep, PTL DEF Spec, Refinement
=============================================================================
