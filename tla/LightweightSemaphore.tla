------------------------ MODULE LightweightSemaphore ------------------------
(***************************************************************************)
(* spsc_sema::LightweightSemaphore of src/include/atomicops.h: an atomic   *)
(* counter that lets a single producer and a single consumer avoid the     *)
(* POSIX semaphore behind it unless the consumer really has to sleep.      *)
(* One action is one access to the counter or one call of the POSIX        *)
(* semaphore.  There is no Spec here: BlockingQueue, which owns the        *)
(* semaphore, says when its operations are called.                         *)
(*                                                                         *)
(* The memory model is sequential consistency.                             *)
(***************************************************************************)
EXTENDS Integers

CONSTANTS
  ClockReadings,  \* the tv_nsec clock_gettime can return
  NsecPerSec,     \* nsecs_in_1_sec
  TimeoutNsec     \* (usecs % usecs_in_1_sec) * 1000

ASSUME ClockAssumption ==
  /\ NsecPerSec \in Nat
  /\ TimeoutNsec \in 0 .. NsecPerSec - 1
  /\ ClockReadings \subseteq 0 .. NsecPerSec - 1

VARIABLES
  count,     \* m_count
  sem,       \* the value of the sem_t in m_sema
  producer,  \* where the producer stands in enqueue() and signal()
  consumer,  \* where the consumer stands in tryWait() and wait()
  mode,      \* the consumer's call: "try", "pop", "timed" or "wait"
  deadline,  \* ts.tv_nsec of its timed_wait
  einval     \* history: sem_timedwait has failed with EINVAL

semVars == <<count, sem, producer, consumer, mode, deadline, einval>>

SemInit ==
  /\ count = 0
  /\ sem = 0
  /\ producer = "idle"
  /\ consumer = "idle"
  /\ mode = "try"
  /\ deadline = 0
  /\ einval = FALSE

-----------------------------------------------------------------------------
(* The producer: signal().                                                 *)

\* Faulty: posts although nobody waits.
SignalAddEager ==
  /\ producer = "signal"
  /\ count' = count + 1
  /\ producer' = IF count <= 0 THEN "post" ELSE "idle"
  /\ UNCHANGED <<sem, consumer, mode, deadline, einval>>

\* Faulty: decides by the new count instead of the old one.
SignalAddNewCount ==
  /\ producer = "signal"
  /\ count' = count + 1
  /\ producer' = IF count + 1 < 0 THEN "post" ELSE "idle"
  /\ UNCHANGED <<sem, consumer, mode, deadline, einval>>

SignalAdd ==
  /\ producer = "signal"
  /\ count' = count + 1
  /\ producer' = IF count < 0 THEN "post" ELSE "idle"
  /\ UNCHANGED <<sem, consumer, mode, deadline, einval>>

SemPost ==
  /\ producer = "post"
  /\ sem' = sem + 1
  /\ producer' = "idle"
  /\ UNCHANGED <<count, consumer, mode, deadline, einval>>

-----------------------------------------------------------------------------
(* The consumer: tryWait(), wait(), wait(timeout_usecs).                   *)

\* try_dequeue() and pop() call tryWait(), which does not wait.
Tries == mode \in {"try", "pop"}

\* Faulty: m_count.load() >= 0.
LoadCountOffByOne ==
  /\ consumer = "load"
  /\ \/ count >= 0 /\ consumer' = "take"
     \/ count < 0 /\ Tries /\ consumer' = "idle"
     \/ count < 0 /\ ~Tries /\ consumer' = "register"
  /\ UNCHANGED <<count, sem, producer, mode, deadline, einval>>

\* m_count.load() > 0.  tryWait() looks once.  wait() looks again and again
\* before it registers; the rounds that find nothing change nothing.
LoadCount ==
  /\ consumer = "load"
  /\ \/ count > 0 /\ consumer' = "take"
     \/ count <= 0 /\ Tries /\ consumer' = "idle"
     \/ count <= 0 /\ ~Tries /\ consumer' = "register"
  /\ UNCHANGED <<count, sem, producer, mode, deadline, einval>>

\* fetch_add_acquire(-1) after the load: return true, whatever it was before.
TakeCount ==
  /\ consumer = "take"
  /\ count' = count - 1
  /\ consumer' = "acquired"
  /\ UNCHANGED <<sem, producer, mode, deadline, einval>>

\* The deadline timed_wait computes: nanoseconds are carried over into the
\* seconds if (ts.tv_nsec > nsecs_in_1_sec).
Carried(nsec) == IF nsec > NsecPerSec THEN nsec - NsecPerSec ELSE nsec
Deadline(now) == Carried(now + TimeoutNsec)

\* Faulty: an old count of zero is taken for an element.
RegisterOffByOne ==
  /\ consumer = "register"
  /\ count' = count - 1
  /\ IF count >= 0
       THEN consumer' = "acquired" /\ UNCHANGED deadline
       ELSE /\ consumer' = "blocked"
            /\ IF mode = "timed" THEN \E now \in ClockReadings : deadline' = Deadline(now)
                                 ELSE UNCHANGED deadline
  /\ UNCHANGED <<sem, producer, mode, einval>>

\* fetch_add_acquire(-1) at the end of the spinning; then on to m_sema.
Register ==
  /\ consumer = "register"
  /\ count' = count - 1
  /\ IF count > 0
       THEN consumer' = "acquired" /\ UNCHANGED deadline
       ELSE /\ consumer' = "blocked"
            /\ IF mode = "timed" THEN \E now \in ClockReadings : deadline' = Deadline(now)
                                 ELSE UNCHANGED deadline
  /\ UNCHANGED <<sem, producer, mode, einval>>

\* sem_wait or sem_timedwait takes the semaphore.
SemWait ==
  /\ consumer = "blocked"
  /\ sem > 0
  /\ sem' = sem - 1
  /\ consumer' = "acquired"
  /\ UNCHANGED <<count, producer, mode, deadline, einval>>

ValidDeadline == deadline < NsecPerSec

\* sem_timedwait fails with ETIMEDOUT, even if the post came in meanwhile.
SemTimedOut ==
  /\ consumer = "blocked"
  /\ mode = "timed"
  /\ ValidDeadline
  /\ consumer' = "restore"
  /\ UNCHANGED <<count, sem, producer, mode, deadline, einval>>

\* sem_timedwait fails with EINVAL, which timed_wait does not tell from a
\* success: !(rc == -1 && errno == ETIMEDOUT).
SemInvalid ==
  /\ consumer = "blocked"
  /\ mode = "timed"
  /\ ~ValidDeadline
  /\ consumer' = "acquired"
  /\ einval' = TRUE
  /\ UNCHANGED <<count, sem, producer, mode, deadline>>

\* Faulty: gives up without restoring the count.
RestoreForgotten ==
  /\ consumer = "restore"
  /\ consumer' = IF count < 0 THEN "idle" ELSE "retake"
  /\ UNCHANGED <<count, sem, producer, mode, deadline, einval>>

\* Faulty: gives up although the producer has signalled meanwhile.
RestoreBlindly ==
  /\ consumer = "restore"
  /\ count' = count + 1
  /\ consumer' = "idle"
  /\ UNCHANGED <<sem, producer, mode, deadline, einval>>

\* fetch_add_release(1): if the count was still negative nobody signalled and
\* wait() returns false.
Restore ==
  /\ consumer = "restore"
  /\ count' = count + 1
  /\ consumer' = IF count < 0 THEN "idle" ELSE "retake"
  /\ UNCHANGED <<sem, producer, mode, deadline, einval>>

\* Faulty: does not take the element back.
RetakeForgotten ==
  /\ consumer = "retake"
  /\ consumer' = IF count > 0 THEN "trysem" ELSE "restore"
  /\ UNCHANGED <<count, sem, producer, mode, deadline, einval>>

\* fetch_add_acquire(-1): the producer did signal.
Retake ==
  /\ consumer = "retake"
  /\ count' = count - 1
  /\ consumer' = IF count > 0 THEN "trysem" ELSE "restore"
  /\ UNCHANGED <<sem, producer, mode, deadline, einval>>

\* Faulty: does not look whether there is a post to take.
SemTryWaitUnchecked ==
  /\ consumer = "trysem"
  /\ sem' = sem - 1
  /\ consumer' = "acquired"
  /\ UNCHANGED <<count, producer, mode, deadline, einval>>

\* m_sema.try_wait(): fails while the producer is between its two steps.
SemTryWait ==
  /\ consumer = "trysem"
  /\ \/ sem > 0 /\ sem' = sem - 1 /\ consumer' = "acquired"
     \/ sem = 0 /\ UNCHANGED sem /\ consumer' = "restore"
  /\ UNCHANGED <<count, producer, mode, deadline, einval>>

Signal == SignalAdd \/ SemPost
Wait   == \/ LoadCount \/ TakeCount \/ Register
          \/ SemWait \/ SemTimedOut \/ SemInvalid
          \/ Restore \/ Retake \/ SemTryWait
=============================================================================
