---------------------------- MODULE BuffersProofs ---------------------------
(***************************************************************************)
(* Proofs about Buffers, for any graph.                                    *)
(*                                                                         *)
(*   NoDangling     no thread and no queue holds a buffer that was         *)
(*                  deleted.  What makes it hold is the order of the       *)
(*                  items: the buffer that a wrapper deletes carries a     *)
(*                  number below all that are still under way in the same  *)
(*                  queue, so that Ordered of OrderProofs is part of the   *)
(*                  argument.                                              *)
(*   LossesBounded  what a stop loses, and InputsDeleted, that nothing is  *)
(*                  lost at work, where no block has a second input for    *)
(*                  'delete a,b;' to forget.                               *)
(***************************************************************************)
EXTENDS Buffers, OrderProofs, FiniteSetTheorems

-----------------------------------------------------------------------------
(* Who holds a buffer.                                                     *)

\* The buffers at a place of a queue, at an input port and at an output port.
InputBuffer(i)  == <<InputQueue[i], inputs[i]>>
OutputBuffer(o) == <<OutputQueue[o], output[o[1]]>>

\* All that is held is alive ...
Safe ==
  /\ \A q \in Queues : \A j \in DOMAIN queue[q] : <<q, queue[q][j]>> \in live
  /\ \A i \in InPorts : InHand(i) => InputBuffer(i) \in live
  /\ \A o \in OutPorts : Unsent(o) => OutputBuffer(o) \in live

\* ... and what is alive is held, or was left behind.
Accounted(m) ==
  \/ \E q \in Queues : \E j \in DOMAIN queue[q] : m = <<q, queue[q][j]>>
  \/ \E i \in InPorts : (InHand(i) \/ LeftIn(i)) /\ m = InputBuffer(i)
  \/ \E o \in OutPorts : (Unsent(o) \/ LeftOut(o)) /\ m = OutputBuffer(o)

AllAccounted == \A m \in live : Accounted(m)

\* The properties' Held, in these terms.
LEMMA HeldBuffers ==
  ASSUME WorkerTypeOK, Complete
  PROVE  /\ Safe => NoDangling
         /\ \A q \in Queues : \A j \in DOMAIN queue[q] : <<q, queue[q][j]>> \in Held
         /\ \A i \in InPorts : InHand(i) => InputBuffer(i) \in Held
         /\ \A o \in OutPorts : Unsent(o) => OutputBuffer(o) \in Held
<1>1. \A m : m \in InQueues <=> \E q \in Queues : \E j \in DOMAIN queue[q] : m = <<q, queue[q][j]>>
  BY DEF InQueues
<1>2. \A w \in Workers : \A m : m \in ReadBy(w) <=>
        \E i \in InPorts : i[1] = w /\ InHand(i) /\ m = InputBuffer(i)
  <2> SUFFICES ASSUME NEW w \in Workers, NEW m
               PROVE  m \in ReadBy(w) <=> \E i \in InPorts : i[1] = w /\ InHand(i) /\ m = InputBuffer(i)
    OBVIOUS
  <2>1. \A i : i \in {w} \X Ins(w) <=> i \in InPorts /\ i[1] = w
    BY InPortShape
  <2>2. CASE Handling(w)
    <3>1. ReadBy(w) = {<<InputQueue[i], inputs[i]>> : i \in {j \in {w} \X Ins(w) : inputs[j] # None}}
      BY <2>2 DEF ReadBy, Handling
    <3>2. QED
      BY <2>1, <2>2, <3>1 DEF InHand, InputBuffer
  <2>3. CASE ~Handling(w)
    <3>1. ReadBy(w) = {}
      BY <2>3 DEF ReadBy, Handling
    <3>2. QED
      BY <2>3, <3>1 DEF InHand
  <2>4. QED
    BY <2>2, <2>3
<1>3. \A w \in Workers : \A m : m \in UnsentBy(w) <=>
        \E o \in OutPorts : o[1] = w /\ Unsent(o) /\ m = OutputBuffer(o)
  <2> SUFFICES ASSUME NEW w \in Workers, NEW m
               PROVE  m \in UnsentBy(w) <=> \E o \in OutPorts : o[1] = w /\ Unsent(o) /\ m = OutputBuffer(o)
    OBVIOUS
  <2> DEFINE first == IF pc[w] = "increment" THEN port[w] + 1 ELSE port[w]
             sending == Sending(w) \/ (pc[w] = "srccheck" /\ flag[w] > 0)
  <2>1. m \in UnsentBy(w) <=>
          sending /\ \E o \in {w} \X {p \in Outs(w) : p >= first} : m = <<OutputQueue[o], output[w]>>
    BY DEF UnsentBy
  <2>2. ASSUME NEW p \in Outs(w)
        PROVE  Unsent(<<w, p>>) <=> sending /\ p >= first
    <3>1. p \in Nat /\ (pc[w] = "srccheck" => port[w] = 0)
      BY PortNumbers DEF Complete, CompleteAt
    <3>2. CASE pc[w] = "srccheck"
      BY <3>1, <3>2 DEF Unsent, Sending
    <3>3. CASE pc[w] = "increment"
      <4>1. port[w] \in Nat => (p > port[w] <=> p >= port[w] + 1)
        BY <3>1
      <4>2. port[w] \in Nat
        BY DEF WorkerTypeOK, VariableTypes
      <4>3. QED
        BY <3>3, <4>1, <4>2 DEF Unsent, Sending
    <3>4. CASE pc[w] \in {"full", "enqueue"}
      BY <3>4 DEF Unsent, Sending
    <3>5. CASE pc[w] \notin {"srccheck", "full", "enqueue", "increment"}
      BY <3>5 DEF Unsent, Sending
    <3>6. QED
      BY <3>2, <3>3, <3>4, <3>5
  <2> HIDE DEF first, sending
  <2>3. QED
    BY <2>1, <2>2, OutPortShape DEF OutputBuffer
<1>4. \A m : m \in Held <=>
        \/ m \in InQueues
        \/ \E w \in Workers : m \in ReadBy(w) \/ m \in UnsentBy(w)
  BY DEF Held
<1>5. \A m \in Held :
        \/ \E q \in Queues : \E j \in DOMAIN queue[q] : m = <<q, queue[q][j]>>
        \/ \E i \in InPorts : InHand(i) /\ m = InputBuffer(i)
        \/ \E o \in OutPorts : Unsent(o) /\ m = OutputBuffer(o)
  BY <1>1, <1>2, <1>3, <1>4
<1>6. Safe => NoDangling
  BY <1>5 DEF Safe, NoDangling
<1>7. QED
  BY <1>1, <1>2, <1>3, <1>4, <1>6, InPortShape, OutPortShape

-----------------------------------------------------------------------------
(* Steps that move no item.                                                *)

LEMMA StillSafe ==
  ASSUME Still, live' = live
  PROVE  /\ Safe => Safe'
         /\ AllAccounted => AllAccounted'
<1>1. Safe => Safe'
  BY DEF Still, Safe, InputBuffer, OutputBuffer
<1>2. ASSUME AllAccounted PROVE AllAccounted'
  <2> SUFFICES ASSUME NEW m \in live PROVE Accounted(m)'
    BY DEF AllAccounted
  <2>1. CASE \E q \in Queues : \E j \in DOMAIN queue[q] : m = <<q, queue[q][j]>>
    BY <2>1 DEF Still, Accounted
  <2>2. CASE \E i \in InPorts : (InHand(i) \/ LeftIn(i)) /\ m = InputBuffer(i)
    <3>1. PICK i \in InPorts : (InHand(i) \/ LeftIn(i)) /\ m = InputBuffer(i)
      BY <2>2
    <3>2. (InHand(i)' \/ LeftIn(i)') /\ m = <<InputQueue[i], inputs'[i]>>
      BY <3>1 DEF Still, InputBuffer
    <3>3. QED
      BY <3>2 DEF Accounted, InputBuffer
  <2>3. CASE \E o \in OutPorts : (Unsent(o) \/ LeftOut(o)) /\ m = OutputBuffer(o)
    <3>1. PICK o \in OutPorts : (Unsent(o) \/ LeftOut(o)) /\ m = OutputBuffer(o)
      BY <2>3
    <3>2. (Unsent(o)' \/ LeftOut(o)') /\ m = <<OutputQueue[o], output'[o[1]]>>
      BY <3>1 DEF Still, OutputBuffer
    <3>3. QED
      BY <3>2 DEF Accounted, OutputBuffer
  <2>4. QED
    BY <1>2, <2>1, <2>2, <2>3 DEF AllAccounted, Accounted
<1>3. QED
  BY <1>1, <1>2

-----------------------------------------------------------------------------
(* Steps that move an item.                                                *)

\* Taking an item: its buffer goes from the queue to the reader.
LEMMA DequeueBuffers ==
  ASSUME WorkerTypeOK, Complete, Rounds, NEW w \in Workers, Dequeue(w), live' = live
  PROVE  /\ Safe => Safe'
         /\ AllAccounted => AllAccounted'
<1>0. PICK i0 \in InPorts : i0 = <<w, port[w]>>
  BY DEF Dequeue, WorkerTypeOK, PortInRange, Reading
<1>1. PICK q0 \in Queues : q0 = InputQueue[i0] /\ q0 = InQueue(w)
  BY <1>0, Numbers DEF InQueue
<1>2. /\ queue[q0] \in Seq(Nat \ {None}) /\ queue \in [Queues -> Seq(Nat \ {None})]
      /\ pc \in [Workers -> Labels] /\ inputs \in [InPorts -> Nat]
  BY DEF WorkerTypeOK, VariableTypes
<1>3. /\ pc[w] = "wait" /\ pc' = [pc EXCEPT ![w] = "decrement"] /\ queue[q0] # <<>>
      /\ queue' = [queue EXCEPT ![q0] = Tail(@)]
      /\ inputs' = [inputs EXCEPT ![i0] = Head(queue[q0])]
      /\ output' = output /\ port' = port /\ flag' = flag
  BY <1>0, <1>1 DEF Dequeue, GoTo
<1>4. /\ DOMAIN queue'[q0] = 1 .. Len(queue[q0]) - 1 /\ DOMAIN queue[q0] = 1 .. Len(queue[q0])
      /\ Len(queue[q0]) \in Nat \ {0} /\ queue[q0][1] \in Nat \ {None}
      /\ \A j \in 1 .. Len(queue[q0]) - 1 : queue'[q0][j] = queue[q0][j + 1]
      /\ inputs'[i0] = queue[q0][1]
  <2>1. queue'[q0] = Tail(queue[q0]) /\ inputs'[i0] = Head(queue[q0])
    BY <1>2, <1>3
  <2>2. QED
    BY <1>2, <1>3, <2>1
<1>5. \A q \in Queues \ {q0} : queue'[q] = queue[q]
  BY <1>2, <1>3
<1>6. \A q \in Queues : \A j \in DOMAIN queue'[q] : \E h \in DOMAIN queue[q] : queue'[q][j] = queue[q][h]
  <2> SUFFICES ASSUME NEW q \in Queues, NEW j \in DOMAIN queue'[q]
               PROVE  \E h \in DOMAIN queue[q] : queue'[q][j] = queue[q][h]
    OBVIOUS
  <2>1. CASE q = q0
    <3>1. j \in 1 .. Len(queue[q0]) - 1 /\ j + 1 \in DOMAIN queue[q0]
      BY <1>4, <2>1
    <3>2. QED
      BY <1>4, <2>1, <3>1
  <2>2. CASE q # q0
    BY <1>5, <2>2
  <2>3. QED
    BY <2>1, <2>2
<1>7. /\ \A i \in InPorts \ {i0} :
           /\ inputs'[i] = inputs[i] /\ (InHand(i)' <=> InHand(i)) /\ (LeftIn(i)' <=> LeftIn(i))
      /\ InHand(i0)' /\ inputs[i0] = None /\ ~LeftIn(i0)
      /\ \A o \in OutPorts : (Unsent(o)' <=> Unsent(o)) /\ (LeftOut(o)' <=> LeftOut(o))
  <2>1. \A i \in InPorts \ {i0} : inputs'[i] = inputs[i]
    BY <1>2, <1>3
  <2>2. \A v \in Workers : (Handling(v)' <=> Handling(v)) /\ (Ended(v)' <=> Ended(v))
    BY <1>2, <1>3 DEF Handling, Reading, Ended
  <2>3. \A i \in InPorts \ {i0} : (InHand(i)' <=> InHand(i)) /\ (LeftIn(i)' <=> LeftIn(i))
    BY <2>1, <2>2, InPortShape DEF InHand, LeftIn
  <2>4. InHand(i0)'
    BY <1>0, <1>2, <1>3, <1>4 DEF InHand, Handling, Reading
  <2>5. inputs[i0] = None /\ ~LeftIn(i0)
    BY <1>0, <1>3 DEF Rounds, RoundAt, LeftIn, Ended
  <2>6. \A o \in OutPorts : (Unsent(o)' <=> Unsent(o)) /\ (LeftOut(o)' <=> LeftOut(o))
    <3>1. ASSUME NEW o \in OutPorts PROVE (Unsent(o)' <=> Unsent(o)) /\ (LeftOut(o)' <=> LeftOut(o))
      <4>1. CASE o[1] = w
        BY <1>2, <1>3, <4>1 DEF Unsent, LeftOut, Ended
      <4>2. CASE o[1] # w
        BY <1>2, <1>3, <4>2, OutPortShape DEF Unsent, LeftOut, Ended
      <4>3. QED
        BY <4>1, <4>2
    <3>2. QED
      BY <3>1
  <2>7. QED
    BY <2>1, <2>3, <2>4, <2>5, <2>6
<1>8. ASSUME Safe PROVE Safe'
  <2>1. \A q \in Queues : \A j \in DOMAIN queue'[q] : <<q, queue'[q][j]>> \in live
    BY <1>6, <1>8 DEF Safe
  <2>2. ASSUME NEW i \in InPorts, InHand(i)' PROVE InputBuffer(i)' \in live
    <3>1. CASE i = i0
      <4>1. 1 \in DOMAIN queue[q0]
        BY <1>4
      <4>2. <<q0, queue[q0][1]>> \in live
        BY <1>8, <4>1 DEF Safe
      <4>3. QED
        BY <1>1, <1>4, <3>1, <4>2 DEF InputBuffer
    <3>2. CASE i # i0
      BY <1>7, <1>8, <2>2, <3>2 DEF Safe, InputBuffer
    <3>3. QED
      BY <3>1, <3>2
  <2>3. \A o \in OutPorts : Unsent(o)' => OutputBuffer(o)' \in live
    BY <1>3, <1>7, <1>8 DEF Safe, OutputBuffer
  <2>4. QED
    BY <2>1, <2>2, <2>3 DEF Safe
<1>9. ASSUME AllAccounted PROVE AllAccounted'
  <2> SUFFICES ASSUME NEW m \in live PROVE Accounted(m)'
    BY DEF AllAccounted
  <2>1. CASE \E q \in Queues : \E j \in DOMAIN queue[q] : m = <<q, queue[q][j]>>
    <3>0. PICK q \in Queues : \E j \in DOMAIN queue[q] : m = <<q, queue[q][j]>>
      BY <2>1
    <3>1. PICK j \in DOMAIN queue[q] : m = <<q, queue[q][j]>>
      BY <3>0
    <3>2. CASE q # q0
      BY <1>5, <3>1, <3>2 DEF Accounted
    <3>3. CASE q = q0 /\ j = 1
      <4>1. m = <<InputQueue[i0], inputs'[i0]>>
        BY <1>1, <1>4, <3>1, <3>3
      <4>2. QED
        BY <1>7, <4>1 DEF Accounted, InputBuffer
    <3>4. CASE q = q0 /\ j # 1
      <4>1. j - 1 \in 1 .. Len(queue[q0]) - 1 /\ (j - 1) + 1 = j
        BY <1>4, <3>4
      <4>2. j - 1 \in DOMAIN queue'[q0] /\ queue'[q0][j - 1] = queue[q0][j]
        BY <1>4, <4>1
      <4>3. QED
        BY <3>1, <3>4, <4>2 DEF Accounted
    <3>5. QED
      BY <3>2, <3>3, <3>4
  <2>2. CASE \E i \in InPorts : (InHand(i) \/ LeftIn(i)) /\ m = InputBuffer(i)
    <3>1. PICK i \in InPorts : (InHand(i) \/ LeftIn(i)) /\ m = InputBuffer(i)
      BY <2>2
    <3>2. i # i0
      BY <1>7, <3>1 DEF InHand
    <3>3. (InHand(i)' \/ LeftIn(i)') /\ m = <<InputQueue[i], inputs'[i]>>
      BY <1>7, <3>1, <3>2 DEF InputBuffer
    <3>4. QED
      BY <3>3 DEF Accounted, InputBuffer
  <2>3. CASE \E o \in OutPorts : (Unsent(o) \/ LeftOut(o)) /\ m = OutputBuffer(o)
    BY <1>3, <1>7, <2>3 DEF Accounted, OutputBuffer
  <2>4. QED
    BY <1>9, <2>1, <2>2, <2>3 DEF AllAccounted, Accounted
<1>10. QED
  BY <1>8, <1>9

\* Adding an item: its buffer goes from the worker that made it to the queue.
LEMMA EnqueueBuffers ==
  ASSUME WorkerTypeOK, NEW w \in Workers, Enqueue(w), live' = live
  PROVE  /\ Safe => Safe'
         /\ AllAccounted => AllAccounted'
<1>0. PICK o0 \in OutPorts : o0 = <<w, port[w]>>
  BY DEF Enqueue, WorkerTypeOK, PortInRange, Sending
<1>1. PICK q0 \in Queues : q0 = OutputQueue[o0] /\ q0 = OutQueue(w)
  BY <1>0, Numbers DEF OutQueue
<1>2. /\ queue[q0] \in Seq(Nat \ {None}) /\ queue \in [Queues -> Seq(Nat \ {None})]
      /\ pc \in [Workers -> Labels] /\ port \in [Workers -> Nat]
      /\ output[w] \in Nat \ {None}
  BY DEF WorkerTypeOK, VariableTypes, PortInRange, Sending, Enqueue
<1>3. /\ pc[w] = "enqueue" /\ pc' = [pc EXCEPT ![w] = "increment"]
      /\ queue' = [queue EXCEPT ![q0] = Append(@, output[w])]
      /\ inputs' = inputs /\ output' = output /\ port' = port /\ flag' = flag
  BY <1>1 DEF Enqueue, GoTo
<1>4. /\ DOMAIN queue'[q0] = 1 .. Len(queue[q0]) + 1 /\ DOMAIN queue[q0] = 1 .. Len(queue[q0])
      /\ Len(queue[q0]) \in Nat /\ queue'[q0][Len(queue[q0]) + 1] = output[w]
      /\ \A j \in 1 .. Len(queue[q0]) : queue'[q0][j] = queue[q0][j]
  <2>1. queue'[q0] = Append(queue[q0], output[w])
    BY <1>2, <1>3
  <2>2. QED
    BY <1>2, <2>1
<1>5. \A q \in Queues \ {q0} : queue'[q] = queue[q]
  BY <1>2, <1>3
<1>6. /\ \A i \in InPorts : (InHand(i)' <=> InHand(i)) /\ (LeftIn(i)' <=> LeftIn(i))
      /\ \A o \in OutPorts : (Unsent(o)' => Unsent(o)) /\ (LeftOut(o)' <=> LeftOut(o))
      /\ Unsent(o0)
      /\ \A o \in OutPorts : Unsent(o) /\ o # o0 => Unsent(o)'
  <2>1. \A v \in Workers : (Handling(v)' <=> Handling(v)) /\ (Ended(v)' <=> Ended(v))
    BY <1>2, <1>3 DEF Handling, Reading, Ended
  <2>2. \A i \in InPorts : (InHand(i)' <=> InHand(i)) /\ (LeftIn(i)' <=> LeftIn(i))
    BY <1>3, <2>1, InPortShape DEF InHand, LeftIn
  <2>3. \A o \in OutPorts : LeftOut(o)' <=> LeftOut(o)
    BY <2>1, OutPortShape DEF LeftOut
  <2>4. Unsent(o0)
    BY <1>0, <1>2, <1>3 DEF Unsent
  <2>5. ASSUME NEW o \in OutPorts PROVE (Unsent(o)' => Unsent(o)) /\ (Unsent(o) /\ o # o0 => Unsent(o)')
    <3>1. CASE o[1] = w
      <4>1. o[2] \in Nat /\ port[w] \in Nat /\ (o # o0 => o[2] # port[w])
        BY <1>0, <1>2, <3>1, OutPortShape, PortNumbers
      <4>2. Unsent(o) <=> o[2] >= port[w]
        BY <1>3, <3>1 DEF Unsent
      <4>3. Unsent(o)' <=> o[2] > port[w]
        BY <1>2, <1>3, <3>1 DEF Unsent
      <4>4. QED
        BY <4>1, <4>2, <4>3
    <3>2. CASE o[1] # w
      BY <1>2, <1>3, <3>2, OutPortShape DEF Unsent
    <3>3. QED
      BY <3>1, <3>2
  <2>6. QED
    BY <2>2, <2>3, <2>4, <2>5
<1>7. OutputBuffer(o0) = <<q0, output[w]>>
  BY <1>0, <1>1 DEF OutputBuffer
<1>8. ASSUME Safe PROVE Safe'
  <2>1. ASSUME NEW q \in Queues, NEW j \in DOMAIN queue'[q] PROVE <<q, queue'[q][j]>> \in live
    <3>1. CASE q # q0
      BY <1>5, <1>8, <2>1, <3>1 DEF Safe
    <3>2. CASE q = q0 /\ j \in 1 .. Len(queue[q0])
      BY <1>4, <1>8, <3>2 DEF Safe
    <3>3. CASE q = q0 /\ j = Len(queue[q0]) + 1
      BY <1>4, <1>6, <1>7, <1>8, <3>3 DEF Safe
    <3>4. QED
      BY <1>4, <2>1, <3>1, <3>2, <3>3
  <2>2. \A i \in InPorts : InHand(i)' => InputBuffer(i)' \in live
    BY <1>3, <1>6, <1>8 DEF Safe, InputBuffer
  <2>3. \A o \in OutPorts : Unsent(o)' => OutputBuffer(o)' \in live
    BY <1>3, <1>6, <1>8 DEF Safe, OutputBuffer
  <2>4. QED
    BY <2>1, <2>2, <2>3 DEF Safe
<1>9. ASSUME AllAccounted PROVE AllAccounted'
  <2> SUFFICES ASSUME NEW m \in live PROVE Accounted(m)'
    BY DEF AllAccounted
  <2>1. CASE \E q \in Queues : \E j \in DOMAIN queue[q] : m = <<q, queue[q][j]>>
    <3>0. PICK q \in Queues : \E j \in DOMAIN queue[q] : m = <<q, queue[q][j]>>
      BY <2>1
    <3>1. PICK j \in DOMAIN queue[q] : m = <<q, queue[q][j]>>
      BY <3>0
    <3>2. j \in DOMAIN queue'[q] /\ queue'[q][j] = queue[q][j]
      <4>1. CASE q = q0
        BY <1>4, <4>1
      <4>2. CASE q # q0
        BY <1>5, <4>2
      <4>3. QED
        BY <4>1, <4>2
    <3>3. QED
      BY <3>1, <3>2 DEF Accounted
  <2>2. CASE \E i \in InPorts : (InHand(i) \/ LeftIn(i)) /\ m = InputBuffer(i)
    BY <1>3, <1>6, <2>2 DEF Accounted, InputBuffer
  <2>3. CASE \E o \in OutPorts : (Unsent(o) \/ LeftOut(o)) /\ m = OutputBuffer(o)
    <3>1. PICK o \in OutPorts : (Unsent(o) \/ LeftOut(o)) /\ m = OutputBuffer(o)
      BY <2>3
    <3>2. CASE o = o0
      <4>1. Len(queue[q0]) + 1 \in DOMAIN queue'[q0] /\ m = <<q0, queue'[q0][Len(queue[q0]) + 1]>>
        BY <1>4, <1>7, <3>1, <3>2
      <4>2. QED
        BY <4>1 DEF Accounted
    <3>3. CASE o # o0
      <4>1. (Unsent(o)' \/ LeftOut(o)') /\ m = <<OutputQueue[o], output'[o[1]]>>
        BY <1>3, <1>6, <3>1, <3>3 DEF OutputBuffer
      <4>2. QED
        BY <4>1 DEF Accounted, OutputBuffer
    <3>4. QED
      BY <3>2, <3>3
  <2>4. QED
    BY <1>9, <2>1, <2>2, <2>3 DEF AllAccounted, Accounted
<1>10. QED
  BY <1>8, <1>9

\* Processing: the wrapper deletes the buffer of the first input and makes one
\* for every output.  What is still under way in the queue of the input has
\* another number.
LEMMA DeletedIsOver ==
  ASSUME WorkerTypeOK, Complete, Ordered, Rounds, NEW w \in Workers, ProcessData(w)
  PROVE  /\ \A q \in Queues : \A j \in DOMAIN queue[q] : <<q, queue[q][j]>> \notin Deleted(w)
         /\ \A i \in InPorts : i[1] # w => InputBuffer(i) \notin Deleted(w)
         /\ \A o \in OutPorts : Unsent(o) => OutputBuffer(o) \notin Deleted(w)
<1>1. CASE Ins(w) = {}
  BY <1>1 DEF Deleted
<1>2. CASE Ins(w) # {}
  <2>1. Deleted(w) = {<<InputQueue[<<w, 0>>], inputs[<<w, 0>>]>>} /\ <<w, 0>> \in InPorts
    BY <1>2, PortNumbers, InPortShape DEF Deleted
  <2>2. ASSUME NEW q \in Queues, NEW j \in DOMAIN queue[q], q = InputQueue[<<w, 0>>]
        PROVE  queue[q][j] # inputs[<<w, 0>>]
    <3>1. CASE Kind[w] = "source"
      BY <1>2, <2>2, <3>1, PortNumbers, Numbers DEF Rounds, RoundAt
    <3>2. CASE Kind[w] # "source"
      <4>1. ~Generates(w) /\ queue[q][j] \in Nat /\ inputs[<<w, 0>>] \in Nat
        BY <1>2, <3>2, Numbers DEF Generates
      <4>2. inputs[<<w, 0>>] # None
        BY <4>1, NewItem
      <4>3. inputs[<<w, 0>>] < queue[q][j]
        BY <2>2, <4>1, <4>2 DEF Ordered, Ahead, Taken
      <4>4. QED
        BY <4>1, <4>3
    <3>3. QED
      BY <3>1, <3>2
  <2>3. ASSUME NEW o \in OutPorts, Unsent(o), OutputQueue[o] = InputQueue[<<w, 0>>]
        PROVE  output[o[1]] # inputs[<<w, 0>>]
    <3>1. CASE Kind[w] = "source"
      <4>1. inputs[<<w, 0>>] = None
        BY <1>2, <3>1, PortNumbers DEF Rounds, RoundAt
      <4>2. output[o[1]] # None
        BY <2>3, OutPortShape DEF Unsent, Complete, CompleteAt, WorkerTypeOK, PortInRange, Sending
      <4>3. QED
        BY <4>1, <4>2
    <3>2. CASE Kind[w] # "source"
      <4>1. ~Generates(w) /\ output[o[1]] \in Nat /\ inputs[<<w, 0>>] \in Nat
        BY <1>2, <3>2, Numbers DEF Generates
      <4>2. inputs[<<w, 0>>] # None
        BY <4>1, NewItem
      <4>3. inputs[<<w, 0>>] < output[o[1]]
        BY <2>3, <4>1, <4>2 DEF Ordered, Follows, Taken, Sent
      <4>4. QED
        BY <4>1, <4>3
    <3>3. QED
      BY <3>1, <3>2
  <2>4. \A i \in InPorts : i[1] # w => InputQueue[i] # InputQueue[<<w, 0>>]
    BY <2>1, WiringAssumption DEF WiringAssumption
  <2>5. QED
    BY <2>1, <2>2, <2>3, <2>4 DEF InputBuffer, OutputBuffer
<1>3. QED
  BY <1>1, <1>2

\* The graph has no worker with a second input, which the wrapper would not
\* delete, and no sink with an output, for which it would make a buffer that
\* nobody sends.
Single ==
  \A w \in Workers : NumInputs[w] <= 1 /\ (Kind[w] = "sink" => NumOutputs[w] = 0)

LEMMA ProcessSafe ==
  ASSUME WorkerTypeOK, Complete, Ordered, Rounds, NEW w \in Workers, ProcessData(w),
         live' = (live \ Deleted(w)) \cup Made(w), Safe
  PROVE  Safe'
<1>1. \A q \in Queues : \A j \in DOMAIN queue'[q] : <<q, queue'[q][j]>> \in live'
  BY DeletedIsOver, ProcessHands DEF Safe
<1>2. ASSUME NEW i \in InPorts, InHand(i)' PROVE InputBuffer(i)' \in live'
  <2>1. i[1] # w /\ InHand(i) /\ inputs' = inputs
    BY <1>2, ProcessHands
  <2>2. InputBuffer(i) \in live /\ InputBuffer(i) \notin Deleted(w) /\ InputBuffer(i)' = InputBuffer(i)
    BY <2>1, DeletedIsOver DEF Safe, InputBuffer
  <2>3. QED
    BY <2>2
<1>3. ASSUME NEW o \in OutPorts, Unsent(o)' PROVE OutputBuffer(o)' \in live'
  <2>1. CASE o[1] = w
    <3>1. flag'[w] > 0 /\ o = <<w, o[2]>> /\ o[2] \in Outs(w)
      BY <1>3, <2>1, ProcessHands, OutPortShape
    <3>2. <<OutputQueue[o], output'[w]>> \in Made(w)
      BY <3>1 DEF Made
    <3>3. QED
      BY <2>1, <3>2 DEF OutputBuffer
  <2>2. CASE o[1] # w
    <3>1. Unsent(o) /\ output'[o[1]] = output[o[1]]
      BY <1>3, <2>2, ProcessHands, OutPortShape
    <3>2. OutputBuffer(o) \in live /\ OutputBuffer(o) \notin Deleted(w) /\ OutputBuffer(o)' = OutputBuffer(o)
      BY <3>1, DeletedIsOver DEF Safe, OutputBuffer
    <3>3. QED
      BY <3>2
  <2>3. QED
    BY <2>1, <2>2
<1>4. QED
  BY <1>1, <1>2, <1>3 DEF Safe

LEMMA ProcessAccounted ==
  ASSUME Single, WorkerTypeOK, Rounds, NEW w \in Workers, ProcessData(w),
         live' = (live \ Deleted(w)) \cup Made(w), AllAccounted
  PROVE  AllAccounted'
<1>1. SUFFICES ASSUME NEW m \in live' PROVE Accounted(m)'
  BY DEF AllAccounted
<1>2. CASE m \in Made(w)
  <2>1. flag'[w] > 0 /\ \E p \in Outs(w) : m = <<OutputQueue[<<w, p>>], output'[w]>>
    BY <1>2 DEF Made
  <2>2. PICK p \in Outs(w) : m = <<OutputQueue[<<w, p>>], output'[w]>>
    BY <2>1
  <2>3. PICK o \in OutPorts : o = <<w, p>>
    BY OutPortShape
  <2>4. Kind[w] # "sink"
    <3>1. Kind[w] = "sink" => Outs(w) = {}
      BY DEF Single, Outs
    <3>2. QED
      BY <3>1
  <2>5. Unsent(o)' /\ m = <<OutputQueue[o], output'[o[1]]>>
    BY <2>1, <2>2, <2>3, <2>4, ProcessHands
  <2>6. QED
    BY <2>5 DEF Accounted, OutputBuffer
<1>3. CASE m \in live /\ m \notin Deleted(w)
  <2>1. CASE \E q \in Queues : \E j \in DOMAIN queue[q] : m = <<q, queue[q][j]>>
    BY <2>1, ProcessHands DEF Accounted
  <2>2. CASE \E i \in InPorts : (InHand(i) \/ LeftIn(i)) /\ m = InputBuffer(i)
    <3>1. PICK i \in InPorts : (InHand(i) \/ LeftIn(i)) /\ m = InputBuffer(i)
      BY <2>2
    <3>2. i[1] # w
      <4>1. SUFFICES ASSUME i[1] = w PROVE FALSE
        OBVIOUS
      <4>2. i = <<w, 0>> /\ Ins(w) # {}
        BY <4>1, InPortShape, ShapeAssumption DEF Single, Ins, ShapeAssumption
      <4>3. QED
        BY <1>3, <3>1, <4>2 DEF Deleted, InputBuffer
    <3>3. (InHand(i)' \/ LeftIn(i)') /\ m = <<InputQueue[i], inputs'[i]>>
      BY <3>1, <3>2, ProcessHands DEF InputBuffer
    <3>4. QED
      BY <3>3 DEF Accounted, InputBuffer
  <2>3. CASE \E o \in OutPorts : (Unsent(o) \/ LeftOut(o)) /\ m = OutputBuffer(o)
    <3>1. PICK o \in OutPorts : (Unsent(o) \/ LeftOut(o)) /\ m = OutputBuffer(o)
      BY <2>3
    <3>2. o[1] \in Workers \ {w}
      BY <3>1, ProcessHands, OutPortShape
    <3>3. (Unsent(o)' \/ LeftOut(o)') /\ m = <<OutputQueue[o], output'[o[1]]>>
      BY <3>1, <3>2, ProcessHands DEF OutputBuffer
    <3>4. QED
      BY <3>3 DEF Accounted, OutputBuffer
  <2>4. QED
    BY <1>3, <2>1, <2>2, <2>3 DEF AllAccounted, Accounted
<1>4. QED
  BY <1>1, <1>2, <1>3

-----------------------------------------------------------------------------
(* The whole program.                                                      *)

\* A graph with its buffers takes the steps of the graph.
LEMMA BufferIsGraph == BufferSpec => Spec
<1>1. BufferInit => Init
  BY DEF BufferInit
<1>2. [BufferNext]_bufferVars => [Next]_vars
  BY DEF BufferNext, BufferStep, Next, bufferVars
<1>3. QED
  BY <1>1, <1>2, PTL DEF BufferSpec, Spec

\* Every step is still or moves one item.
LEMMA BufferSteps ==
  ASSUME TypeOK, Complete, Rounds, [BufferNext]_bufferVars
  PROVE  \/ Still /\ live' = live
         \/ \E w \in Workers : (Dequeue(w) \/ Enqueue(w)) /\ live' = live
         \/ \E w \in Workers : ProcessData(w) /\ live' = (live \ Deleted(w)) \cup Made(w)
<1>1. WorkerTypeOK /\ MainTypeOK /\ pc \in [Workers -> Labels] /\ calls \in [Workers -> Nat]
  BY DEF TypeOK, MainTypeOK, WorkerTypeOK, VariableTypes
<1>2. CASE UNCHANGED workerVars /\ live' = live
  <2>1. Still
    BY <1>2 DEF workerVars, Still, InHand, LeftIn, Unsent, LeftOut, Handling, Reading, Ended
  <2>2. QED
    BY <1>2, <2>1
<1>3. ASSUME NEW w \in Workers, Spawn(w) \/ Ask(w), live' = live PROVE Still
  <2>1. /\ queue' = queue /\ output' = output /\ port' = port /\ inputs' = inputs /\ flag' = flag
        /\ \A v \in Workers : pc'[v] = pc[v] \/ (pc[v] = "unborn" /\ pc'[v] = "init")
    BY <1>1, <1>3 DEF Spawn, Ask, GoTo
  <2>2. \A v \in Workers : (Handling(v)' <=> Handling(v)) /\ (Ended(v)' <=> Ended(v))
    BY <2>1 DEF Handling, Reading, Ended
  <2>3. \A o \in OutPorts : Unsent(o)' <=> Unsent(o)
    BY <2>1, OutPortShape DEF Unsent
  <2>4. QED
    BY <2>1, <2>2, <2>3, InPortShape, OutPortShape DEF Still, InHand, LeftIn, LeftOut
<1>4. ASSUME NEW w \in Workers, BufferStep(w)
      PROVE  \/ Still /\ live' = live
             \/ (Dequeue(w) \/ Enqueue(w)) /\ live' = live
             \/ ProcessData(w) /\ live' = (live \ Deleted(w)) \cup Made(w)
  <2>1. ThreadStep(w)
    BY <1>4 DEF BufferStep, Step
  <2>2. CASE MovesNothing(w)
    <3>1. calls' = calls
      BY <1>1, <2>2, MovesNothingCalm DEF Calm
    <3>2. live' = live
      BY <1>4, <3>1 DEF BufferStep
    <3>3. QED
      BY <1>1, <2>2, <3>2, MovesNothingStill
  <2>3. CASE Dequeue(w) \/ Enqueue(w)
    <3>1. calls' = calls
      BY <2>3 DEF Dequeue, Enqueue
    <3>2. QED
      BY <1>4, <2>3, <3>1 DEF BufferStep
  <2>4. CASE ProcessData(w)
    <3>1. calls'[w] # calls[w]
      BY <1>1, <2>4, ProcessHands
    <3>2. QED
      BY <1>4, <2>4, <3>1 DEF BufferStep
  <2>5. QED
    BY <2>1, <2>2, <2>3, <2>4 DEF ThreadStep, Read, Process, Send, MovesNothing
<1>5. CASE MainStep /\ UNCHANGED live
  BY <1>1, <1>2, <1>3, <1>5, MainStepEffect
<1>6. CASE \E w \in Workers : BufferStep(w)
  BY <1>4, <1>6
<1>7. CASE UNCHANGED bufferVars
  BY <1>2, <1>7 DEF bufferVars, vars
<1>8. QED
  BY <1>5, <1>6, <1>7 DEF BufferNext

LEMMA InitBuffers == BufferInit => Safe /\ AllAccounted
<1> SUFFICES ASSUME BufferInit PROVE Safe /\ AllAccounted
  OBVIOUS
<1>1. /\ live = {} /\ \A q \in Queues : queue[q] = <<>>
      /\ \A w \in Workers : pc[w] = "unborn"
  BY DEF BufferInit, Init, WorkerInit
<1>2. (\A i \in InPorts : ~InHand(i)) /\ (\A o \in OutPorts : ~Unsent(o))
  BY <1>1, InPortShape, OutPortShape DEF InHand, Handling, Reading, Unsent
<1>3. QED
  BY <1>1, <1>2 DEF Safe, AllAccounted

\* In any graph, whatever the blocks drop and wherever a stop arrives, no
\* queue and no thread holds a buffer that has been deleted.
THEOREM NothingDangles == BufferSpec => []NoDangling
<1>1. ASSUME IInv, Ordered, Rounds, Safe, [BufferNext]_bufferVars PROVE Safe'
  <2>1. TypeOK /\ WorkerTypeOK /\ Complete
    BY <1>1 DEF IInv, TypeOK
  <2>2. CASE Still /\ live' = live
    BY <1>1, <2>2, StillSafe
  <2>3. ASSUME NEW w \in Workers, Dequeue(w) \/ Enqueue(w), live' = live PROVE Safe'
    BY <1>1, <2>1, <2>3, DequeueBuffers, EnqueueBuffers
  <2>4. ASSUME NEW w \in Workers, ProcessData(w), live' = (live \ Deleted(w)) \cup Made(w) PROVE Safe'
    BY <1>1, <2>1, <2>4, ProcessSafe
  <2>5. QED
    BY <1>1, <2>1, <2>2, <2>3, <2>4, BufferSteps
<1>2. BufferInit => Safe
  BY InitBuffers
<1>3. IInv /\ Safe => NoDangling
  BY HeldBuffers DEF IInv, TypeOK
<1>4. QED
  BY <1>1, <1>2, <1>3, BufferIsGraph, Inductive, AlwaysOrdered, AlwaysRounds, PTL DEF BufferSpec

\* Where no block has a second input, every buffer is held or was left behind
\* by a worker that has ended.
LEMMA AlwaysAccounted == ASSUME Single PROVE BufferSpec => []AllAccounted
<1>1. ASSUME IInv, Rounds, AllAccounted, [BufferNext]_bufferVars PROVE AllAccounted'
  <2>1. TypeOK /\ WorkerTypeOK /\ Complete
    BY <1>1 DEF IInv, TypeOK
  <2>2. CASE Still /\ live' = live
    BY <1>1, <2>2, StillSafe
  <2>3. ASSUME NEW w \in Workers, Dequeue(w) \/ Enqueue(w), live' = live PROVE AllAccounted'
    BY <1>1, <2>1, <2>3, DequeueBuffers, EnqueueBuffers
  <2>4. ASSUME NEW w \in Workers, ProcessData(w), live' = (live \ Deleted(w)) \cup Made(w)
        PROVE  AllAccounted'
    BY <1>1, <2>1, <2>4, ProcessAccounted
  <2>5. QED
    BY <1>1, <2>1, <2>2, <2>3, <2>4, BufferSteps
<1>2. BufferInit => AllAccounted
  BY InitBuffers
<1>3. QED
  BY <1>1, <1>2, BufferIsGraph, Inductive, AlwaysRounds, PTL DEF BufferSpec

\* What is alive and not held was left behind, by a source what it made and by
\* any other worker what it had read.
LEMMA LostIsLeft ==
  ASSUME WorkerTypeOK, Complete, AllAccounted, NEW m \in live \ Held
  PROVE  \/ \E i \in InPorts : LeftIn(i) /\ m = InputBuffer(i)
         \/ \E o \in OutPorts : LeftOut(o) /\ m = OutputBuffer(o)
  BY HeldBuffers DEF AllAccounted, Accounted

\* The buffer of queue k that worker w has left behind.
LeftBehind(w, k) == <<k, IF Kind[w] = "source" THEN output[w]
                         ELSE inputs[CHOOSE i \in InPorts : i[1] = w /\ InputQueue[i] = k]>>

LEMMA LostByEnds ==
  ASSUME WorkerTypeOK, Complete, AllAccounted, NEW m \in live \ Held
  PROVE  \E w \in EndsOf(m[1]) : Ended(w) /\ m = LeftBehind(w, m[1])
<1>1. CASE \E i \in InPorts : LeftIn(i) /\ m = InputBuffer(i)
  <2>1. PICK i \in InPorts : LeftIn(i) /\ m = InputBuffer(i)
    BY <1>1
  <2>2. m[1] = InputQueue[i] /\ m = <<m[1], inputs[i]>>
    BY <2>1 DEF InputBuffer
  <2>3. (CHOOSE h \in InPorts : h[1] = i[1] /\ InputQueue[h] = m[1]) = i
    BY <2>2, WiringAssumption DEF WiringAssumption
  <2>4. i[1] \in EndsOf(m[1])
    BY <2>2 DEF EndsOf
  <2>5. QED
    BY <2>1, <2>2, <2>3, <2>4 DEF LeftIn, LeftBehind
<1>2. CASE \E o \in OutPorts : LeftOut(o) /\ m = OutputBuffer(o)
  <2>1. PICK o \in OutPorts : LeftOut(o) /\ m = OutputBuffer(o)
    BY <1>2
  <2>2. m[1] = OutputQueue[o] /\ m = <<m[1], output[o[1]]>>
    BY <2>1 DEF OutputBuffer
  <2>3. o[1] \in EndsOf(m[1])
    BY <2>2 DEF EndsOf
  <2>4. QED
    BY <2>1, <2>2, <2>3 DEF LeftOut, LeftBehind
<1>3. QED
  BY <1>1, <1>2, LostIsLeft

\* A set in which at most one element satisfies a condition is finite.
LEMMA AtMostOneFinite ==
  ASSUME NEW S, \A x, y \in S : x = y
  PROVE  IsFiniteSet(S)
<1>1. S = {} \/ \E x : S = {x}
  OBVIOUS
<1>2. QED
  BY <1>1, FS_EmptySet, FS_Singleton

LEMMA EndsFinite == ASSUME NEW k PROVE IsFiniteSet(EndsOf(k))
<1> DEFINE In  == {i[1] : i \in {j \in InPorts : InputQueue[j] = k}}
           Out == {o[1] : o \in {j \in OutPorts : OutputQueue[j] = k}}
<1>1. IsFiniteSet(In)
  <2>1. \A x, y \in In : x = y
    BY WiringAssumption DEF WiringAssumption
  <2> HIDE DEF In
  <2>2. QED
    BY <2>1, AtMostOneFinite
<1>2. IsFiniteSet(Out)
  <2>1. \A x, y \in Out : x = y
    BY WiringAssumption DEF WiringAssumption
  <2> HIDE DEF Out
  <2>2. QED
    BY <2>1, AtMostOneFinite
<1>3. EndsOf(k) = In \cup Out
  BY DEF EndsOf
<1> HIDE DEF In, Out
<1>4. QED
  BY <1>1, <1>2, <1>3, FS_Union

\* As many workers have ended as have left something behind.
LEMMA AccountedBounded ==
  ASSUME WorkerTypeOK, Complete, AllAccounted
  PROVE  LossesBounded
<1> DEFINE lost == live \ Held
<1>1. SUFFICES ASSUME NEW k
               PROVE  Cardinality({m \in lost : m[1] = k})
                        <= Cardinality({w \in EndsOf(k) : pc[w] \in {"cleanup", "done"}})
  BY DEF LossesBounded
<1> DEFINE S == {m \in lost : m[1] = k}
           T == {w \in EndsOf(k) : Ended(w)}
           f == [w \in T |-> LeftBehind(w, k)]
           U == {x \in T : LeftBehind(x, k) \in S}
           g == [w \in U |-> LeftBehind(w, k)]
<1>2. \A m \in S : \E w \in T : m = LeftBehind(w, k)
  BY LostByEnds
<1>3. IsFiniteSet(T) /\ U \subseteq T
  <2>1. T \in SUBSET EndsOf(k)
    OBVIOUS
  <2>2. IsFiniteSet(T)
    BY <2>1, EndsFinite, FS_Subset
  <2>3. QED
    BY <2>2
<1>4. g \in Surjection(U, S)
  BY <1>2 DEF Surjection
<1>5. IsFiniteSet(U) /\ Cardinality(U) <= Cardinality(T) /\ Cardinality(U) \in Nat /\ Cardinality(T) \in Nat
  BY <1>3, FS_Subset, FS_CardinalityType
<1> HIDE DEF S, U, g
<1>6. IsFiniteSet(S) /\ Cardinality(S) <= Cardinality(U) /\ Cardinality(S) \in Nat
  BY <1>4, <1>5, FS_Surjection, FS_CardinalityType
<1>7. Cardinality(S) <= Cardinality(T)
  BY <1>5, <1>6
<1>8. QED
  BY <1>7 DEF S, Ended

\* In any graph whose blocks have one input, a stop loses at most one buffer
\* at each end of a queue, and only where the worker has left its loop.
THEOREM StopLosesLittle == ASSUME Single PROVE BufferSpec => []LossesBounded
<1>1. IInv /\ AllAccounted => LossesBounded
  BY AccountedBounded DEF IInv, TypeOK
<1>2. QED
  BY <1>1, BufferIsGraph, Inductive, AlwaysAccounted, PTL

\* In such a graph nothing leaks as long as nobody is told to stop: what the
\* comma of 'delete a,b;' leaks is the inputs from the second on, and nothing
\* else.
THEOREM OneInputNoLeak == ASSUME Single PROVE BufferSpec => []InputsDeleted
<1>1. ASSUME IInv, Rounds, AllAccounted PROVE InputsDeleted
  <2> SUFFICES ASSUME \A w \in Workers : ~stop[w], NEW m \in live PROVE m \in Held
    BY DEF InputsDeleted
  <2>1. \A w \in Workers : ~Ended(w)
    BY <1>1 DEF Rounds, RoundAt
  <2>2. QED
    BY <1>1, <2>1, LostIsLeft, InPortShape, OutPortShape DEF IInv, TypeOK, LeftIn, LeftOut
<1>2. QED
  BY <1>1, BufferIsGraph, Inductive, AlwaysRounds, AlwaysAccounted, PTL
=============================================================================
