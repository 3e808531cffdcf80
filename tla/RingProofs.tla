----------------------------- MODULE RingProofs -----------------------------
(***************************************************************************)
(* Proofs about ReaderWriterQueue, for any elements, any size of the queue *)
(* and of its blocks, and any number of blocks that it grows to.           *)
(*                                                                         *)
(* The invariant goes round the ring once, from the front block: the       *)
(* blocks up to the tail block are in use, the others free.  It says what  *)
(* each thread knows on its way through a call, although the other one     *)
(* moves on: the copies of the indices lag behind, but never too far.      *)
(***************************************************************************)
EXTENDS ReaderWriterQueue, SequenceTheorems, WellFoundedInduction, TLAPS

-----------------------------------------------------------------------------
(* The inductive invariant.                                                *)

\* What a block consists of.
Slotted    == UNION {[0 .. s - 1 -> Values \cup {Nothing}] : s \in Nat}
BlockTypes == [front : Nat, localTail : Nat, tail : Nat, localFront : Nat, next : Nat,
               size : Nat, data : Slotted]

\* The indices of a block are those of its slots.
Sized(k) ==
  /\ block[k].size \in Powers /\ block[k].size \in Nat /\ block[k].size >= 2
  /\ block[k].front \in 0 .. block[k].size - 1 /\ block[k].localTail \in 0 .. block[k].size - 1
  /\ block[k].tail \in 0 .. block[k].size - 1 /\ block[k].localFront \in 0 .. block[k].size - 1
  /\ block[k].next \in DOMAIN block
  /\ block[k].data \in [0 .. block[k].size - 1 -> Values \cup {Nothing}]

ProducerPlaces == {"idle", "loadFront", "checkNext", "loadNextFront", "write", "publish",
                   "alloc", "link", "setTail", "destroyed"}
ConsumerPlaces == {"idle", "loadTail", "checkTail", "reloadTail", "loadNext", "loadNextTail",
                   "advance", "read", "release", "destroyed"}

\* TypeOK and a little more.
Typed ==
  /\ block \in Seq(BlockTypes) /\ Len(block) \in Nat /\ DOMAIN block = 1 .. Len(block)
  /\ \A k \in DOMAIN block : Sized(k)
  /\ frontBlock \in DOMAIN block /\ tailBlock \in DOMAIN block
  /\ pblock \in DOMAIN block /\ cblock \in DOMAIN block
  /\ largest \in Powers /\ largest >= 2
  /\ maxSize \in MaxSizes
  /\ producer \in ProducerPlaces /\ consumer \in ConsumerPlaces
  /\ op \in Operations \union {"none", "destroyed"} /\ (op = "none" <=> consumer = "idle")
  /\ result \in Values \cup {Nothing}
  /\ full \in BOOLEAN /\ empty \in BOOLEAN
  /\ producer = "destroyed" <=> consumer = "destroyed"
  /\ freed \subseteq DOMAIN block /\ (consumer = "destroyed" => freed = DOMAIN block)

\* Going up from a with wrap-around, b is met no later than c.
Between(a, b, c) == (a <= b /\ b <= c) \/ (c < a /\ (a <= b \/ b <= c))

\* The copy of an index that a thread keeps lags behind the index, but never
\* behind what the thread has done itself.
Ordered ==
  \A k \in DOMAIN block :
    /\ Between(block[k].localFront, block[k].front, block[k].tail)
    /\ Between(block[k].front, block[k].localTail, block[k].tail)

IsEmpty(k) == block[k].front = block[k].tail

\* The slots from front up to tail.
Inside(k, i) ==
  \/ block[k].front <= i /\ i < block[k].tail
  \/ block[k].tail < block[k].front /\ (block[k].front <= i \/ i < block[k].tail)

\* Slot i of block k holds an element.
Holds(k, i) ==
  \/ /\ Inside(k, i) /\ consumer # "destroyed"
     /\ ~(consumer = "release" /\ cblock = k /\ i = block[k].front)
  \/ producer = "publish" /\ pblock = k /\ i = block[k].tail

Slots ==
  \A k \in DOMAIN block : \A i \in 0 .. block[k].size - 1 :
    block[k].data[i] # Nothing <=> Holds(k, i)

\* What the producer knows on its way through an enqueue.
ProducerKnows ==
  /\ producer \in {"loadFront", "checkNext"} => pblock = tailBlock
  /\ producer \in {"write", "publish"} =>
       After(pblock, block[pblock].tail) # block[pblock].localFront
  /\ producer = "write" /\ pblock # tailBlock => block[pblock].localFront = block[pblock].tail
  /\ producer = "setTail" => ~IsEmpty(pblock)
  /\ producer = "link" =>
       /\ pblock = Len(block) /\ Len(block) >= 2 /\ ~IsEmpty(pblock)
       /\ block[pblock].next = block[tailBlock].next

\* What the consumer knows on its way through a dequeue.
ConsumerKnows ==
  /\ consumer \in {"loadTail", "checkTail", "reloadTail", "loadNext", "release"} => cblock = frontBlock
  /\ consumer = "read" /\ op # "peek" => cblock = frontBlock
  /\ consumer = "advance" \/ consumer = "release" \/ (consumer = "read" /\ op # "peek") =>
       block[cblock].front # block[cblock].localTail
  /\ consumer \in {"advance", "release"} => op # "peek"
  /\ consumer \in {"loadNext", "loadNextTail", "advance"} => IsEmpty(frontBlock)

\* The blocks on the ring: all of them but a new one.
Linked == IF producer = "link" THEN Len(block) - 1 ELSE Len(block)

\* The ring as the consumer goes round it: at[0] is the front block, and pos
\* tells where a block is.
Order(at, pos) ==
  /\ at \in [0 .. Linked - 1 -> 1 .. Linked]
  /\ pos \in [1 .. Linked -> 0 .. Linked - 1]
  /\ \A i \in 0 .. Linked - 1 : pos[at[i]] = i
  /\ \A k \in 1 .. Linked : at[pos[k]] = k
  /\ \A i \in 0 .. Linked - 1 : block[at[i]].next = at[IF i = Linked - 1 THEN 0 ELSE i + 1]
  /\ at[0] = frontBlock
  /\ tailBlock \in 1 .. Linked /\ cblock \in 1 .. Linked

\* The blocks up to the tail block are in use and those behind the front block
\* among them hold something; the others are free.
Filled(pos) ==
  \A k \in 1 .. Linked :
    /\ 1 <= pos[k] /\ pos[k] <= pos[tailBlock] => ~IsEmpty(k)
    /\ pos[tailBlock] < pos[k] /\ ~(producer = "setTail" /\ k = pblock) => IsEmpty(k)

\* Where the threads are, as far as they know it.
Ahead(pos) ==
  /\ producer = "loadNextFront" => pos[tailBlock] < Linked - 1
  /\ producer = "setTail" \/ (producer \in {"write", "publish"} /\ pblock # tailBlock) =>
       pblock \in 1 .. Linked /\ pos[pblock] = pos[tailBlock] + 1
  /\ consumer \in {"reloadTail", "loadNext", "loadNextTail", "advance"} => 1 <= pos[tailBlock]
  /\ consumer \in {"loadNextTail", "advance"} => pos[cblock] = 1

RingOrder == \E at, pos : Order(at, pos) /\ Filled(pos) /\ Ahead(pos)

IInv == Typed /\ Ordered /\ Slots /\ ProducerKnows /\ ConsumerKnows /\ RingOrder

USE DEF IsEmpty

-----------------------------------------------------------------------------
(* Writing to one field of a block leaves the others as they are.          *)

LEMMA SetFront ==
  ASSUME block \in Seq(BlockTypes), NEW p \in DOMAIN block, NEW e \in Nat,
         block' = [block EXCEPT ![p].front = e]
  PROVE  /\ block' \in Seq(BlockTypes) /\ Len(block') = Len(block) /\ DOMAIN block' = DOMAIN block
         /\ \A k \in DOMAIN block :
              /\ block'[k].localTail = block[k].localTail /\ block'[k].tail = block[k].tail
              /\ block'[k].localFront = block[k].localFront
              /\ block'[k].next = block[k].next /\ block'[k].size = block[k].size
              /\ block'[k].data = block[k].data
              /\ block'[k].front = IF k = p THEN e ELSE block[k].front
<1> DEFINE row == [block[p] EXCEPT !.front = e]
<1>1. block' = [block EXCEPT ![p] = row]
  OBVIOUS
<1>2. block[p] \in BlockTypes /\ p \in 1 .. Len(block)
  OBVIOUS
<1>3. /\ row \in BlockTypes /\ row.front = e
      /\ row.localTail = block[p].localTail /\ row.tail = block[p].tail
      /\ row.localFront = block[p].localFront /\ row.next = block[p].next
      /\ row.size = block[p].size /\ row.data = block[p].data
  BY <1>2 DEF BlockTypes
<1> HIDE DEF row
<1>4. /\ block' \in Seq(BlockTypes) /\ Len(block') = Len(block) /\ DOMAIN block' = DOMAIN block
      /\ \A k \in DOMAIN block : block'[k] = IF k = p THEN row ELSE block[k]
  BY <1>1, <1>2, <1>3, ExceptSeq
<1>5. QED
  BY <1>3, <1>4

LEMMA SetLocalTail ==
  ASSUME block \in Seq(BlockTypes), NEW p \in DOMAIN block, NEW e \in Nat,
         block' = [block EXCEPT ![p].localTail = e]
  PROVE  /\ block' \in Seq(BlockTypes) /\ Len(block') = Len(block) /\ DOMAIN block' = DOMAIN block
         /\ \A k \in DOMAIN block :
              /\ block'[k].front = block[k].front /\ block'[k].tail = block[k].tail
              /\ block'[k].localFront = block[k].localFront
              /\ block'[k].next = block[k].next /\ block'[k].size = block[k].size
              /\ block'[k].data = block[k].data
              /\ block'[k].localTail = IF k = p THEN e ELSE block[k].localTail
<1> DEFINE row == [block[p] EXCEPT !.localTail = e]
<1>1. block' = [block EXCEPT ![p] = row]
  OBVIOUS
<1>2. block[p] \in BlockTypes /\ p \in 1 .. Len(block)
  OBVIOUS
<1>3. /\ row \in BlockTypes /\ row.localTail = e
      /\ row.front = block[p].front /\ row.tail = block[p].tail
      /\ row.localFront = block[p].localFront /\ row.next = block[p].next
      /\ row.size = block[p].size /\ row.data = block[p].data
  BY <1>2 DEF BlockTypes
<1> HIDE DEF row
<1>4. /\ block' \in Seq(BlockTypes) /\ Len(block') = Len(block) /\ DOMAIN block' = DOMAIN block
      /\ \A k \in DOMAIN block : block'[k] = IF k = p THEN row ELSE block[k]
  BY <1>1, <1>2, <1>3, ExceptSeq
<1>5. QED
  BY <1>3, <1>4

LEMMA SetTailOf ==
  ASSUME block \in Seq(BlockTypes), NEW p \in DOMAIN block, NEW e \in Nat,
         block' = [block EXCEPT ![p].tail = e]
  PROVE  /\ block' \in Seq(BlockTypes) /\ Len(block') = Len(block) /\ DOMAIN block' = DOMAIN block
         /\ \A k \in DOMAIN block :
              /\ block'[k].front = block[k].front /\ block'[k].localTail = block[k].localTail
              /\ block'[k].localFront = block[k].localFront
              /\ block'[k].next = block[k].next /\ block'[k].size = block[k].size
              /\ block'[k].data = block[k].data
              /\ block'[k].tail = IF k = p THEN e ELSE block[k].tail
<1> DEFINE row == [block[p] EXCEPT !.tail = e]
<1>1. block' = [block EXCEPT ![p] = row]
  OBVIOUS
<1>2. block[p] \in BlockTypes /\ p \in 1 .. Len(block)
  OBVIOUS
<1>3. /\ row \in BlockTypes /\ row.tail = e
      /\ row.front = block[p].front /\ row.localTail = block[p].localTail
      /\ row.localFront = block[p].localFront /\ row.next = block[p].next
      /\ row.size = block[p].size /\ row.data = block[p].data
  BY <1>2 DEF BlockTypes
<1> HIDE DEF row
<1>4. /\ block' \in Seq(BlockTypes) /\ Len(block') = Len(block) /\ DOMAIN block' = DOMAIN block
      /\ \A k \in DOMAIN block : block'[k] = IF k = p THEN row ELSE block[k]
  BY <1>1, <1>2, <1>3, ExceptSeq
<1>5. QED
  BY <1>3, <1>4

LEMMA SetLocalFront ==
  ASSUME block \in Seq(BlockTypes), NEW p \in DOMAIN block, NEW e \in Nat,
         block' = [block EXCEPT ![p].localFront = e]
  PROVE  /\ block' \in Seq(BlockTypes) /\ Len(block') = Len(block) /\ DOMAIN block' = DOMAIN block
         /\ \A k \in DOMAIN block :
              /\ block'[k].front = block[k].front /\ block'[k].localTail = block[k].localTail
              /\ block'[k].tail = block[k].tail
              /\ block'[k].next = block[k].next /\ block'[k].size = block[k].size
              /\ block'[k].data = block[k].data
              /\ block'[k].localFront = IF k = p THEN e ELSE block[k].localFront
<1> DEFINE row == [block[p] EXCEPT !.localFront = e]
<1>1. block' = [block EXCEPT ![p] = row]
  OBVIOUS
<1>2. block[p] \in BlockTypes /\ p \in 1 .. Len(block)
  OBVIOUS
<1>3. /\ row \in BlockTypes /\ row.localFront = e
      /\ row.front = block[p].front /\ row.localTail = block[p].localTail
      /\ row.tail = block[p].tail /\ row.next = block[p].next
      /\ row.size = block[p].size /\ row.data = block[p].data
  BY <1>2 DEF BlockTypes
<1> HIDE DEF row
<1>4. /\ block' \in Seq(BlockTypes) /\ Len(block') = Len(block) /\ DOMAIN block' = DOMAIN block
      /\ \A k \in DOMAIN block : block'[k] = IF k = p THEN row ELSE block[k]
  BY <1>1, <1>2, <1>3, ExceptSeq
<1>5. QED
  BY <1>3, <1>4

LEMMA SetNext ==
  ASSUME block \in Seq(BlockTypes), NEW p \in DOMAIN block, NEW e \in Nat,
         block' = [block EXCEPT ![p].next = e]
  PROVE  /\ block' \in Seq(BlockTypes) /\ Len(block') = Len(block) /\ DOMAIN block' = DOMAIN block
         /\ \A k \in DOMAIN block :
              /\ block'[k].front = block[k].front /\ block'[k].localTail = block[k].localTail
              /\ block'[k].tail = block[k].tail
              /\ block'[k].localFront = block[k].localFront /\ block'[k].size = block[k].size
              /\ block'[k].data = block[k].data
              /\ block'[k].next = IF k = p THEN e ELSE block[k].next
<1> DEFINE row == [block[p] EXCEPT !.next = e]
<1>1. block' = [block EXCEPT ![p] = row]
  OBVIOUS
<1>2. block[p] \in BlockTypes /\ p \in 1 .. Len(block)
  OBVIOUS
<1>3. /\ row \in BlockTypes /\ row.next = e
      /\ row.front = block[p].front /\ row.localTail = block[p].localTail
      /\ row.tail = block[p].tail /\ row.localFront = block[p].localFront
      /\ row.size = block[p].size /\ row.data = block[p].data
  BY <1>2 DEF BlockTypes
<1> HIDE DEF row
<1>4. /\ block' \in Seq(BlockTypes) /\ Len(block') = Len(block) /\ DOMAIN block' = DOMAIN block
      /\ \A k \in DOMAIN block : block'[k] = IF k = p THEN row ELSE block[k]
  BY <1>1, <1>2, <1>3, ExceptSeq
<1>5. QED
  BY <1>3, <1>4

LEMMA SetSlot ==
  ASSUME block \in Seq(BlockTypes), NEW p \in DOMAIN block, NEW i \in DOMAIN block[p].data,
         NEW v \in Values \cup {Nothing}, block' = [block EXCEPT ![p].data[i] = v]
  PROVE  /\ block' \in Seq(BlockTypes) /\ Len(block') = Len(block) /\ DOMAIN block' = DOMAIN block
         /\ \A k \in DOMAIN block :
              /\ block'[k].front = block[k].front /\ block'[k].localTail = block[k].localTail
              /\ block'[k].tail = block[k].tail
              /\ block'[k].localFront = block[k].localFront /\ block'[k].next = block[k].next
              /\ block'[k].size = block[k].size
              /\ block'[k].data = IF k = p THEN [block[p].data EXCEPT ![i] = v] ELSE block[k].data
<1> DEFINE new == [block[p].data EXCEPT ![i] = v]
           row == [block[p] EXCEPT !.data = new]
<1>1. block' = [block EXCEPT ![p] = row]
  OBVIOUS
<1>2. block[p] \in BlockTypes /\ p \in 1 .. Len(block)
  OBVIOUS
<1>3. new \in Slotted
  BY <1>2 DEF BlockTypes, Slotted
<1> HIDE DEF new
<1>4. /\ row \in BlockTypes /\ row.data = new
      /\ row.front = block[p].front /\ row.localTail = block[p].localTail
      /\ row.tail = block[p].tail /\ row.localFront = block[p].localFront
      /\ row.next = block[p].next /\ row.size = block[p].size
  BY <1>2, <1>3 DEF BlockTypes
<1> HIDE DEF row
<1>5. /\ block' \in Seq(BlockTypes) /\ Len(block') = Len(block) /\ DOMAIN block' = DOMAIN block
      /\ \A k \in DOMAIN block : block'[k] = IF k = p THEN row ELSE block[k]
  BY <1>1, <1>2, <1>4, ExceptSeq
<1>6. QED
  BY <1>4, <1>5 DEF new

-----------------------------------------------------------------------------
(* The constructor.                                                        *)

LEMMA LeastSize ==
  ASSUME NEW D, D \subseteq Nat, D # {}
  PROVE  \E x \in D : \A y \in D : x <= y
<1>1. PICK x \in D : \A y \in D : ~ (<<y, x>> \in OpToRel(<, Nat))
  BY WFMin, NatLessThanWellFounded, Zenon
<1>2. \A y \in D : ~ (y < x)
  BY <1>1, Zenon DEF OpToRel
<1>3. QED
  BY <1>2

LEMMA CeilIsPower ==
  ASSUME NEW n \in MaxSizes
  PROVE  CeilToPow2(n + 1) \in Powers /\ CeilToPow2(n + 1) >= n + 1
<1> DEFINE D == {p \in Powers : p >= n + 1}
<1>1. D # {} /\ D \subseteq Nat
  BY SizeAssumption DEF SizeAssumption
<1>2. PICK x \in D : \A y \in D : x <= y
  BY <1>1, LeastSize
<1>3. x \in Powers /\ x >= n + 1 /\ \A q \in Powers : q >= n + 1 => x <= q
  BY <1>2
<1>4. QED
  BY <1>3 DEF CeilToPow2

LEMMA NewBlockFields ==
  ASSUME NEW s \in Nat \ {0}, NEW next \in Nat
  PROVE  /\ NewBlock(s, next) \in BlockTypes
         /\ NewBlock(s, next).front = 0 /\ NewBlock(s, next).localTail = 0
         /\ NewBlock(s, next).tail = 0 /\ NewBlock(s, next).localFront = 0
         /\ NewBlock(s, next).next = next /\ NewBlock(s, next).size = s
         /\ NewBlock(s, next).data = [i \in 0 .. s - 1 |-> Nothing]
  BY DEF NewBlock, BlockTypes, Slotted

\* The first blocks form a ring in the order of their numbers.
LEMMA FirstRing ==
  ASSUME NEW n \in MaxSizes
  PROVE  \E count \in Nat \ {0}, s \in Powers \ {1} :
           /\ FirstBlocks(n) \in Seq(BlockTypes)
           /\ Len(FirstBlocks(n)) = count /\ DOMAIN FirstBlocks(n) = 1 .. count
           /\ \A k \in 1 .. count :
                FirstBlocks(n)[k] = NewBlock(s, IF k = count THEN 1 ELSE k + 1)
<1>1. CeilToPow2(n + 1) \in Powers \ {1} /\ n \in Nat \ {0}
  BY CeilIsPower, SizeAssumption DEF SizeAssumption
<1>2. MaxBlockSize \in Powers \ {1} /\ MaxBlockSize \in Nat /\ MaxBlockSize >= 2
  BY SizeAssumption DEF SizeAssumption
<1>3. CASE CeilToPow2(n + 1) > MaxBlockSize * 2
  <2> DEFINE count == (n + MaxBlockSize * 2 - 3) \div (MaxBlockSize - 1)
  <2>1. count \in Nat \ {0}
    <3>1. \A x \in Nat, y \in Nat \ {0} : x >= y => x \div y \in Nat /\ x \div y >= 1
      OBVIOUS
    <3>2. n + MaxBlockSize * 2 - 3 \in Nat /\ MaxBlockSize - 1 \in Nat \ {0}
          /\ n + MaxBlockSize * 2 - 3 >= MaxBlockSize - 1
      BY <1>1, <1>2
    <3>3. count \in Nat /\ count >= 1
      BY <3>1, <3>2
    <3>4. QED
      BY <3>3
  <2>2. FirstBlocks(n) = [k \in 1 .. count |-> NewBlock(MaxBlockSize, (k % count) + 1)]
    BY <1>3 DEF FirstBlocks
  <2> HIDE DEF count
  <2>3. \A k \in 1 .. count : (k % count) + 1 = IF k = count THEN 1 ELSE k + 1
    BY <2>1
  <2>4. \A k \in 1 .. count :
          /\ FirstBlocks(n)[k] = NewBlock(MaxBlockSize, IF k = count THEN 1 ELSE k + 1)
          /\ FirstBlocks(n)[k] \in BlockTypes
    <3> SUFFICES ASSUME NEW k \in 1 .. count
                 PROVE  /\ FirstBlocks(n)[k] = NewBlock(MaxBlockSize, IF k = count THEN 1 ELSE k + 1)
                        /\ FirstBlocks(n)[k] \in BlockTypes
      OBVIOUS
    <3>1. PICK x \in Nat : x = (k % count) + 1 /\ x = IF k = count THEN 1 ELSE k + 1
      BY <2>1, <2>3
    <3>2. FirstBlocks(n)[k] = NewBlock(MaxBlockSize, x)
      BY <2>2, <3>1
    <3>3. FirstBlocks(n)[k] = NewBlock(MaxBlockSize, IF k = count THEN 1 ELSE k + 1)
      BY <3>1, <3>2, Zenon
    <3>4. NewBlock(MaxBlockSize, x) \in BlockTypes
      <4>1. x \in Nat
        BY <3>1
      <4>2. MaxBlockSize \in Nat \ {0}
        BY <1>2
      <4>3. QED
        BY <4>1, <4>2, NewBlockFields
    <3>5. QED
      BY <3>2, <3>3, <3>4
  <2>5. DOMAIN FirstBlocks(n) = 1 .. count
    BY <2>2
  <2>6. FirstBlocks(n) \in Seq(BlockTypes) /\ Len(FirstBlocks(n)) = count
    <3>1. FirstBlocks(n) \in [1 .. count -> BlockTypes]
      BY <2>2, <2>4, <2>5
    <3>2. QED
      BY <2>1, <3>1
  <2>7. QED
    BY <1>2, <2>1, <2>4, <2>5, <2>6
<1>4. CASE ~(CeilToPow2(n + 1) > MaxBlockSize * 2)
  <2>1. PICK s \in Powers \ {1} : s = CeilToPow2(n + 1)
    BY <1>1
  <2>2. FirstBlocks(n) = <<NewBlock(s, 1)>>
    BY <1>4, <2>1 DEF FirstBlocks
  <2>3. NewBlock(s, 1) \in BlockTypes
    BY NewBlockFields, SizeAssumption DEF SizeAssumption
  <2>4. /\ FirstBlocks(n) \in Seq(BlockTypes)
        /\ Len(FirstBlocks(n)) = 1 /\ DOMAIN FirstBlocks(n) = 1 .. 1
        /\ FirstBlocks(n)[1] = NewBlock(s, 1)
    BY <2>2, <2>3
  <2>5. QED
    BY <2>1, <2>4
<1>5. QED
  BY <1>3, <1>4

LEMMA InitIInv == Init => IInv
<1> SUFFICES ASSUME Init PROVE IInv
  OBVIOUS
<1>0. maxSize \in MaxSizes /\ block = FirstBlocks(maxSize)
  BY DEF Init
<1>1. PICK count \in Nat \ {0}, s \in Powers \ {1} :
        /\ block \in Seq(BlockTypes)
        /\ Len(block) = count /\ DOMAIN block = 1 .. count
        /\ \A k \in 1 .. count : block[k] = NewBlock(s, IF k = count THEN 1 ELSE k + 1)
  BY <1>0, FirstRing
<1>2. s \in Nat /\ s >= 2 /\ s \in Powers
  BY SizeAssumption DEF SizeAssumption
<1>3. ASSUME NEW k \in 1 .. count
      PROVE  /\ block[k].front = 0 /\ block[k].localTail = 0 /\ block[k].tail = 0
             /\ block[k].localFront = 0 /\ block[k].next = IF k = count THEN 1 ELSE k + 1
             /\ block[k].size = s /\ block[k].data = [i \in 0 .. s - 1 |-> Nothing]
  <2>1. PICK x \in Nat : x = IF k = count THEN 1 ELSE k + 1
    OBVIOUS
  <2>2. block[k] = NewBlock(s, x)
    BY <1>1, <2>1
  <2>3. QED
    BY <1>2, <2>1, <2>2, NewBlockFields
<1>4. Typed
  <2>1. \A k \in DOMAIN block : Sized(k)
    BY <1>1, <1>2, <1>3 DEF Sized
  <2>2. largest = s
    BY <1>1, <1>3 DEF Init
  <2>3. QED
    <3>1. /\ producer \in ProducerPlaces /\ consumer \in ConsumerPlaces
          /\ op \in Operations \union {"none", "destroyed"} /\ (op = "none" <=> consumer = "idle")
          /\ result \in Values \cup {Nothing}
          /\ full \in BOOLEAN /\ empty \in BOOLEAN
          /\ producer = "destroyed" <=> consumer = "destroyed"
          /\ freed \subseteq DOMAIN block /\ (consumer = "destroyed" => freed = DOMAIN block)
      BY DEF Init, ProducerPlaces, ConsumerPlaces
    <3>2. /\ frontBlock \in DOMAIN block /\ tailBlock \in DOMAIN block
          /\ pblock \in DOMAIN block /\ cblock \in DOMAIN block
      BY <1>1 DEF Init
    <3>3. QED
      BY <1>0, <1>1, <1>2, <2>1, <2>2, <3>1, <3>2 DEF Typed
<1>6. Ordered
  BY <1>1, <1>3 DEF Ordered, Between
<1>7. Slots
  <2>1. producer = "idle" /\ consumer = "idle"
    BY DEF Init
  <2>2. ASSUME NEW k \in 1 .. count, NEW i \in 0 .. s - 1
        PROVE  block[k].data[i] = Nothing /\ ~Inside(k, i)
    BY <1>2, <1>3 DEF Inside
  <2>4. QED
    BY <1>1, <1>3, <2>1, <2>2 DEF Slots, Holds
<1>8. ProducerKnows /\ ConsumerKnows
  BY DEF Init, ProducerKnows, ConsumerKnows
<1>9. RingOrder
  <2> DEFINE at  == [i \in 0 .. count - 1 |-> i + 1]
             pos == [k \in 1 .. count |-> k - 1]
  <2>1. Linked = count
    BY <1>1 DEF Linked, Init
  <2>2. Order(at, pos)
    BY <1>1, <1>3, <2>1 DEF Order, Init
  <2>3. Filled(pos) /\ Ahead(pos)
    BY <1>1, <1>3, <2>1 DEF Filled, Ahead, Init
  <2>4. QED
    BY <2>2, <2>3 DEF RingOrder
<1>10. QED
  BY <1>4, <1>6, <1>7, <1>8, <1>9 DEF IInv

-----------------------------------------------------------------------------
(* Going round a block.                                                    *)

LEMMA AfterIs ==
  ASSUME Typed, NEW k \in DOMAIN block, NEW i \in 0 .. block[k].size - 1
  PROVE  /\ After(k, i) = IF i + 1 = block[k].size THEN 0 ELSE i + 1
         /\ After(k, i) \in 0 .. block[k].size - 1 /\ After(k, i) # i
<1>1. block[k].size \in Nat /\ block[k].size >= 2
  BY DEF Typed, Sized
<1>2. \A s \in Nat : s >= 2 => \A j \in 0 .. s - 1 : (j + 1) % s = IF j + 1 = s THEN 0 ELSE j + 1
  OBVIOUS
<1>3. QED
  BY <1>1, <1>2 DEF After

-----------------------------------------------------------------------------
(* What a step has to leave alone for the ring to stay as it is.           *)

LEMMA OrderStays ==
  ASSUME Typed, NEW at, NEW pos, Order(at, pos), Linked' = Linked,
         \A k \in 1 .. Linked : block'[k].next = block[k].next,
         frontBlock' = frontBlock, tailBlock' \in 1 .. Linked, cblock' \in 1 .. Linked
  PROVE  Order(at, pos)'
<1>1. Linked \in Int
  BY DEF Typed, Linked
<1>2. PICK L \in Int : L = Linked /\ L = Linked'
  BY <1>1
<1>3. \A i \in 0 .. L - 1 : block'[at[i]].next = at[IF i = L - 1 THEN 0 ELSE i + 1]
  BY <1>2 DEF Order
<1>4. QED
  BY <1>2, <1>3 DEF Order

LEMMA FilledStays ==
  ASSUME Typed, NEW pos, Filled(pos), Linked' = Linked, tailBlock' = tailBlock,
         \A k \in 1 .. Linked : block'[k].front = block[k].front /\ block'[k].tail = block[k].tail,
         producer = "setTail" => producer' = "setTail" /\ pblock' = pblock
  PROVE  Filled(pos)'
  BY DEF Filled

-----------------------------------------------------------------------------
(* What Link and Advance do to the order.                                  *)

\* f and g are at and pos with one member more.
Inserted(L, t, at, pos, f, g) ==
  /\ f \in [0 .. L -> 1 .. L + 1] /\ g \in [1 .. L + 1 -> 0 .. L]
  /\ \A i \in 0 .. t : f[i] = at[i]
  /\ f[t + 1] = L + 1
  /\ \A i \in t + 1 .. L - 1 : f[i + 1] = at[i]
  /\ \A k \in 1 .. L : g[k] = IF pos[k] <= t THEN pos[k] ELSE pos[k] + 1
  /\ g[L + 1] = t + 1
  /\ \A i \in 0 .. L : g[f[i]] = i
  /\ \A k \in 1 .. L + 1 : f[g[k]] = k

\* A new member behind place t of an order.
LEMMA InsertBehind ==
  ASSUME NEW L \in Nat \ {0}, NEW t \in 0 .. L - 1,
         NEW at \in [0 .. L - 1 -> 1 .. L], NEW pos \in [1 .. L -> 0 .. L - 1],
         \A i \in 0 .. L - 1 : pos[at[i]] = i, \A k \in 1 .. L : at[pos[k]] = k
  PROVE  \E f, g : Inserted(L, t, at, pos, f, g)
<1> DEFINE at2  == [i \in 0 .. L |-> IF i <= t THEN at[i] ELSE IF i = t + 1 THEN L + 1 ELSE at[i - 1]]
           pos2 == [k \in 1 .. L + 1 |-> IF k = L + 1 THEN t + 1 ELSE IF pos[k] <= t THEN pos[k] ELSE pos[k] + 1]
<1>1. ASSUME NEW i \in 0 .. L PROVE at2[i] \in 1 .. L + 1
  <2>1. CASE i <= t
    <3>1. i \in 0 .. L - 1
      BY <2>1
    <3>2. at[i] \in 1 .. L
      BY <3>1
    <3>3. QED
      BY <2>1, <3>2
  <2>2. CASE i = t + 1
    BY <2>2
  <2>3. CASE i > t + 1
    <3>1. i - 1 \in 0 .. L - 1
      BY <2>3
    <3>2. at[i - 1] \in 1 .. L
      BY <3>1
    <3>3. QED
      BY <2>3, <3>2
  <2>4. QED
    BY <2>1, <2>2, <2>3
<1>2. ASSUME NEW k \in 1 .. L + 1 PROVE pos2[k] \in 0 .. L
  <2>1. CASE k = L + 1
    BY <2>1
  <2>2. CASE k \in 1 .. L
    <3>1. pos[k] \in 0 .. L - 1
      BY <2>2
    <3>2. QED
      BY <2>2, <3>1
  <2>3. QED
    BY <2>1, <2>2
<1>3. at2 \in [0 .. L -> 1 .. L + 1] /\ pos2 \in [1 .. L + 1 -> 0 .. L]
  BY <1>1, <1>2
<1>4. /\ \A i \in 0 .. t : at2[i] = at[i]
      /\ at2[t + 1] = L + 1
      /\ \A i \in t + 1 .. L - 1 : at2[i + 1] = at[i]
  OBVIOUS
<1>5. /\ \A k \in 1 .. L : pos2[k] = IF pos[k] <= t THEN pos[k] ELSE pos[k] + 1
      /\ pos2[L + 1] = t + 1
  OBVIOUS
<1> HIDE DEF at2, pos2
<1>6. ASSUME NEW i \in 0 .. L PROVE pos2[at2[i]] = i
  <2>1. CASE i <= t
    <3>1. at2[i] = at[i] /\ at[i] \in 1 .. L /\ pos[at[i]] = i
      BY <1>4, <2>1
    <3>2. QED
      BY <1>5, <2>1, <3>1
  <2>2. CASE i = t + 1
    BY <1>4, <1>5, <2>2
  <2>3. CASE i > t + 1
    <3>1. PICK j \in t + 1 .. L - 1 : i = j + 1
      BY <2>3
    <3>2. PICK m \in 1 .. L : at[j] = m /\ pos[m] = j
      BY <3>1
    <3>3. pos2[m] = j + 1
      BY <1>5, <3>1, <3>2
    <3>4. at2[j + 1] = m
      BY <1>4, <3>1, <3>2
    <3>5. QED
      BY <3>1, <3>3, <3>4
  <2>4. QED
    BY <2>1, <2>2, <2>3
<1>7. ASSUME NEW k \in 1 .. L + 1 PROVE at2[pos2[k]] = k
  <2>1. CASE k = L + 1
    BY <1>4, <1>5, <2>1
  <2>2. CASE k \in 1 .. L
    <3>1. PICK j \in 0 .. L - 1 : j = pos[k] /\ at[j] = k
      BY <2>2
    <3>2. CASE j <= t
      <4>1. pos2[k] = j /\ at2[j] = at[j]
        BY <1>4, <1>5, <2>2, <3>1, <3>2
      <4>2. QED
        BY <3>1, <4>1
    <3>3. CASE j > t
      <4>1. pos2[k] = j + 1
        BY <1>5, <2>2, <3>1, <3>3
      <4>2. j \in t + 1 .. L - 1
        BY <3>1, <3>3
      <4>3. at2[j + 1] = at[j]
        BY <1>4, <4>2
      <4>4. QED
        BY <3>1, <4>1, <4>3
    <3>4. QED
      BY <3>2, <3>3
  <2>3. QED
    BY <2>1, <2>2
<1>8. Inserted(L, t, at, pos, at2, pos2)
  BY <1>3, <1>4, <1>5, <1>6, <1>7 DEF Inserted
<1>9. QED
  BY <1>8

\* f and g are at and pos with the first member moved to the end.
Rotated(L, at, pos, f, g) ==
  /\ f \in [0 .. L - 1 -> 1 .. L] /\ g \in [1 .. L -> 0 .. L - 1]
  /\ \A i \in 1 .. L - 1 : f[i - 1] = at[i]
  /\ f[L - 1] = at[0]
  /\ \A k \in 1 .. L : g[k] = IF pos[k] = 0 THEN L - 1 ELSE pos[k] - 1
  /\ \A i \in 0 .. L - 1 : g[f[i]] = i
  /\ \A k \in 1 .. L : f[g[k]] = k

LEMMA Rotate ==
  ASSUME NEW L \in Nat \ {0},
         NEW at \in [0 .. L - 1 -> 1 .. L], NEW pos \in [1 .. L -> 0 .. L - 1],
         \A i \in 0 .. L - 1 : pos[at[i]] = i, \A k \in 1 .. L : at[pos[k]] = k
  PROVE  \E f, g : Rotated(L, at, pos, f, g)
<1> DEFINE f == [i \in 0 .. L - 1 |-> IF i = L - 1 THEN at[0] ELSE at[i + 1]]
           g == [k \in 1 .. L |-> IF pos[k] = 0 THEN L - 1 ELSE pos[k] - 1]
<1>1. ASSUME NEW i \in 0 .. L - 1 PROVE f[i] \in 1 .. L
  <2>1. CASE i = L - 1
    <3>1. 0 \in 0 .. L - 1
      OBVIOUS
    <3>2. QED
      BY <2>1, <3>1
  <2>2. CASE i # L - 1
    <3>1. i + 1 \in 0 .. L - 1
      BY <2>2
    <3>2. QED
      BY <2>2, <3>1
  <2>3. QED
    BY <2>1, <2>2
<1>2. ASSUME NEW k \in 1 .. L PROVE g[k] \in 0 .. L - 1
  <2>1. PICK p \in 0 .. L - 1 : p = pos[k]
    OBVIOUS
  <2>2. QED
    BY <2>1
<1>3. f \in [0 .. L - 1 -> 1 .. L] /\ g \in [1 .. L -> 0 .. L - 1]
  BY <1>1, <1>2
<1>4. f[L - 1] = at[0] /\ \A i \in 1 .. L - 1 : f[i - 1] = at[i]
  OBVIOUS
<1>5. \A k \in 1 .. L : g[k] = IF pos[k] = 0 THEN L - 1 ELSE pos[k] - 1
  OBVIOUS
<1> HIDE DEF f, g
<1>6. ASSUME NEW i \in 0 .. L - 1 PROVE g[f[i]] = i
  <2>1. PICK j \in 0 .. L - 1 : j = IF i = L - 1 THEN 0 ELSE i + 1
    OBVIOUS
  <2>2. PICK m \in 1 .. L : at[j] = m /\ pos[m] = j
    BY <2>1
  <2>3. f[i] = m
    <3>1. CASE i = L - 1
      BY <1>4, <2>1, <2>2, <3>1
    <3>2. CASE i # L - 1
      <4>1. j \in 1 .. L - 1 /\ i = j - 1
        BY <2>1, <3>2
      <4>2. QED
        BY <1>4, <2>2, <4>1
    <3>3. QED
      BY <3>1, <3>2
  <2>4. g[m] = i
    BY <1>5, <2>1, <2>2
  <2>5. QED
    BY <2>3, <2>4
<1>7. ASSUME NEW k \in 1 .. L PROVE f[g[k]] = k
  <2>1. PICK j \in 0 .. L - 1 : j = pos[k] /\ at[j] = k
    OBVIOUS
  <2>2. CASE j = 0
    BY <1>4, <1>5, <2>1, <2>2
  <2>3. CASE j # 0
    <3>1. j \in 1 .. L - 1 /\ g[k] = j - 1
      BY <1>5, <2>1, <2>3
    <3>2. QED
      BY <1>4, <2>1, <3>1
  <2>4. QED
    BY <2>2, <2>3
<1>8. Rotated(L, at, pos, f, g)
  BY <1>3, <1>4, <1>5, <1>6, <1>7 DEF Rotated
<1>9. QED
  BY <1>8
\* The pointers lead round from place to place.
Round(n, at, old) == \A i \in 0 .. n : old[at[i]] = at[IF i = n THEN 0 ELSE i + 1]

\* The pointers, when the new member is linked behind place t.
LEMMA InsertedNext ==
  ASSUME NEW L \in Nat \ {0}, NEW t \in 0 .. L - 1,
         NEW at \in [0 .. L - 1 -> 1 .. L], NEW pos \in [1 .. L -> 0 .. L - 1],
         \A i \in 0 .. L - 1 : pos[at[i]] = i,
         NEW f, NEW g, Inserted(L, t, at, pos, f, g),
         NEW old, NEW new, Round(L - 1, at, old), old[L + 1] = old[at[t]],
         new[at[t]] = L + 1, \A k \in 1 .. L + 1 : k # at[t] => new[k] = old[k]
  PROVE  Round(L, f, new)
<1> SUFFICES ASSUME NEW i \in 0 .. L
             PROVE  (i = L => new[f[i]] = f[0]) /\ (i # L => new[f[i]] = f[i + 1])
  BY DEF Round
<1>0. \A j \in 0 .. L - 1 : (j = L - 1 => old[at[j]] = at[0]) /\ (j # L - 1 => old[at[j]] = at[j + 1])
  BY DEF Round
<1>1. /\ \A j \in 0 .. t : f[j] = at[j]
      /\ f[t + 1] = L + 1
      /\ \A j \in t + 1 .. L - 1 : f[j + 1] = at[j]
  BY DEF Inserted
<1>2. f[0] = at[0]
  BY <1>1
<1>3. CASE i < t
  <2>1. i \in 0 .. L - 1 /\ i # L /\ i # L - 1 /\ i \in 0 .. t /\ i + 1 \in 0 .. t
    BY <1>3
  <2>a. at[i] \in 1 .. L /\ pos[at[i]] = i /\ pos[at[t]] = t /\ i # t
    BY <2>1, <1>3
  <2>2. PICK m \in 1 .. L : at[i] = m /\ m # at[t]
    BY <2>a, Zenon
  <2>3. f[i] = m /\ f[i + 1] = at[i + 1]
    BY <1>1, <2>1, <2>2
  <2>4. m \in 1 .. L + 1
    BY <2>2
  <2>c. old[at[i]] = at[i + 1]
    BY <2>1, <1>0
  <2>b. new[m] = old[m]
    BY <2>2, <2>4
  <2>5. QED
    BY <2>1, <2>2, <2>3, <2>4, <2>b, <2>c
<1>4. CASE i = t
  <2>1. f[i] = at[t] /\ f[i + 1] = L + 1 /\ i # L
    BY <1>1, <1>4
  <2>2. QED
    BY <2>1
<1>5. CASE i = t + 1
  <2>1. f[i] = L + 1 /\ L + 1 # at[t]
    BY <1>1, <1>5
  <2>2. new[L + 1] = old[at[t]]
    BY <2>1
  <2>3. CASE t = L - 1
    <3>1. old[at[t]] = at[0] /\ i = L
      BY <1>5, <2>3, <1>0
    <3>2. QED
      BY <1>2, <2>1, <2>2, <3>1
  <2>4. CASE t # L - 1
    <3>1. old[at[t]] = at[t + 1] /\ i # L
      BY <1>5, <2>4, <1>0
    <3>2. f[i + 1] = at[i]
      BY <1>1, <1>5, <2>4
    <3>3. QED
      BY <1>5, <2>1, <2>2, <3>1, <3>2
  <2>5. QED
    BY <2>3, <2>4
<1>6. CASE i > t + 1
  <2>1. PICK j \in t + 1 .. L - 1 : i = j + 1
    BY <1>6
  <2>2. j \in 0 .. L - 1 /\ j # t
    BY <2>1
  <2>3. PICK m \in 1 .. L : at[j] = m /\ m # at[t]
    BY <2>2
  <2>4. f[i] = m
    BY <1>1, <2>1, <2>3
  <2>5. new[m] = old[m]
    BY <2>3
  <2>6. CASE j = L - 1
    <3>1. old[m] = at[0] /\ i = L
      BY <2>1, <2>2, <2>3, <2>6, <1>0
    <3>2. QED
      BY <1>2, <2>4, <2>5, <3>1
  <2>7. CASE j # L - 1
    <3>a. old[at[j]] = at[j + 1]
      BY <2>2, <2>7, <1>0
    <3>1. old[m] = at[j + 1] /\ i # L /\ j + 1 \in t + 1 .. L - 1
      BY <2>1, <2>3, <2>7, <3>a
    <3>2. f[i + 1] = at[j + 1]
      BY <1>1, <2>1, <3>1
    <3>3. QED
      BY <2>4, <2>5, <3>1, <3>2
  <2>8. QED
    BY <2>6, <2>7
<1>7. QED
  BY <1>3, <1>4, <1>5, <1>6

\* The pointers stay, and lead round as before.
LEMMA RotatedNext ==
  ASSUME NEW L \in Nat \ {0},
         NEW at \in [0 .. L - 1 -> 1 .. L], NEW pos \in [1 .. L -> 0 .. L - 1],
         NEW f, NEW g, Rotated(L, at, pos, f, g), NEW old, Round(L - 1, at, old)
  PROVE  Round(L - 1, f, old)
<1> SUFFICES ASSUME NEW i \in 0 .. L - 1
             PROVE  (i = L - 1 => old[f[i]] = f[0]) /\ (i # L - 1 => old[f[i]] = f[i + 1])
  BY DEF Round
<1>0. \A j \in 0 .. L - 1 : (j = L - 1 => old[at[j]] = at[0]) /\ (j # L - 1 => old[at[j]] = at[j + 1])
  BY DEF Round
<1>1. f[L - 1] = at[0] /\ \A j \in 1 .. L - 1 : f[j - 1] = at[j]
  BY DEF Rotated
<1>2. CASE i = L - 1
  <2>1. CASE L = 1
    <3>1. old[at[0]] = at[0]
      BY <2>1, <1>0
    <3>2. QED
      BY <1>1, <1>2, <2>1, <3>1
  <2>2. CASE L # 1
    <3>1. old[at[0]] = at[0 + 1]
      BY <2>2, <1>0
    <3>2. f[1 - 1] = at[1]
      BY <1>1, <2>2
    <3>3. QED
      BY <1>1, <1>2, <3>1, <3>2
  <2>3. QED
    BY <2>1, <2>2
<1>3. CASE i # L - 1
  <2>1. PICK j \in 1 .. L - 1 : j = i + 1 /\ j - 1 = i
    BY <1>3
  <2>2. f[i] = at[j]
    BY <1>1, <2>1
  <2>3. CASE j = L - 1
    <3>1. old[at[j]] = at[0]
      BY <2>1, <2>3, <1>0
    <3>2. QED
      BY <1>1, <1>3, <2>1, <2>2, <2>3, <3>1
  <2>4. CASE j # L - 1
    <3>a. j \in 0 .. L - 1
      BY <2>1
    <3>1. old[at[j]] = at[j + 1]
      BY <2>4, <3>a, <1>0
    <3>2. f[(j + 1) - 1] = at[j + 1]
      BY <1>1, <2>1, <2>4
    <3>3. QED
      BY <1>3, <2>1, <2>2, <3>1, <3>2
  <2>5. QED
    BY <2>3, <2>4
<1>4. QED
  BY <1>2, <1>3

-----------------------------------------------------------------------------
(* The producer's steps.                                                   *)


LEMMA EnqueueKeeps == ASSUME IInv, Enqueue, UNCHANGED <<maxSize, freed>> PROVE IInv'
<1>0. /\ producer = "idle" /\ producer' \in {"write", "loadFront"} /\ pblock' = tailBlock
      /\ producer' = "write" => After(tailBlock, block[tailBlock].tail) # block[tailBlock].localFront
      /\ UNCHANGED <<block, frontBlock, tailBlock, largest, full, consumer, op, cblock, result,
                     empty, maxSize, freed>>
  BY DEF Enqueue, HasRoom, consumerVars
<1>1. Typed'
  <2>1. ASSUME NEW k \in DOMAIN block PROVE Sized(k)'
    BY <1>0 DEF IInv, Typed, Sized
  <2>2. QED
    BY <1>0, <2>1 DEF IInv, Typed, Operations, ProducerPlaces, ConsumerPlaces
<1>2. Ordered'
  <2>0. ASSUME NEW k \in DOMAIN block
        PROVE  /\ block[k].front \in Nat /\ block[k].tail \in Nat
               /\ block[k].localFront \in Nat /\ block[k].localTail \in Nat
    BY DEF IInv, Typed, Sized
  <2>1. ASSUME NEW k \in DOMAIN block
        PROVE  (Between(block[k].localFront, block[k].front, block[k].tail)
                /\ Between(block[k].front, block[k].localTail, block[k].tail))'
    <3>1. /\ Between(block[k].localFront, block[k].front, block[k].tail)
          /\ Between(block[k].front, block[k].localTail, block[k].tail)
      BY DEF IInv, Ordered
    <3>2. QED
      BY <1>0, <2>0, <3>1 DEF Between
  <2>2. QED
    BY <1>0, <2>1 DEF Ordered
<1>3. Slots'
  <2>1. ASSUME NEW k \in DOMAIN block, NEW i \in 0 .. block[k].size - 1
        PROVE  (block[k].data[i] # Nothing <=> Holds(k, i))'
    <3>1. block[k].data[i] # Nothing <=> Holds(k, i)
      BY DEF IInv, Slots
    <3>2. QED
      BY <1>0, <3>1 DEF IInv, Typed, Sized, Holds, Inside
  <2>2. QED
    BY <1>0, <2>1 DEF Slots
<1>4. ProducerKnows'
  BY <1>0 DEF IInv, Typed, Sized, ProducerKnows, After
<1>5. ConsumerKnows'
  BY <1>0 DEF IInv, Typed, Sized, ConsumerKnows
<1>6. RingOrder'
  <2>1. PICK at, pos : Order(at, pos) /\ Filled(pos) /\ Ahead(pos)
    BY DEF IInv, RingOrder
  <2>2. Linked' = Linked /\ Linked \in Nat /\ \A k \in 1 .. Linked : k \in DOMAIN block
    BY <1>0 DEF Linked, IInv, Typed, ProducerKnows
  <2>3. Order(at, pos)'
    BY <1>0, <2>1, <2>2, OrderStays DEF Order, IInv, Typed
  <2>4. Filled(pos)'
    BY <1>0, <2>1, <2>2, FilledStays DEF IInv, Typed
  <2>5. Ahead(pos)'
    BY <1>0, <2>1, <2>2 DEF Order, Ahead, IInv, Typed
  <2>6. QED
    BY <2>3, <2>4, <2>5 DEF RingOrder
<1>7. QED
  BY <1>1, <1>2, <1>3, <1>4, <1>5, <1>6 DEF IInv


LEMMA LoadFrontKeeps == ASSUME IInv, LoadFront, UNCHANGED <<maxSize, freed>> PROVE IInv'
<1>0. /\ producer = "loadFront" /\ pblock = tailBlock /\ tailBlock \in DOMAIN block
      /\ block' \in Seq(BlockTypes) /\ Len(block') = Len(block) /\ DOMAIN block' = DOMAIN block
      /\ \A k \in DOMAIN block :
           /\ block'[k].front = block[k].front /\ block'[k].localTail = block[k].localTail
           /\ block'[k].tail = block[k].tail
           /\ block'[k].next = block[k].next /\ block'[k].size = block[k].size
           /\ block'[k].data = block[k].data
           /\ block'[k].localFront = IF k = tailBlock THEN block[tailBlock].front ELSE block[k].localFront
      /\ producer' \in {"write", "checkNext"} /\ full' \in BOOLEAN
      /\ producer' = "write" => After(tailBlock, block[tailBlock].tail) # block[tailBlock].front
      /\ UNCHANGED <<frontBlock, tailBlock, largest, pblock, consumer, op, cblock, result, empty,
                     maxSize, freed>>
  <2>1. full' \in BOOLEAN
    BY Zenon DEF LoadFront, SeeFull
  <2>2. /\ producer = "loadFront" /\ pblock = tailBlock /\ tailBlock \in DOMAIN block
        /\ block \in Seq(BlockTypes) /\ block[tailBlock].front \in Nat
    BY DEF IInv, Typed, Sized, LoadFront, ProducerKnows
  <2>3. block' = [block EXCEPT ![tailBlock].localFront = block[tailBlock].front]
    BY <2>2 DEF LoadFront
  <2>4. QED
    BY <2>1, <2>2, <2>3, SetLocalFront DEF LoadFront, consumerVars
<1>1. Typed'
  <2>1. ASSUME NEW k \in DOMAIN block PROVE Sized(k)'
    BY <1>0 DEF IInv, Typed, Sized
  <2>2. QED
    BY <1>0, <2>1 DEF IInv, Typed, Operations, ProducerPlaces, ConsumerPlaces
<1>2. Ordered'
  <2>0. ASSUME NEW k \in DOMAIN block
        PROVE  /\ block[k].front \in Nat /\ block[k].tail \in Nat
               /\ block[k].localFront \in Nat /\ block[k].localTail \in Nat
    BY DEF IInv, Typed, Sized
  <2>1. ASSUME NEW k \in DOMAIN block
        PROVE  (Between(block[k].localFront, block[k].front, block[k].tail)
                /\ Between(block[k].front, block[k].localTail, block[k].tail))'
    <3>1. /\ Between(block[k].localFront, block[k].front, block[k].tail)
          /\ Between(block[k].front, block[k].localTail, block[k].tail)
      BY DEF IInv, Ordered
    <3>2. QED
      BY <1>0, <2>0, <3>1 DEF Between
  <2>2. QED
    BY <1>0, <2>1 DEF Ordered
<1>3. Slots'
  <2>1. ASSUME NEW k \in DOMAIN block, NEW i \in 0 .. block[k].size - 1
        PROVE  (block[k].data[i] # Nothing <=> Holds(k, i))'
    <3>1. block[k].data[i] # Nothing <=> Holds(k, i)
      BY DEF IInv, Slots
    <3>2. QED
      BY <1>0, <3>1 DEF IInv, Typed, Sized, Holds, Inside
  <2>2. QED
    BY <1>0, <2>1 DEF Slots
<1>4. ProducerKnows'
  BY <1>0 DEF IInv, Typed, Sized, ProducerKnows, After
<1>5. ConsumerKnows'
  BY <1>0 DEF IInv, Typed, Sized, ConsumerKnows
<1>6. RingOrder'
  <2>1. PICK at, pos : Order(at, pos) /\ Filled(pos) /\ Ahead(pos)
    BY DEF IInv, RingOrder
  <2>2. Linked' = Linked /\ Linked \in Nat /\ \A k \in 1 .. Linked : k \in DOMAIN block
    BY <1>0 DEF Linked, IInv, Typed, ProducerKnows
  <2>3. Order(at, pos)'
    BY <1>0, <2>1, <2>2, OrderStays DEF Order, IInv, Typed
  <2>4. Filled(pos)'
    BY <1>0, <2>1, <2>2, FilledStays DEF IInv, Typed
  <2>5. Ahead(pos)'
    BY <1>0, <2>1, <2>2 DEF Order, Ahead, IInv, Typed
  <2>6. QED
    BY <2>3, <2>4, <2>5 DEF RingOrder
<1>7. QED
  BY <1>1, <1>2, <1>3, <1>4, <1>5, <1>6 DEF IInv


LEMMA CheckNextKeeps == ASSUME IInv, CheckNext, UNCHANGED <<maxSize, freed>> PROVE IInv'
<1>0. /\ producer = "checkNext" /\ pblock = tailBlock
      /\ \/ producer' = "loadNextFront" /\ block[tailBlock].next # frontBlock
         \/ producer' \in {"alloc", "idle"}
      /\ full' \in BOOLEAN
      /\ UNCHANGED <<block, frontBlock, tailBlock, largest, pblock, consumer, op, cblock, result,
                     empty, maxSize, freed>>
  <2>1. full' \in BOOLEAN
    BY Zenon DEF CheckNext, SeeFull
  <2>2. QED
    BY <2>1 DEF CheckNext, consumerVars, IInv, ProducerKnows
<1>1. Typed'
  <2>1. ASSUME NEW k \in DOMAIN block PROVE Sized(k)'
    BY <1>0 DEF IInv, Typed, Sized
  <2>2. QED
    BY <1>0, <2>1 DEF IInv, Typed, Operations, ProducerPlaces, ConsumerPlaces
<1>2. Ordered'
  <2>0. ASSUME NEW k \in DOMAIN block
        PROVE  /\ block[k].front \in Nat /\ block[k].tail \in Nat
               /\ block[k].localFront \in Nat /\ block[k].localTail \in Nat
    BY DEF IInv, Typed, Sized
  <2>1. ASSUME NEW k \in DOMAIN block
        PROVE  (Between(block[k].localFront, block[k].front, block[k].tail)
                /\ Between(block[k].front, block[k].localTail, block[k].tail))'
    <3>1. /\ Between(block[k].localFront, block[k].front, block[k].tail)
          /\ Between(block[k].front, block[k].localTail, block[k].tail)
      BY DEF IInv, Ordered
    <3>2. QED
      BY <1>0, <2>0, <3>1 DEF Between
  <2>2. QED
    BY <1>0, <2>1 DEF Ordered
<1>3. Slots'
  <2>1. ASSUME NEW k \in DOMAIN block, NEW i \in 0 .. block[k].size - 1
        PROVE  (block[k].data[i] # Nothing <=> Holds(k, i))'
    <3>1. block[k].data[i] # Nothing <=> Holds(k, i)
      BY DEF IInv, Slots
    <3>2. QED
      BY <1>0, <3>1 DEF IInv, Typed, Sized, Holds, Inside
  <2>2. QED
    BY <1>0, <2>1 DEF Slots
<1>4. ProducerKnows'
  BY <1>0 DEF IInv, Typed, Sized, ProducerKnows, After
<1>5. ConsumerKnows'
  BY <1>0 DEF IInv, Typed, Sized, ConsumerKnows
<1>6. RingOrder'
  <2>1. PICK at, pos : Order(at, pos) /\ Filled(pos) /\ Ahead(pos)
    BY DEF IInv, RingOrder
  <2>2. Linked' = Linked /\ Linked \in Nat /\ \A k \in 1 .. Linked : k \in DOMAIN block
    BY <1>0 DEF Linked, IInv, Typed, ProducerKnows
  <2>3. Order(at, pos)'
    BY <1>0, <2>1, <2>2, OrderStays DEF Order, IInv, Typed
  <2>4. Filled(pos)'
    BY <1>0, <2>1, <2>2, FilledStays DEF IInv, Typed
  <2>5. Ahead(pos)'
    <3>1. PICK t \in 0 .. Linked - 1 : t = pos[tailBlock] /\ at[t] = tailBlock
      BY <2>1, <2>2 DEF Order
    <3>2. t = Linked - 1 => block[tailBlock].next = frontBlock
      BY <2>1, <2>2, <3>1 DEF Order
    <3>3. producer' = "loadNextFront" => t < Linked - 1
      BY <1>0, <2>2, <3>1, <3>2
    <3>4. QED
      BY <1>0, <2>1, <2>2, <3>1, <3>3 DEF Ahead
  <2>6. QED
    BY <2>3, <2>4, <2>5 DEF RingOrder
<1>7. QED
  BY <1>1, <1>2, <1>3, <1>4, <1>5, <1>6 DEF IInv


LEMMA LoadNextFrontKeeps == ASSUME IInv, LoadNextFront, UNCHANGED <<maxSize, freed>> PROVE IInv'
<1> DEFINE q == block[tailBlock].next
<1>0. /\ producer = "loadNextFront" /\ q \in DOMAIN block
      /\ block' \in Seq(BlockTypes) /\ Len(block') = Len(block) /\ DOMAIN block' = DOMAIN block
      /\ \A k \in DOMAIN block :
           /\ block'[k].front = block[k].front /\ block'[k].localTail = block[k].localTail
           /\ block'[k].tail = block[k].tail
           /\ block'[k].next = block[k].next /\ block'[k].size = block[k].size
           /\ block'[k].data = block[k].data
           /\ block'[k].localFront = IF k = q THEN block[q].front ELSE block[k].localFront
      /\ producer' = "write" /\ pblock' = q
      /\ UNCHANGED <<frontBlock, tailBlock, largest, full, consumer, op, cblock, result, empty,
                     maxSize, freed>>
  <2>1. /\ producer = "loadNextFront" /\ q \in DOMAIN block
        /\ block \in Seq(BlockTypes) /\ block[q].front \in Nat
    BY DEF IInv, Typed, Sized, LoadNextFront
  <2>2. block' = [block EXCEPT ![q].localFront = block[q].front]
    BY DEF LoadNextFront
  <2>3. QED
    BY <2>1, <2>2, SetLocalFront DEF LoadNextFront, consumerVars
<1>a. PICK at, pos : Order(at, pos) /\ Filled(pos) /\ Ahead(pos)
  BY DEF IInv, RingOrder
<1>b. q \in 1 .. Linked /\ pos[q] = pos[tailBlock] + 1 /\ IsEmpty(q)
  <2>1. PICK t \in 0 .. Linked - 1 : t = pos[tailBlock] /\ at[t] = tailBlock
    BY <1>a DEF Order
  <2>2. Linked \in Nat /\ t < Linked - 1
    BY <1>0, <1>a, <2>1 DEF Ahead, IInv, Typed, Linked
  <2>3. q = at[t + 1] /\ q \in 1 .. Linked /\ pos[q] = t + 1
    BY <1>a, <2>1, <2>2 DEF Order
  <2>4. QED
    BY <1>0, <1>a, <2>1, <2>3 DEF Filled
<1>c. After(q, block[q].tail) # block[q].tail
  BY <1>0, AfterIs DEF IInv, Typed, Sized
<1> HIDE DEF q
<1>1. Typed'
  <2>1. ASSUME NEW k \in DOMAIN block PROVE Sized(k)'
    BY <1>0 DEF IInv, Typed, Sized
  <2>2. QED
    BY <1>0, <2>1 DEF IInv, Typed, Operations, ProducerPlaces, ConsumerPlaces
<1>2. Ordered'
  <2>0. ASSUME NEW k \in DOMAIN block
        PROVE  /\ block[k].front \in Nat /\ block[k].tail \in Nat
               /\ block[k].localFront \in Nat /\ block[k].localTail \in Nat
    BY DEF IInv, Typed, Sized
  <2>1. ASSUME NEW k \in DOMAIN block
        PROVE  (Between(block[k].localFront, block[k].front, block[k].tail)
                /\ Between(block[k].front, block[k].localTail, block[k].tail))'
    <3>1. /\ Between(block[k].localFront, block[k].front, block[k].tail)
          /\ Between(block[k].front, block[k].localTail, block[k].tail)
      BY DEF IInv, Ordered
    <3>2. QED
      BY <1>0, <2>0, <3>1 DEF Between
  <2>2. QED
    BY <1>0, <2>1 DEF Ordered
<1>3. Slots'
  <2>1. ASSUME NEW k \in DOMAIN block, NEW i \in 0 .. block[k].size - 1
        PROVE  (block[k].data[i] # Nothing <=> Holds(k, i))'
    <3>1. block[k].data[i] # Nothing <=> Holds(k, i)
      BY DEF IInv, Slots
    <3>2. QED
      BY <1>0, <3>1 DEF IInv, Typed, Sized, Holds, Inside
  <2>2. QED
    BY <1>0, <2>1 DEF Slots
<1>4. ProducerKnows'
  BY <1>0, <1>b, <1>c DEF IInv, Typed, Sized, ProducerKnows, After
<1>5. ConsumerKnows'
  BY <1>0 DEF IInv, Typed, Sized, ConsumerKnows
<1>6. RingOrder'
  <2>2. Linked' = Linked /\ Linked \in Nat /\ \A k \in 1 .. Linked : k \in DOMAIN block
    BY <1>0 DEF Linked, IInv, Typed, ProducerKnows
  <2>3. Order(at, pos)'
    BY <1>0, <1>a, <2>2, OrderStays DEF Order, IInv, Typed
  <2>4. Filled(pos)'
    BY <1>0, <1>a, <2>2, FilledStays DEF IInv, Typed
  <2>5. Ahead(pos)'
    BY <1>0, <1>a, <1>b, <2>2 DEF Order, Ahead, IInv, Typed
  <2>6. QED
    BY <2>3, <2>4, <2>5 DEF RingOrder
<1>7. QED
  BY <1>1, <1>2, <1>3, <1>4, <1>5, <1>6 DEF IInv


LEMMA WriteKeeps == ASSUME IInv, Write, UNCHANGED <<maxSize, freed>> PROVE IInv'
<1>a. PICK v \in Values : block' = [block EXCEPT ![pblock].data[block[pblock].tail] = v]
  BY DEF Write
<1> DEFINE t == block[pblock].tail
<1>0. /\ producer = "write" /\ pblock \in DOMAIN block /\ t \in 0 .. block[pblock].size - 1
      /\ block' \in Seq(BlockTypes) /\ Len(block') = Len(block) /\ DOMAIN block' = DOMAIN block
      /\ \A k \in DOMAIN block :
           /\ block'[k].front = block[k].front /\ block'[k].localTail = block[k].localTail
           /\ block'[k].tail = block[k].tail
           /\ block'[k].localFront = block[k].localFront /\ block'[k].next = block[k].next
           /\ block'[k].size = block[k].size
           /\ block'[k].data = IF k = pblock THEN [block[pblock].data EXCEPT ![t] = v] ELSE block[k].data
      /\ producer' = "publish" /\ full' = FALSE /\ v \in Values /\ v # Nothing
      /\ UNCHANGED <<frontBlock, tailBlock, largest, pblock, consumer, op, cblock, result, empty,
                     maxSize, freed>>
  <2>1. /\ producer = "write" /\ pblock \in DOMAIN block /\ t \in 0 .. block[pblock].size - 1
        /\ block \in Seq(BlockTypes) /\ t \in DOMAIN block[pblock].data
    BY DEF IInv, Typed, Sized, Write
  <2>2. block' = [block EXCEPT ![pblock].data[t] = v]
    BY <1>a
  <2>3. v # Nothing /\ v \in Values \cup {Nothing}
    BY SizeAssumption DEF SizeAssumption
  <2>4. QED
    BY <2>1, <2>2, <2>3, SetSlot DEF Write, consumerVars
<1>d. ASSUME NEW k \in DOMAIN block
      PROVE  /\ block'[k].data \in [0 .. block[k].size - 1 -> Values \cup {Nothing}]
             /\ \A i \in 0 .. block[k].size - 1 :
                  block'[k].data[i] = IF k = pblock /\ i = t THEN v ELSE block[k].data[i]
  <2>1. block[k].data \in [0 .. block[k].size - 1 -> Values \cup {Nothing}]
    BY DEF IInv, Typed, Sized
  <2>2. CASE k = pblock
    <3>1. block'[k].data = [block[k].data EXCEPT ![t] = v]
      BY <1>0, <2>2
    <3>2. QED
      BY <1>0, <2>1, <2>2, <3>1
  <2>3. CASE k # pblock
    BY <1>0, <2>1, <2>3
  <2>4. QED
    BY <2>2, <2>3
<1>e. /\ DOMAIN block' = DOMAIN block
      /\ \A k \in DOMAIN block :
           /\ block'[k].front = block[k].front /\ block'[k].localTail = block[k].localTail
           /\ block'[k].tail = block[k].tail /\ block'[k].localFront = block[k].localFront
           /\ block'[k].next = block[k].next /\ block'[k].size = block[k].size
  BY <1>0
<1>f. /\ producer = "write" /\ producer' = "publish" /\ v # Nothing /\ t = block[pblock].tail
      /\ UNCHANGED <<pblock, consumer, cblock>>
  BY <1>0
<1> HIDE DEF t
<1>1. Typed'
  <2>1. ASSUME NEW k \in DOMAIN block PROVE Sized(k)'
    BY <1>d, <1>e, <1>f DEF IInv, Typed, Sized
  <2>2. QED
    BY <1>0, <2>1 DEF IInv, Typed, Operations, ProducerPlaces, ConsumerPlaces
<1>2. Ordered'
  <2>0. ASSUME NEW k \in DOMAIN block
        PROVE  /\ block[k].front \in Nat /\ block[k].tail \in Nat
               /\ block[k].localFront \in Nat /\ block[k].localTail \in Nat
    BY DEF IInv, Typed, Sized
  <2>1. ASSUME NEW k \in DOMAIN block
        PROVE  (Between(block[k].localFront, block[k].front, block[k].tail)
                /\ Between(block[k].front, block[k].localTail, block[k].tail))'
    <3>1. /\ Between(block[k].localFront, block[k].front, block[k].tail)
          /\ Between(block[k].front, block[k].localTail, block[k].tail)
      BY DEF IInv, Ordered
    <3>2. QED
      BY <1>0, <2>0, <3>1 DEF Between
  <2>2. QED
    BY <1>0, <2>1 DEF Ordered
<1>3. Slots'
  <2>1. ASSUME NEW k \in DOMAIN block, NEW i \in 0 .. block[k].size - 1
        PROVE  (block[k].data[i] # Nothing <=> Holds(k, i))'
    <3>1. block[k].data[i] # Nothing <=> Holds(k, i)
      BY DEF IInv, Slots
    <3>2. QED
      BY <1>d, <1>e, <1>f, <3>1 DEF IInv, Typed, Sized, Holds, Inside
  <2>2. QED
    BY <1>0, <2>1 DEF Slots
<1>4. ProducerKnows'
  BY <1>0 DEF IInv, Typed, Sized, ProducerKnows, After
<1>5. ConsumerKnows'
  BY <1>0 DEF IInv, Typed, Sized, ConsumerKnows
<1>6. RingOrder'
  <2>1. PICK at, pos : Order(at, pos) /\ Filled(pos) /\ Ahead(pos)
    BY DEF IInv, RingOrder
  <2>2. Linked' = Linked /\ Linked \in Nat /\ \A k \in 1 .. Linked : k \in DOMAIN block
    BY <1>0 DEF Linked, IInv, Typed, ProducerKnows
  <2>3. Order(at, pos)'
    BY <1>0, <2>1, <2>2, OrderStays DEF Order, IInv, Typed
  <2>4. Filled(pos)'
    BY <1>0, <2>1, <2>2, FilledStays DEF IInv, Typed
  <2>5. Ahead(pos)'
    BY <1>0, <2>1, <2>2 DEF Order, Ahead, IInv, Typed
  <2>6. QED
    BY <2>3, <2>4, <2>5 DEF RingOrder
<1>7. QED
  BY <1>1, <1>2, <1>3, <1>4, <1>5, <1>6 DEF IInv


LEMMA AllocFailsKeeps == ASSUME IInv, AllocFails, UNCHANGED <<maxSize, freed>> PROVE IInv'
<1>0. /\ producer = "alloc" /\ producer' = "idle" /\ full' = FALSE
      /\ UNCHANGED <<block, frontBlock, tailBlock, largest, pblock, consumer, op, cblock, result,
                     empty, maxSize, freed>>
  BY DEF AllocFails, consumerVars
<1>1. Typed'
  <2>1. ASSUME NEW k \in DOMAIN block PROVE Sized(k)'
    BY <1>0 DEF IInv, Typed, Sized
  <2>2. QED
    BY <1>0, <2>1 DEF IInv, Typed, Operations, ProducerPlaces, ConsumerPlaces
<1>2. Ordered'
  <2>0. ASSUME NEW k \in DOMAIN block
        PROVE  /\ block[k].front \in Nat /\ block[k].tail \in Nat
               /\ block[k].localFront \in Nat /\ block[k].localTail \in Nat
    BY DEF IInv, Typed, Sized
  <2>1. ASSUME NEW k \in DOMAIN block
        PROVE  (Between(block[k].localFront, block[k].front, block[k].tail)
                /\ Between(block[k].front, block[k].localTail, block[k].tail))'
    <3>1. /\ Between(block[k].localFront, block[k].front, block[k].tail)
          /\ Between(block[k].front, block[k].localTail, block[k].tail)
      BY DEF IInv, Ordered
    <3>2. QED
      BY <1>0, <2>0, <3>1 DEF Between
  <2>2. QED
    BY <1>0, <2>1 DEF Ordered
<1>3. Slots'
  <2>1. ASSUME NEW k \in DOMAIN block, NEW i \in 0 .. block[k].size - 1
        PROVE  (block[k].data[i] # Nothing <=> Holds(k, i))'
    <3>1. block[k].data[i] # Nothing <=> Holds(k, i)
      BY DEF IInv, Slots
    <3>2. QED
      BY <1>0, <3>1 DEF IInv, Typed, Sized, Holds, Inside
  <2>2. QED
    BY <1>0, <2>1 DEF Slots
<1>4. ProducerKnows'
  BY <1>0 DEF IInv, Typed, Sized, ProducerKnows, After
<1>5. ConsumerKnows'
  BY <1>0 DEF IInv, Typed, Sized, ConsumerKnows
<1>6. RingOrder'
  <2>1. PICK at, pos : Order(at, pos) /\ Filled(pos) /\ Ahead(pos)
    BY DEF IInv, RingOrder
  <2>2. Linked' = Linked /\ Linked \in Nat /\ \A k \in 1 .. Linked : k \in DOMAIN block
    BY <1>0 DEF Linked, IInv, Typed, ProducerKnows
  <2>3. Order(at, pos)'
    BY <1>0, <2>1, <2>2, OrderStays DEF Order, IInv, Typed
  <2>4. Filled(pos)'
    BY <1>0, <2>1, <2>2, FilledStays DEF IInv, Typed
  <2>5. Ahead(pos)'
    BY <1>0, <2>1, <2>2 DEF Order, Ahead, IInv, Typed
  <2>6. QED
    BY <2>3, <2>4, <2>5 DEF RingOrder
<1>7. QED
  BY <1>1, <1>2, <1>3, <1>4, <1>5, <1>6 DEF IInv


LEMMA SetTailKeeps == ASSUME IInv, SetTail, UNCHANGED <<maxSize, freed>> PROVE IInv'
<1>0. /\ producer = "setTail" /\ producer' = "idle" /\ tailBlock' = pblock
      /\ UNCHANGED <<block, frontBlock, largest, pblock, full, consumer, op, cblock, result, empty,
                     maxSize, freed>>
  BY DEF SetTail, consumerVars
<1>a. PICK at, pos : Order(at, pos) /\ Filled(pos) /\ Ahead(pos)
  BY DEF IInv, RingOrder
<1>b. pblock \in 1 .. Linked /\ pos[pblock] = pos[tailBlock] + 1 /\ ~IsEmpty(pblock)
  BY <1>0, <1>a DEF Ahead, IInv, ProducerKnows
<1>1. Typed'
  <2>1. ASSUME NEW k \in DOMAIN block PROVE Sized(k)'
    BY <1>0 DEF IInv, Typed, Sized
  <2>2. QED
    BY <1>0, <2>1 DEF IInv, Typed, Operations, ProducerPlaces, ConsumerPlaces
<1>2. Ordered'
  <2>0. ASSUME NEW k \in DOMAIN block
        PROVE  /\ block[k].front \in Nat /\ block[k].tail \in Nat
               /\ block[k].localFront \in Nat /\ block[k].localTail \in Nat
    BY DEF IInv, Typed, Sized
  <2>1. ASSUME NEW k \in DOMAIN block
        PROVE  (Between(block[k].localFront, block[k].front, block[k].tail)
                /\ Between(block[k].front, block[k].localTail, block[k].tail))'
    <3>1. /\ Between(block[k].localFront, block[k].front, block[k].tail)
          /\ Between(block[k].front, block[k].localTail, block[k].tail)
      BY DEF IInv, Ordered
    <3>2. QED
      BY <1>0, <2>0, <3>1 DEF Between
  <2>2. QED
    BY <1>0, <2>1 DEF Ordered
<1>3. Slots'
  <2>1. ASSUME NEW k \in DOMAIN block, NEW i \in 0 .. block[k].size - 1
        PROVE  (block[k].data[i] # Nothing <=> Holds(k, i))'
    <3>1. block[k].data[i] # Nothing <=> Holds(k, i)
      BY DEF IInv, Slots
    <3>2. QED
      BY <1>0, <3>1 DEF IInv, Typed, Sized, Holds, Inside
  <2>2. QED
    BY <1>0, <2>1 DEF Slots
<1>4. ProducerKnows'
  BY <1>0 DEF IInv, Typed, Sized, ProducerKnows, After
<1>5. ConsumerKnows'
  BY <1>0 DEF IInv, Typed, Sized, ConsumerKnows
<1>6. RingOrder'
  <2>2. Linked' = Linked /\ Linked \in Nat /\ \A k \in 1 .. Linked : k \in DOMAIN block
    BY <1>0 DEF Linked, IInv, Typed, ProducerKnows
  <2>3. Order(at, pos)'
    BY <1>0, <1>a, <1>b, <2>2, OrderStays DEF Order, IInv, Typed
  <2>a. /\ pos[tailBlock] \in Nat /\ pos[pblock] = pos[tailBlock] + 1
        /\ \A k \in 1 .. Linked : pos[k] \in Nat /\ (pos[k] = pos[pblock] => k = pblock)
    BY <1>a, <1>b, <2>2 DEF Order
  <2>4. Filled(pos)'
    <3>1. ASSUME NEW k \in 1 .. Linked
          PROVE  /\ 1 <= pos[k] /\ pos[k] <= pos[pblock] => ~IsEmpty(k)
                 /\ pos[pblock] < pos[k] => IsEmpty(k)
      BY <1>0, <1>a, <1>b, <2>a DEF Filled
    <3>2. QED
      BY <1>0, <2>2, <3>1 DEF Filled
  <2>5. Ahead(pos)'
    BY <1>0, <1>a, <2>2, <2>a DEF Ahead
  <2>6. QED
    BY <2>3, <2>4, <2>5 DEF RingOrder
<1>7. QED
  BY <1>1, <1>2, <1>3, <1>4, <1>5, <1>6 DEF IInv


LEMMA PublishKeeps == ASSUME IInv, Publish, UNCHANGED <<maxSize, freed>> PROVE IInv'
<1> DEFINE t == block[pblock].tail
           e == After(pblock, t)
<1>a. /\ producer = "publish" /\ pblock \in DOMAIN block /\ Typed
      /\ t \in 0 .. block[pblock].size - 1 /\ block[pblock].size \in Nat
  BY DEF IInv, Typed, Sized, Publish
<1>b. e = (IF t + 1 = block[pblock].size THEN 0 ELSE t + 1) /\ e \in 0 .. block[pblock].size - 1 /\ e # t
  BY <1>a, AfterIs
<1>c. e # block[pblock].localFront
  BY <1>a DEF IInv, ProducerKnows
<1> HIDE DEF e
<1>0. /\ producer = "publish" /\ pblock \in DOMAIN block
      /\ block' \in Seq(BlockTypes) /\ Len(block') = Len(block) /\ DOMAIN block' = DOMAIN block
      /\ \A k \in DOMAIN block :
           /\ block'[k].front = block[k].front /\ block'[k].localTail = block[k].localTail
           /\ block'[k].localFront = block[k].localFront
           /\ block'[k].next = block[k].next /\ block'[k].size = block[k].size
           /\ block'[k].data = block[k].data
           /\ block'[k].tail = IF k = pblock THEN e ELSE block[k].tail
      /\ producer' = (IF pblock = tailBlock THEN "idle" ELSE "setTail")
      /\ UNCHANGED <<frontBlock, tailBlock, largest, pblock, full, consumer, op, cblock, result,
                     empty, maxSize, freed>>
  <2>1. block' = [block EXCEPT ![pblock].tail = e] /\ block \in Seq(BlockTypes) /\ e \in Nat
    BY <1>a, <1>b DEF Publish, e, IInv, Typed
  <2>2. QED
    BY <1>a, <2>1, SetTailOf DEF Publish, consumerVars
<1>d. /\ e # block[pblock].front
      /\ Between(block[pblock].localFront, block[pblock].front, e)
      /\ Between(block[pblock].front, block[pblock].localTail, e)
  <2>1. /\ block[pblock].front \in 0 .. block[pblock].size - 1
        /\ block[pblock].localFront \in 0 .. block[pblock].size - 1
        /\ block[pblock].localTail \in 0 .. block[pblock].size - 1
    BY <1>a DEF Typed, Sized
  <2>2. /\ Between(block[pblock].localFront, block[pblock].front, t)
        /\ Between(block[pblock].front, block[pblock].localTail, t)
    BY <1>a DEF IInv, Ordered
  <2>3. QED
    BY <1>a, <1>b, <1>c, <2>1, <2>2 DEF Between
<1>r. PICK at, pos : Order(at, pos) /\ Filled(pos) /\ Ahead(pos)
  BY DEF IInv, RingOrder
<1>s. Linked' = Linked /\ Linked \in Nat /\ (\A k \in 1 .. Linked : k \in DOMAIN block) /\ pblock \in 1 .. Linked
  BY <1>0 DEF Linked, IInv, Typed
<1>g. consumer \in {"loadNext", "loadNextTail", "advance"} => pblock # frontBlock
  <2>1. pos[frontBlock] = 0 /\ pos[tailBlock] \in Nat
    BY <1>r, <1>s DEF Order
  <2>2. QED
    BY <1>0, <1>r, <2>1 DEF Ahead
<1>1. Typed'
  <2>1. ASSUME NEW k \in DOMAIN block PROVE Sized(k)'
    BY <1>0, <1>b DEF IInv, Typed, Sized
  <2>2. QED
    BY <1>0, <2>1 DEF IInv, Typed, Operations, ProducerPlaces, ConsumerPlaces
<1>2. Ordered'
  <2>0. ASSUME NEW k \in DOMAIN block
        PROVE  /\ block[k].front \in Nat /\ block[k].tail \in Nat
               /\ block[k].localFront \in Nat /\ block[k].localTail \in Nat
    BY DEF IInv, Typed, Sized
  <2>1. ASSUME NEW k \in DOMAIN block
        PROVE  (Between(block[k].localFront, block[k].front, block[k].tail)
                /\ Between(block[k].front, block[k].localTail, block[k].tail))'
    <3>1. /\ Between(block[k].localFront, block[k].front, block[k].tail)
          /\ Between(block[k].front, block[k].localTail, block[k].tail)
      BY DEF IInv, Ordered
    <3>2. QED
      BY <1>0, <2>0, <3>1, <1>d DEF Between
  <2>2. QED
    BY <1>0, <2>1 DEF Ordered
<1>3. Slots'
  <2>0. block[pblock].front \in Nat /\ block[pblock].localTail \in Nat
    BY <1>a DEF Typed, Sized
  <2>1. consumer = "release" => ~(cblock = pblock /\ t = block[pblock].front)
    <3>1. Between(block[pblock].front, block[pblock].localTail, t)
      BY <1>a DEF IInv, Ordered
    <3>2. consumer = "release" /\ cblock = pblock => block[pblock].front # block[pblock].localTail
      BY DEF IInv, ConsumerKnows
    <3>3. QED
      BY <1>a, <2>0, <3>1, <3>2 DEF Between
  <2>2. consumer # "destroyed"
    BY <1>a DEF Typed
  <2>3. ASSUME NEW k \in DOMAIN block, NEW i \in 0 .. block[k].size - 1
        PROVE  Holds(k, i)' <=> Holds(k, i)
    <3>1. CASE k # pblock
      BY <1>0, <3>1 DEF Holds, Inside
    <3>2. CASE k = pblock
      <4>1. Inside(k, i)' <=> (Inside(k, i) \/ i = t)
        <5>1. block'[k].front = block[pblock].front /\ block'[k].tail = e
          BY <1>0, <3>2
        <5>2. block[pblock].front \in 0 .. block[pblock].size - 1 /\ i \in 0 .. block[pblock].size - 1
          BY <1>a, <3>2 DEF Typed, Sized
        <5>3. QED
          BY <1>a, <1>b, <1>d, <3>2, <5>1, <5>2 DEF Inside
      <4>2. ~(Inside(k, i) /\ i = t)
        BY <1>a, <2>0, <3>2 DEF Inside
      <4>3. QED
        BY <1>0, <2>1, <2>2, <3>2, <4>1, <4>2 DEF Holds
    <3>3. QED
      BY <3>1, <3>2
  <2>4. QED
    BY <1>0, <2>3 DEF IInv, Slots
<1>4. ProducerKnows'
  BY <1>0, <1>d DEF IInv, Typed, Sized, ProducerKnows, After
<1>5. ConsumerKnows'
  BY <1>0, <1>g DEF IInv, Typed, Sized, ConsumerKnows
<1>6. RingOrder'
  <2>3. Order(at, pos)'
    BY <1>0, <1>r, <1>s, OrderStays DEF Order, IInv, Typed
  <2>a. pos[pblock] = pos[tailBlock] \/ (producer' = "setTail" /\ pos[pblock] = pos[tailBlock] + 1)
    BY <1>0, <1>r DEF Ahead
  <2>b. pos[tailBlock] \in Nat
    BY <1>r, <1>s DEF Order
  <2>4. Filled(pos)'
    <3>1. ASSUME NEW k \in 1 .. Linked
          PROVE  /\ 1 <= pos[k] /\ pos[k] <= pos[tailBlock] => ~IsEmpty(k)'
                 /\ pos[tailBlock] < pos[k] /\ ~(producer' = "setTail" /\ k = pblock) => IsEmpty(k)'
      <4>1. /\ 1 <= pos[k] /\ pos[k] <= pos[tailBlock] => ~IsEmpty(k)
            /\ pos[tailBlock] < pos[k] => IsEmpty(k)
        BY <1>0, <1>r DEF Filled
      <4>2. CASE k = pblock
        BY <1>0, <1>d, <1>s, <2>a, <2>b, <4>2
      <4>3. CASE k # pblock
        BY <1>0, <1>s, <4>1, <4>3
      <4>4. QED
        BY <4>2, <4>3
    <3>2. QED
      BY <1>0, <1>s, <3>1 DEF Filled
  <2>5. Ahead(pos)'
    BY <1>0, <1>r, <1>s DEF Ahead
  <2>6. QED
    BY <2>3, <2>4, <2>5 DEF RingOrder
<1>7. QED
  BY <1>1, <1>2, <1>3, <1>4, <1>5, <1>6 DEF IInv


LEMMA AllocKeeps == ASSUME IInv, Alloc, UNCHANGED <<maxSize, freed>> PROVE IInv'
<1>a. PICK v \in Values :
        block' = Append(block, [NewBlock(largest', block[tailBlock].next)
                                  EXCEPT !.data[0] = v, !.tail = 1, !.localTail = 1])
  BY DEF Alloc
<1>s. /\ largest' \in Powers /\ largest' \in Nat /\ largest' >= 2
      /\ block[tailBlock].next \in DOMAIN block /\ Len(block) \in Nat /\ block \in Seq(BlockTypes)
      /\ DOMAIN block = 1 .. Len(block)
  BY SizeAssumption DEF SizeAssumption, Alloc, IInv, Typed, Sized
<1>n. PICK size \in Nat, new \in Nat \ {0}, n \in DOMAIN block :
        size = largest' /\ new = Len(block) + 1 /\ n = block[tailBlock].next
  BY <1>s
<1>b. /\ size \in Powers /\ size >= 2 /\ v # Nothing /\ v \in Values /\ n \in Nat
      /\ \A k \in 1 .. new : k = new \/ k \in DOMAIN block
      /\ \A k \in DOMAIN block : k \in 1 .. new /\ k # new
  BY <1>s, <1>n, SizeAssumption DEF SizeAssumption
<1>c. /\ block'[new].front = 0 /\ block'[new].localTail = 1 /\ block'[new].tail = 1
      /\ block'[new].localFront = 0 /\ block'[new].next = n
      /\ block'[new].size = size
      /\ block'[new].data \in [0 .. size - 1 -> Values \cup {Nothing}]
      /\ \A i \in 0 .. size - 1 : block'[new].data[i] = IF i = 0 THEN v ELSE Nothing
      /\ block' \in Seq(BlockTypes) /\ Len(block') = new /\ DOMAIN block' = 1 .. new
      /\ \A k \in DOMAIN block : block'[k] = block[k]
  <2> DEFINE old == NewBlock(size, n)
             filled == [old.data EXCEPT ![0] = v]
             row == [old EXCEPT !.data[0] = v, !.tail = 1, !.localTail = 1]
  <2>1. /\ old \in BlockTypes /\ old.front = 0 /\ old.localFront = 0
        /\ old.next = n /\ old.size = size /\ old.data = [i \in 0 .. size - 1 |-> Nothing]
    <3>1. size \in Nat \ {0} /\ n \in Nat
      BY <1>b
    <3>2. QED
      BY <3>1, NewBlockFields
  <2> HIDE DEF old
  <2>2. /\ filled \in [0 .. size - 1 -> Values \cup {Nothing}] /\ filled \in Slotted
        /\ \A i \in 0 .. size - 1 : filled[i] = IF i = 0 THEN v ELSE Nothing
    <3>1. filled = [i \in 0 .. size - 1 |-> IF i = 0 THEN v ELSE Nothing]
      BY <1>b, <2>1
    <3>2. filled \in [0 .. size - 1 -> Values \cup {Nothing}]
      BY <1>b, <3>1
    <3>3. QED
      BY <1>b, <3>1, <3>2 DEF Slotted
  <2>3. row = [old EXCEPT !.data = filled, !.tail = 1, !.localTail = 1]
    BY <2>1 DEF BlockTypes
  <2> HIDE DEF filled
  <2>4. /\ row \in BlockTypes /\ row.front = 0 /\ row.localTail = 1 /\ row.tail = 1
        /\ row.localFront = 0 /\ row.next = n /\ row.size = size /\ row.data = filled
    BY <2>1, <2>2, <2>3 DEF BlockTypes
  <2>5. block' = Append(block, row)
    BY <1>a, <1>n DEF old
  <2> HIDE DEF row
  <2>6. /\ block' \in Seq(BlockTypes) /\ Len(block') = new /\ DOMAIN block' = 1 .. new
        /\ block'[new] = row /\ \A k \in DOMAIN block : block'[k] = block[k]
    BY <1>s, <1>n, <2>4, <2>5
  <2>7. QED
    BY <2>2, <2>4, <2>6
<1>0. /\ producer = "alloc" /\ producer' = "link" /\ pblock' = new /\ full' = FALSE
      /\ UNCHANGED <<frontBlock, tailBlock, consumer, op, cblock, result, empty, maxSize, freed>>
  <2>1. Len(block') = new
    BY <1>c
  <2>2. QED
    BY <2>1 DEF Alloc, consumerVars
<1>1. Typed'
  <2>1. ASSUME NEW k \in 1 .. new PROVE Sized(k)'
    <3>1. CASE k = new
      <4>1. n \in 1 .. new /\ 0 \in 0 .. size - 1 /\ 1 \in 0 .. size - 1
        BY <1>b
      <4>2. QED
        BY <1>b, <1>c, <3>1, <4>1 DEF Sized
    <3>2. CASE k \in DOMAIN block
      <4>1. Sized(k) /\ block[k].next \in 1 .. new
        BY <1>b, <3>2 DEF IInv, Typed, Sized
      <4>2. QED
        BY <1>b, <1>c, <3>2, <4>1 DEF Sized
    <3>3. QED
      BY <1>b, <3>1, <3>2
  <2>2. /\ frontBlock \in 1 .. new /\ tailBlock \in 1 .. new /\ cblock \in 1 .. new /\ freed \subseteq 1 .. new
        /\ consumer # "destroyed"
    BY <1>0, <1>b DEF IInv, Typed
  <2>3. QED
    <3>1. /\ producer' \in ProducerPlaces /\ producer' # "destroyed"
          /\ UNCHANGED <<consumer, op, result, empty, maxSize>> /\ full' \in BOOLEAN
      BY <1>0 DEF ProducerPlaces
    <3>2. /\ consumer \in ConsumerPlaces /\ result \in Values \cup {Nothing} /\ maxSize \in MaxSizes
          /\ op \in Operations \union {"none", "destroyed"} /\ (op = "none" <=> consumer = "idle")
          /\ empty \in BOOLEAN
      BY DEF IInv, Typed
    <3>3. DOMAIN block' = 1 .. new /\ Len(block') = new /\ pblock' \in 1 .. new /\ largest' = size
      BY <1>0, <1>n, <1>c
    <3>4. QED
      BY <1>0, <1>b, <1>c, <2>1, <2>2, <3>1, <3>2, <3>3 DEF Typed
<1>2. Ordered'
  <2>1. ASSUME NEW k \in 1 .. new
        PROVE  (Between(block[k].localFront, block[k].front, block[k].tail)
                /\ Between(block[k].front, block[k].localTail, block[k].tail))'
    <3>1. CASE k = new
      BY <1>c, <3>1 DEF Between
    <3>2. CASE k \in DOMAIN block
      BY <1>b, <1>c, <3>2 DEF IInv, Ordered, Between
    <3>3. QED
      BY <1>b, <3>1, <3>2
  <2>2. QED
    BY <1>c, <2>1 DEF Ordered
<1>3. Slots'
  <2>0. consumer # "destroyed" /\ cblock \in DOMAIN block
    BY <1>0, <1>b DEF IInv, Typed
  <2>1. ASSUME NEW k \in 1 .. new, NEW i \in 0 .. block'[k].size - 1
        PROVE  block'[k].data[i] # Nothing <=> Holds(k, i)'
    <3>1. CASE k = new
      <4>1. i \in 0 .. size - 1 /\ (block'[k].data[i] # Nothing <=> i = 0)
        BY <1>b, <1>c, <3>1
      <4>2. Inside(k, i)' <=> i = 0
        BY <1>b, <1>c, <3>1, <4>1 DEF Inside
      <4>3. k # cblock
        BY <1>b, <2>0, <3>1
      <4>4. QED
        BY <1>0, <2>0, <4>1, <4>2, <4>3 DEF Holds
    <3>2. CASE k \in DOMAIN block
      <4>1. block'[k] = block[k] /\ (block[k].data[i] # Nothing <=> Holds(k, i))
        BY <1>b, <1>c, <3>2 DEF IInv, Slots
      <4>2. QED
        BY <1>0, <4>1 DEF Holds, Inside
    <3>3. QED
      BY <1>b, <3>1, <3>2
  <2>2. QED
    BY <1>c, <2>1 DEF Slots
<1>4. ProducerKnows'
  <2>1. tailBlock \in DOMAIN block /\ new >= 2
    BY <1>b DEF IInv, Typed
  <2>2. QED
    BY <1>0, <1>n, <1>c, <2>1 DEF ProducerKnows
<1>5. ConsumerKnows'
  <2>1. block'[cblock] = block[cblock] /\ block'[frontBlock] = block[frontBlock]
    BY <1>b, <1>c DEF IInv, Typed
  <2>2. QED
    BY <1>0, <2>1 DEF IInv, ConsumerKnows
<1>6. RingOrder'
  <2>1. PICK at, pos : Order(at, pos) /\ Filled(pos) /\ Ahead(pos)
    BY DEF IInv, RingOrder
  <2>2. Linked' = Linked /\ Linked \in Nat /\ \A k \in 1 .. Linked : k \in DOMAIN block
    BY <1>0, <1>s, <1>n, <1>b, <1>c DEF Linked
  <2>a. tailBlock' \in 1 .. Linked /\ cblock' \in 1 .. Linked /\ Typed
    BY <1>0, <2>1 DEF Order, IInv
  <2>b. \A k \in 1 .. Linked : block'[k].next = block[k].next
    BY <1>c, <2>2
  <2>3. Order(at, pos)'
    BY <1>0, <2>1, <2>2, <2>a, <2>b, OrderStays
  <2>4. Filled(pos)'
    BY <1>0, <1>c, <2>1, <2>2, FilledStays DEF IInv
  <2>5. Ahead(pos)'
    BY <1>0, <2>1, <2>2 DEF Ahead
  <2>6. QED
    BY <2>3, <2>4, <2>5 DEF RingOrder
<1>7. QED
  BY <1>1, <1>2, <1>3, <1>4, <1>5, <1>6 DEF IInv


LEMMA LinkKeeps == ASSUME IInv, Link, UNCHANGED <<maxSize, freed>> PROVE IInv'
<1>0. /\ producer = "link" /\ producer' = "setTail"
      /\ block' \in Seq(BlockTypes) /\ Len(block') = Len(block) /\ DOMAIN block' = DOMAIN block
      /\ \A k \in DOMAIN block :
           /\ block'[k].front = block[k].front /\ block'[k].localTail = block[k].localTail
           /\ block'[k].tail = block[k].tail
           /\ block'[k].localFront = block[k].localFront /\ block'[k].size = block[k].size
           /\ block'[k].data = block[k].data
           /\ block'[k].next = IF k = tailBlock THEN pblock ELSE block[k].next
      /\ UNCHANGED <<frontBlock, tailBlock, largest, pblock, full, consumer, op, cblock, result,
                     empty, maxSize, freed>>
  <2>1. /\ block \in Seq(BlockTypes) /\ tailBlock \in DOMAIN block /\ pblock \in Nat
        /\ block' = [block EXCEPT ![tailBlock].next = pblock]
    BY DEF Link, IInv, Typed
  <2>2. QED
    BY <2>1, SetNext DEF Link, consumerVars
<1>b. PICK L \in Nat \ {0} :
        /\ L = Linked /\ Linked' = L + 1 /\ pblock = L + 1 /\ DOMAIN block = 1 .. L + 1
        /\ ~IsEmpty(pblock) /\ block[pblock].next = block[tailBlock].next
  BY <1>0 DEF IInv, Typed, ProducerKnows, Linked
<1>c. PICK at, pos : Order(at, pos) /\ Filled(pos) /\ Ahead(pos)
  BY DEF IInv, RingOrder
<1>d. /\ at \in [0 .. L - 1 -> 1 .. L] /\ pos \in [1 .. L -> 0 .. L - 1]
      /\ \A i \in 0 .. L - 1 : pos[at[i]] = i
      /\ \A k \in 1 .. L : at[pos[k]] = k
      /\ \A i \in 0 .. L - 1 : block[at[i]].next = at[IF i = L - 1 THEN 0 ELSE i + 1]
      /\ at[0] = frontBlock
      /\ tailBlock \in 1 .. L /\ cblock \in 1 .. L
  BY <1>b, <1>c DEF Order
<1>e. PICK t \in 0 .. L - 1 : t = pos[tailBlock] /\ at[t] = tailBlock
  BY <1>d
<1>1. Typed'
  <2>1. ASSUME NEW k \in DOMAIN block PROVE Sized(k)'
    BY <1>0 DEF IInv, Typed, Sized
  <2>2. QED
    BY <1>0, <2>1 DEF IInv, Typed, Operations, ProducerPlaces, ConsumerPlaces
<1>2. Ordered'
  <2>0. ASSUME NEW k \in DOMAIN block
        PROVE  /\ block[k].front \in Nat /\ block[k].tail \in Nat
               /\ block[k].localFront \in Nat /\ block[k].localTail \in Nat
    BY DEF IInv, Typed, Sized
  <2>1. ASSUME NEW k \in DOMAIN block
        PROVE  (Between(block[k].localFront, block[k].front, block[k].tail)
                /\ Between(block[k].front, block[k].localTail, block[k].tail))'
    <3>1. /\ Between(block[k].localFront, block[k].front, block[k].tail)
          /\ Between(block[k].front, block[k].localTail, block[k].tail)
      BY DEF IInv, Ordered
    <3>2. QED
      BY <1>0, <2>0, <3>1 DEF Between
  <2>2. QED
    BY <1>0, <2>1 DEF Ordered
<1>3. Slots'
  <2>1. ASSUME NEW k \in DOMAIN block, NEW i \in 0 .. block[k].size - 1
        PROVE  (block[k].data[i] # Nothing <=> Holds(k, i))'
    <3>1. block[k].data[i] # Nothing <=> Holds(k, i)
      BY DEF IInv, Slots
    <3>2. QED
      BY <1>0, <3>1 DEF IInv, Typed, Sized, Holds, Inside
  <2>2. QED
    BY <1>0, <2>1 DEF Slots
<1>4. ProducerKnows'
  BY <1>0 DEF IInv, Typed, Sized, ProducerKnows, After
<1>5. ConsumerKnows'
  BY <1>0 DEF IInv, Typed, Sized, ConsumerKnows
<1>6. RingOrder'
  <2>a. PICK at2, pos2 : Inserted(L, t, at, pos, at2, pos2)
    BY <1>b, <1>d, <1>e, InsertBehind, Zenon
  <2>1. /\ at2 \in [0 .. L -> 1 .. L + 1] /\ pos2 \in [1 .. L + 1 -> 0 .. L]
        /\ \A i \in 0 .. t : at2[i] = at[i]
        /\ at2[t + 1] = L + 1
        /\ \A i \in t + 1 .. L - 1 : at2[i + 1] = at[i]
        /\ \A k \in 1 .. L : pos2[k] = IF pos[k] <= t THEN pos[k] ELSE pos[k] + 1
        /\ pos2[L + 1] = t + 1
    BY <2>a DEF Inserted
  <2>2. \A i \in 0 .. L : pos2[at2[i]] = i
    BY <2>a DEF Inserted
  <2>3. \A k \in 1 .. L + 1 : at2[pos2[k]] = k
    BY <2>a DEF Inserted
  <2>b. PICK old, new :
          /\ old = [k \in 1 .. L + 1 |-> block[k].next]
          /\ new = [k \in 1 .. L + 1 |-> block'[k].next]
    OBVIOUS
  <2>c. /\ new[tailBlock] = L + 1 /\ old[L + 1] = old[tailBlock]
        /\ \A k \in 1 .. L + 1 : k # tailBlock => new[k] = old[k]
    <3>1. /\ \A k \in 1 .. L + 1 : block'[k].next = IF k = tailBlock THEN L + 1 ELSE block[k].next
          /\ block[L + 1].next = block[tailBlock].next
      BY <1>0, <1>b
    <3>2. L + 1 \in 1 .. L + 1 /\ tailBlock \in 1 .. L + 1
      BY <1>d
    <3>3. QED
      BY <2>b, <3>1, <3>2
  <2>d. Round(L - 1, at, old)
    <3>1. ASSUME NEW i \in 0 .. L - 1 PROVE old[at[i]] = block[at[i]].next
      <4>1. at[i] \in 1 .. L + 1
        BY <1>d
      <4>2. QED
        BY <2>b, <4>1
    <3>2. QED
      BY <1>d, <3>1 DEF Round
  <2>e. Round(L, at2, new)
    <3>1. old[L + 1] = old[at[t]] /\ new[at[t]] = L + 1 /\ \A k \in 1 .. L + 1 : k # at[t] => new[k] = old[k]
      BY <1>e, <2>c
    <3>2. QED
      BY <1>d, <1>e, <2>a, <2>d, <3>1, InsertedNext
  <2>4. ASSUME NEW i \in 0 .. L PROVE block'[at2[i]].next = at2[IF i = L THEN 0 ELSE i + 1]
    BY <2>1, <2>b, <2>e DEF Round
  <2>5. at2[0] = frontBlock /\ tailBlock \in 1 .. L + 1 /\ cblock \in 1 .. L + 1
    BY <1>b, <1>e, <1>d, <2>1
  <2>6. Linked' - 1 = L /\ Linked' = L + 1
    BY <1>e, <1>b
  <2>7. Order(at2, pos2)'
    BY <1>b, <1>e, <1>0, <2>1, <2>2, <2>3, <2>4, <2>5, <2>6 DEF Order
  <2>8. pos2[tailBlock] = t /\ pos2[pblock] = t + 1
    BY <1>b, <1>d, <1>e, <2>1
  <2>9. Filled(pos2)'
    <3>1. ASSUME NEW k \in 1 .. L + 1
          PROVE  /\ 1 <= pos2[k] /\ pos2[k] <= t => ~IsEmpty(k)'
                 /\ t < pos2[k] /\ k # pblock => IsEmpty(k)'
      <4>1. IsEmpty(k)' <=> IsEmpty(k)
        BY <1>e, <1>0, <1>b
      <4>2. CASE k = L + 1
        <5>1. pos2[k] = t + 1 /\ k = pblock
          BY <1>b, <2>1, <4>2
        <5>2. QED
          BY <1>e, <5>1
      <4>3. CASE k \in 1 .. L
        <5>1. /\ 1 <= pos[k] /\ pos[k] <= t => ~IsEmpty(k)
              /\ t < pos[k] => IsEmpty(k)
          BY <1>0, <1>b, <1>c, <1>e, <4>3 DEF Filled
        <5>2. PICK p \in 0 .. L - 1 : p = pos[k]
          BY <1>d, <4>3
        <5>3. pos2[k] = IF p <= t THEN p ELSE p + 1
          BY <2>1, <4>3, <5>2
        <5>4. QED
          BY <1>e, <4>1, <5>1, <5>2, <5>3
      <4>4. QED
        BY <1>b, <1>e, <4>2, <4>3
    <3>2. QED
      BY <1>b, <1>e, <1>0, <2>6, <2>8, <3>1 DEF Filled
  <2>10. Ahead(pos2)'
    <3>1. consumer \in {"reloadTail", "loadNext", "loadNextTail", "advance"} => 1 <= t
      BY <1>b, <1>c, <1>e DEF Ahead
    <3>2. consumer \in {"loadNextTail", "advance"} => pos2[cblock] = 1
      BY <1>b, <1>e, <1>c, <1>d, <2>1, <3>1 DEF Ahead
    <3>3. pblock \in 1 .. L + 1
      BY <1>e, <1>b
    <3>4. QED
      BY <1>b, <1>e, <1>0, <2>6, <2>8, <3>1, <3>2, <3>3 DEF Ahead
  <2>11. QED
    BY <1>b, <1>e, <2>7, <2>9, <2>10 DEF RingOrder
<1>7. QED
  BY <1>1, <1>2, <1>3, <1>4, <1>5, <1>6 DEF IInv


-----------------------------------------------------------------------------
(* The consumer's steps.                                                   *)


LEMMA DequeueKeeps == ASSUME IInv, Dequeue, UNCHANGED <<maxSize, freed>> PROVE IInv'
<1>0. /\ consumer = "idle" /\ op' \in Operations /\ cblock' = frontBlock
      /\ consumer' \in {"read", "loadTail"}
      /\ consumer' = "read" => block[frontBlock].front # block[frontBlock].localTail
      /\ UNCHANGED <<block, frontBlock, tailBlock, largest, producer, pblock, full, result, empty,
                     maxSize, freed>>
  BY DEF Dequeue, HasElement, producerVars
<1>1. Typed'
  <2>1. ASSUME NEW k \in DOMAIN block PROVE Sized(k)'
    BY <1>0 DEF IInv, Typed, Sized
  <2>2. QED
    BY <1>0, <2>1 DEF IInv, Typed, Operations, ProducerPlaces, ConsumerPlaces
<1>2. Ordered'
  <2>0. ASSUME NEW k \in DOMAIN block
        PROVE  /\ block[k].front \in Nat /\ block[k].tail \in Nat
               /\ block[k].localFront \in Nat /\ block[k].localTail \in Nat
    BY DEF IInv, Typed, Sized
  <2>1. ASSUME NEW k \in DOMAIN block
        PROVE  (Between(block[k].localFront, block[k].front, block[k].tail)
                /\ Between(block[k].front, block[k].localTail, block[k].tail))'
    <3>1. /\ Between(block[k].localFront, block[k].front, block[k].tail)
          /\ Between(block[k].front, block[k].localTail, block[k].tail)
      BY DEF IInv, Ordered
    <3>2. QED
      BY <1>0, <2>0, <3>1 DEF Between
  <2>2. QED
    BY <1>0, <2>1 DEF Ordered
<1>3. Slots'
  <2>1. ASSUME NEW k \in DOMAIN block, NEW i \in 0 .. block[k].size - 1
        PROVE  (block[k].data[i] # Nothing <=> Holds(k, i))'
    <3>1. block[k].data[i] # Nothing <=> Holds(k, i)
      BY DEF IInv, Slots
    <3>2. QED
      BY <1>0, <3>1 DEF IInv, Typed, Sized, Holds, Inside
  <2>2. QED
    BY <1>0, <2>1 DEF Slots
<1>4. ProducerKnows'
  BY <1>0 DEF IInv, Typed, Sized, ProducerKnows, After
<1>5. ConsumerKnows'
  BY <1>0 DEF IInv, Typed, Sized, ConsumerKnows
<1>6. RingOrder'
  <2>1. PICK at, pos : Order(at, pos) /\ Filled(pos) /\ Ahead(pos)
    BY DEF IInv, RingOrder
  <2>2. Linked' = Linked /\ Linked \in Nat /\ \A k \in 1 .. Linked : k \in DOMAIN block
    BY <1>0 DEF Linked, IInv, Typed, ProducerKnows
  <2>3. Order(at, pos)'
    BY <1>0, <2>1, <2>2, OrderStays DEF Order, IInv, Typed
  <2>4. Filled(pos)'
    BY <1>0, <2>1, <2>2, FilledStays DEF IInv, Typed
  <2>5. Ahead(pos)'
    BY <1>0, <2>1, <2>2 DEF Order, Ahead, IInv, Typed
  <2>6. QED
    BY <2>3, <2>4, <2>5 DEF RingOrder
<1>7. QED
  BY <1>1, <1>2, <1>3, <1>4, <1>5, <1>6 DEF IInv


LEMMA LoadTailKeeps == ASSUME IInv, LoadTail, UNCHANGED <<maxSize, freed>> PROVE IInv'
<1>0. /\ consumer = "loadTail" /\ cblock = frontBlock /\ frontBlock \in DOMAIN block
      /\ block' \in Seq(BlockTypes) /\ Len(block') = Len(block) /\ DOMAIN block' = DOMAIN block
      /\ \A k \in DOMAIN block :
           /\ block'[k].front = block[k].front /\ block'[k].tail = block[k].tail
           /\ block'[k].localFront = block[k].localFront
           /\ block'[k].next = block[k].next /\ block'[k].size = block[k].size
           /\ block'[k].data = block[k].data
           /\ block'[k].localTail = IF k = frontBlock THEN block[frontBlock].tail ELSE block[k].localTail
      /\ consumer' = (IF block[frontBlock].front # block[frontBlock].tail THEN "read" ELSE "checkTail")
      /\ empty' \in BOOLEAN
      /\ UNCHANGED <<frontBlock, tailBlock, largest, producer, pblock, full, op, cblock, result,
                     maxSize, freed>>
  <2>1. empty' \in BOOLEAN
    BY Zenon DEF LoadTail, ReadTail
  <2>2. /\ consumer = "loadTail" /\ cblock = frontBlock /\ frontBlock \in DOMAIN block
        /\ block \in Seq(BlockTypes) /\ block[frontBlock].tail \in Nat
    BY DEF IInv, Typed, Sized, LoadTail, ReadTail, ConsumerKnows
  <2>3. block' = [block EXCEPT ![frontBlock].localTail = block[frontBlock].tail]
    BY <2>2 DEF LoadTail, ReadTail
  <2>4. QED
    BY <2>1, <2>2, <2>3, SetLocalTail DEF LoadTail, ReadTail, producerVars
<1>1. Typed'
  <2>1. ASSUME NEW k \in DOMAIN block PROVE Sized(k)'
    BY <1>0 DEF IInv, Typed, Sized
  <2>2. QED
    BY <1>0, <2>1 DEF IInv, Typed, Operations, ProducerPlaces, ConsumerPlaces
<1>2. Ordered'
  <2>0. ASSUME NEW k \in DOMAIN block
        PROVE  /\ block[k].front \in Nat /\ block[k].tail \in Nat
               /\ block[k].localFront \in Nat /\ block[k].localTail \in Nat
    BY DEF IInv, Typed, Sized
  <2>1. ASSUME NEW k \in DOMAIN block
        PROVE  (Between(block[k].localFront, block[k].front, block[k].tail)
                /\ Between(block[k].front, block[k].localTail, block[k].tail))'
    <3>1. /\ Between(block[k].localFront, block[k].front, block[k].tail)
          /\ Between(block[k].front, block[k].localTail, block[k].tail)
      BY DEF IInv, Ordered
    <3>2. QED
      BY <1>0, <2>0, <3>1 DEF Between
  <2>2. QED
    BY <1>0, <2>1 DEF Ordered
<1>3. Slots'
  <2>1. ASSUME NEW k \in DOMAIN block, NEW i \in 0 .. block[k].size - 1
        PROVE  (block[k].data[i] # Nothing <=> Holds(k, i))'
    <3>1. block[k].data[i] # Nothing <=> Holds(k, i)
      BY DEF IInv, Slots
    <3>2. QED
      BY <1>0, <3>1 DEF IInv, Typed, Sized, Holds, Inside
  <2>2. QED
    BY <1>0, <2>1 DEF Slots
<1>4. ProducerKnows'
  BY <1>0 DEF IInv, Typed, Sized, ProducerKnows, After
<1>5. ConsumerKnows'
  BY <1>0 DEF IInv, Typed, Sized, ConsumerKnows
<1>6. RingOrder'
  <2>1. PICK at, pos : Order(at, pos) /\ Filled(pos) /\ Ahead(pos)
    BY DEF IInv, RingOrder
  <2>2. Linked' = Linked /\ Linked \in Nat /\ \A k \in 1 .. Linked : k \in DOMAIN block
    BY <1>0 DEF Linked, IInv, Typed, ProducerKnows
  <2>3. Order(at, pos)'
    BY <1>0, <2>1, <2>2, OrderStays DEF Order, IInv, Typed
  <2>4. Filled(pos)'
    BY <1>0, <2>1, <2>2, FilledStays DEF IInv, Typed
  <2>5. Ahead(pos)'
    BY <1>0, <2>1, <2>2 DEF Order, Ahead, IInv, Typed
  <2>6. QED
    BY <2>3, <2>4, <2>5 DEF RingOrder
<1>7. QED
  BY <1>1, <1>2, <1>3, <1>4, <1>5, <1>6 DEF IInv


LEMMA ReloadTailKeeps == ASSUME IInv, ReloadTail, UNCHANGED <<maxSize, freed>> PROVE IInv'
<1>0. /\ consumer = "reloadTail" /\ cblock = frontBlock /\ frontBlock \in DOMAIN block
      /\ block' \in Seq(BlockTypes) /\ Len(block') = Len(block) /\ DOMAIN block' = DOMAIN block
      /\ \A k \in DOMAIN block :
           /\ block'[k].front = block[k].front /\ block'[k].tail = block[k].tail
           /\ block'[k].localFront = block[k].localFront
           /\ block'[k].next = block[k].next /\ block'[k].size = block[k].size
           /\ block'[k].data = block[k].data
           /\ block'[k].localTail = IF k = frontBlock THEN block[frontBlock].tail ELSE block[k].localTail
      /\ consumer' = (IF block[frontBlock].front # block[frontBlock].tail THEN "read" ELSE "loadNext")
      /\ empty' \in BOOLEAN
      /\ UNCHANGED <<frontBlock, tailBlock, largest, producer, pblock, full, op, cblock, result,
                     maxSize, freed>>
  <2>1. empty' \in BOOLEAN
    BY Zenon DEF ReloadTail, ReadTail
  <2>2. /\ consumer = "reloadTail" /\ cblock = frontBlock /\ frontBlock \in DOMAIN block
        /\ block \in Seq(BlockTypes) /\ block[frontBlock].tail \in Nat
    BY DEF IInv, Typed, Sized, ReloadTail, ReadTail, ConsumerKnows
  <2>3. block' = [block EXCEPT ![frontBlock].localTail = block[frontBlock].tail]
    BY <2>2 DEF ReloadTail, ReadTail
  <2>4. QED
    BY <2>1, <2>2, <2>3, SetLocalTail DEF ReloadTail, ReadTail, producerVars
<1>1. Typed'
  <2>1. ASSUME NEW k \in DOMAIN block PROVE Sized(k)'
    BY <1>0 DEF IInv, Typed, Sized
  <2>2. QED
    BY <1>0, <2>1 DEF IInv, Typed, Operations, ProducerPlaces, ConsumerPlaces
<1>2. Ordered'
  <2>0. ASSUME NEW k \in DOMAIN block
        PROVE  /\ block[k].front \in Nat /\ block[k].tail \in Nat
               /\ block[k].localFront \in Nat /\ block[k].localTail \in Nat
    BY DEF IInv, Typed, Sized
  <2>1. ASSUME NEW k \in DOMAIN block
        PROVE  (Between(block[k].localFront, block[k].front, block[k].tail)
                /\ Between(block[k].front, block[k].localTail, block[k].tail))'
    <3>1. /\ Between(block[k].localFront, block[k].front, block[k].tail)
          /\ Between(block[k].front, block[k].localTail, block[k].tail)
      BY DEF IInv, Ordered
    <3>2. QED
      BY <1>0, <2>0, <3>1 DEF Between
  <2>2. QED
    BY <1>0, <2>1 DEF Ordered
<1>3. Slots'
  <2>1. ASSUME NEW k \in DOMAIN block, NEW i \in 0 .. block[k].size - 1
        PROVE  (block[k].data[i] # Nothing <=> Holds(k, i))'
    <3>1. block[k].data[i] # Nothing <=> Holds(k, i)
      BY DEF IInv, Slots
    <3>2. QED
      BY <1>0, <3>1 DEF IInv, Typed, Sized, Holds, Inside
  <2>2. QED
    BY <1>0, <2>1 DEF Slots
<1>4. ProducerKnows'
  BY <1>0 DEF IInv, Typed, Sized, ProducerKnows, After
<1>5. ConsumerKnows'
  BY <1>0 DEF IInv, Typed, Sized, ConsumerKnows
<1>6. RingOrder'
  <2>1. PICK at, pos : Order(at, pos) /\ Filled(pos) /\ Ahead(pos)
    BY DEF IInv, RingOrder
  <2>2. Linked' = Linked /\ Linked \in Nat /\ \A k \in 1 .. Linked : k \in DOMAIN block
    BY <1>0 DEF Linked, IInv, Typed, ProducerKnows
  <2>3. Order(at, pos)'
    BY <1>0, <2>1, <2>2, OrderStays DEF Order, IInv, Typed
  <2>4. Filled(pos)'
    BY <1>0, <2>1, <2>2, FilledStays DEF IInv, Typed
  <2>5. Ahead(pos)'
    BY <1>0, <2>1, <2>2 DEF Order, Ahead, IInv, Typed
  <2>6. QED
    BY <2>3, <2>4, <2>5 DEF RingOrder
<1>7. QED
  BY <1>1, <1>2, <1>3, <1>4, <1>5, <1>6 DEF IInv


LEMMA CheckTailKeeps == ASSUME IInv, CheckTail, UNCHANGED <<maxSize, freed>> PROVE IInv'
<1>0. /\ consumer = "checkTail" /\ cblock = frontBlock
      /\ \/ consumer' = "reloadTail" /\ cblock # tailBlock /\ UNCHANGED <<op, empty>>
         \/ consumer' = "idle" /\ op' = "none" /\ empty' = FALSE
      /\ UNCHANGED <<block, frontBlock, tailBlock, largest, producer, pblock, full, cblock, result,
                     maxSize, freed>>
  BY DEF CheckTail, producerVars, IInv, ConsumerKnows
<1>1. Typed'
  <2>1. ASSUME NEW k \in DOMAIN block PROVE Sized(k)'
    BY <1>0 DEF IInv, Typed, Sized
  <2>2. QED
    BY <1>0, <2>1 DEF IInv, Typed, Operations, ProducerPlaces, ConsumerPlaces
<1>2. Ordered'
  <2>0. ASSUME NEW k \in DOMAIN block
        PROVE  /\ block[k].front \in Nat /\ block[k].tail \in Nat
               /\ block[k].localFront \in Nat /\ block[k].localTail \in Nat
    BY DEF IInv, Typed, Sized
  <2>1. ASSUME NEW k \in DOMAIN block
        PROVE  (Between(block[k].localFront, block[k].front, block[k].tail)
                /\ Between(block[k].front, block[k].localTail, block[k].tail))'
    <3>1. /\ Between(block[k].localFront, block[k].front, block[k].tail)
          /\ Between(block[k].front, block[k].localTail, block[k].tail)
      BY DEF IInv, Ordered
    <3>2. QED
      BY <1>0, <2>0, <3>1 DEF Between
  <2>2. QED
    BY <1>0, <2>1 DEF Ordered
<1>3. Slots'
  <2>1. ASSUME NEW k \in DOMAIN block, NEW i \in 0 .. block[k].size - 1
        PROVE  (block[k].data[i] # Nothing <=> Holds(k, i))'
    <3>1. block[k].data[i] # Nothing <=> Holds(k, i)
      BY DEF IInv, Slots
    <3>2. QED
      BY <1>0, <3>1 DEF IInv, Typed, Sized, Holds, Inside
  <2>2. QED
    BY <1>0, <2>1 DEF Slots
<1>4. ProducerKnows'
  BY <1>0 DEF IInv, Typed, Sized, ProducerKnows, After
<1>5. ConsumerKnows'
  BY <1>0 DEF IInv, Typed, Sized, ConsumerKnows
<1>6. RingOrder'
  <2>1. PICK at, pos : Order(at, pos) /\ Filled(pos) /\ Ahead(pos)
    BY DEF IInv, RingOrder
  <2>2. Linked' = Linked /\ Linked \in Nat /\ \A k \in 1 .. Linked : k \in DOMAIN block
    BY <1>0 DEF Linked, IInv, Typed, ProducerKnows
  <2>3. Order(at, pos)'
    BY <1>0, <2>1, <2>2, OrderStays DEF Order, IInv, Typed
  <2>4. Filled(pos)'
    BY <1>0, <2>1, <2>2, FilledStays DEF IInv, Typed
  <2>5. Ahead(pos)'
    BY <1>0, <2>1, <2>2 DEF Order, Ahead, IInv, Typed
  <2>6. QED
    BY <2>3, <2>4, <2>5 DEF RingOrder
<1>7. QED
  BY <1>1, <1>2, <1>3, <1>4, <1>5, <1>6 DEF IInv


LEMMA LoadNextKeeps == ASSUME IInv, LoadNext, UNCHANGED <<maxSize, freed>> PROVE IInv'
<1>0. /\ consumer = "loadNext" /\ cblock' = block[frontBlock].next /\ consumer' = "loadNextTail"
      /\ block[frontBlock].next \in DOMAIN block
      /\ UNCHANGED <<block, frontBlock, tailBlock, largest, producer, pblock, full, op, result,
                     empty, maxSize, freed>>
  BY DEF LoadNext, producerVars, IInv, Typed, Sized
<1>a. PICK at, pos : Order(at, pos) /\ Filled(pos) /\ Ahead(pos)
  BY DEF IInv, RingOrder
<1>b. Linked' = Linked /\ Linked \in Nat /\ \A k \in 1 .. Linked : k \in DOMAIN block
  BY <1>0 DEF Linked, IInv, Typed, ProducerKnows
<1>c. block[frontBlock].next \in 1 .. Linked /\ pos[block[frontBlock].next] = 1
  <2>1. 1 <= pos[tailBlock] /\ pos[tailBlock] \in 0 .. Linked - 1
    BY <1>0, <1>a DEF Ahead, Order
  <2>2. block[frontBlock].next = at[1]
    BY <1>a, <1>b, <2>1 DEF Order
  <2>3. QED
    BY <1>a, <1>b, <2>1, <2>2 DEF Order
<1>1. Typed'
  <2>1. ASSUME NEW k \in DOMAIN block PROVE Sized(k)'
    BY <1>0 DEF IInv, Typed, Sized
  <2>2. QED
    BY <1>0, <2>1 DEF IInv, Typed, Operations, ProducerPlaces, ConsumerPlaces
<1>2. Ordered'
  <2>0. ASSUME NEW k \in DOMAIN block
        PROVE  /\ block[k].front \in Nat /\ block[k].tail \in Nat
               /\ block[k].localFront \in Nat /\ block[k].localTail \in Nat
    BY DEF IInv, Typed, Sized
  <2>1. ASSUME NEW k \in DOMAIN block
        PROVE  (Between(block[k].localFront, block[k].front, block[k].tail)
                /\ Between(block[k].front, block[k].localTail, block[k].tail))'
    <3>1. /\ Between(block[k].localFront, block[k].front, block[k].tail)
          /\ Between(block[k].front, block[k].localTail, block[k].tail)
      BY DEF IInv, Ordered
    <3>2. QED
      BY <1>0, <2>0, <3>1 DEF Between
  <2>2. QED
    BY <1>0, <2>1 DEF Ordered
<1>3. Slots'
  <2>1. ASSUME NEW k \in DOMAIN block, NEW i \in 0 .. block[k].size - 1
        PROVE  (block[k].data[i] # Nothing <=> Holds(k, i))'
    <3>1. block[k].data[i] # Nothing <=> Holds(k, i)
      BY DEF IInv, Slots
    <3>2. QED
      BY <1>0, <3>1 DEF IInv, Typed, Sized, Holds, Inside
  <2>2. QED
    BY <1>0, <2>1 DEF Slots
<1>4. ProducerKnows'
  BY <1>0 DEF IInv, Typed, Sized, ProducerKnows, After
<1>5. ConsumerKnows'
  BY <1>0 DEF IInv, Typed, Sized, ConsumerKnows
<1>6. RingOrder'
  <2>3. Order(at, pos)'
    BY <1>0, <1>a, <1>b, <1>c, OrderStays DEF Order, IInv, Typed
  <2>4. Filled(pos)'
    BY <1>0, <1>a, <1>b, FilledStays DEF IInv, Typed
  <2>5. Ahead(pos)'
    BY <1>0, <1>a, <1>b, <1>c DEF Ahead
  <2>6. QED
    BY <2>3, <2>4, <2>5 DEF RingOrder
<1>7. QED
  BY <1>1, <1>2, <1>3, <1>4, <1>5, <1>6 DEF IInv


LEMMA LoadNextTailKeeps == ASSUME IInv, LoadNextTail, UNCHANGED <<maxSize, freed>> PROVE IInv'
<1>a. PICK at, pos : Order(at, pos) /\ Filled(pos) /\ Ahead(pos)
  BY DEF IInv, RingOrder
<1>b. consumer = "loadNextTail" /\ cblock \in DOMAIN block /\ ~IsEmpty(cblock)
  <2>1. pos[cblock] = 1 /\ 1 <= pos[tailBlock] /\ cblock \in 1 .. Linked
    BY <1>a DEF Order, Ahead, LoadNextTail
  <2>2. ~IsEmpty(cblock)
    BY <1>a, <2>1 DEF Filled
  <2>3. QED
    BY <2>2 DEF LoadNextTail, IInv, Typed
<1>0. /\ consumer = "loadNextTail"
      /\ block' \in Seq(BlockTypes) /\ Len(block') = Len(block) /\ DOMAIN block' = DOMAIN block
      /\ \A k \in DOMAIN block :
           /\ block'[k].front = block[k].front /\ block'[k].tail = block[k].tail
           /\ block'[k].localFront = block[k].localFront
           /\ block'[k].next = block[k].next /\ block'[k].size = block[k].size
           /\ block'[k].data = block[k].data
           /\ block'[k].localTail = IF k = cblock /\ op # "peek" THEN block[cblock].tail ELSE block[k].localTail
      /\ consumer' = (IF op = "peek" THEN "read" ELSE "advance")
      /\ UNCHANGED <<frontBlock, tailBlock, largest, producer, pblock, full, op, cblock, result,
                     empty, maxSize, freed>>
  <2>1. block \in Seq(BlockTypes) /\ block[cblock].tail \in Nat /\ cblock \in DOMAIN block
    BY <1>b DEF IInv, Typed, Sized
  <2>2. CASE op = "peek"
    BY <2>1, <2>2 DEF LoadNextTail, producerVars
  <2>3. CASE op # "peek"
    <3>1. block' = [block EXCEPT ![cblock].localTail = block[cblock].tail]
      BY <2>3 DEF LoadNextTail
    <3>2. /\ block' \in Seq(BlockTypes) /\ Len(block') = Len(block) /\ DOMAIN block' = DOMAIN block
          /\ \A k \in DOMAIN block :
               /\ block'[k].front = block[k].front /\ block'[k].tail = block[k].tail
               /\ block'[k].localFront = block[k].localFront /\ block'[k].next = block[k].next
               /\ block'[k].size = block[k].size /\ block'[k].data = block[k].data
               /\ block'[k].localTail = IF k = cblock THEN block[cblock].tail ELSE block[k].localTail
      BY <2>1, <3>1, SetLocalTail
    <3>3. QED
      BY <2>3, <3>2 DEF LoadNextTail, producerVars
  <2>4. QED
    BY <2>2, <2>3
<1>1. Typed'
  <2>1. ASSUME NEW k \in DOMAIN block PROVE Sized(k)'
    BY <1>0 DEF IInv, Typed, Sized
  <2>2. QED
    BY <1>0, <2>1 DEF IInv, Typed, Operations, ProducerPlaces, ConsumerPlaces
<1>2. Ordered'
  <2>0. ASSUME NEW k \in DOMAIN block
        PROVE  /\ block[k].front \in Nat /\ block[k].tail \in Nat
               /\ block[k].localFront \in Nat /\ block[k].localTail \in Nat
    BY DEF IInv, Typed, Sized
  <2>1. ASSUME NEW k \in DOMAIN block
        PROVE  (Between(block[k].localFront, block[k].front, block[k].tail)
                /\ Between(block[k].front, block[k].localTail, block[k].tail))'
    <3>1. /\ Between(block[k].localFront, block[k].front, block[k].tail)
          /\ Between(block[k].front, block[k].localTail, block[k].tail)
      BY DEF IInv, Ordered
    <3>2. QED
      BY <1>0, <2>0, <3>1 DEF Between
  <2>2. QED
    BY <1>0, <2>1 DEF Ordered
<1>3. Slots'
  <2>1. ASSUME NEW k \in DOMAIN block, NEW i \in 0 .. block[k].size - 1
        PROVE  (block[k].data[i] # Nothing <=> Holds(k, i))'
    <3>1. block[k].data[i] # Nothing <=> Holds(k, i)
      BY DEF IInv, Slots
    <3>2. QED
      BY <1>0, <3>1 DEF IInv, Typed, Sized, Holds, Inside
  <2>2. QED
    BY <1>0, <2>1 DEF Slots
<1>4. ProducerKnows'
  BY <1>0 DEF IInv, Typed, Sized, ProducerKnows, After
<1>5. ConsumerKnows'
  BY <1>0, <1>b DEF IInv, Typed, Sized, ConsumerKnows
<1>6. RingOrder'
  <2>2. Linked' = Linked /\ Linked \in Nat /\ \A k \in 1 .. Linked : k \in DOMAIN block
    BY <1>0 DEF Linked, IInv, Typed, ProducerKnows
  <2>3. Order(at, pos)'
    BY <1>0, <1>a, <2>2, OrderStays DEF Order, IInv, Typed
  <2>4. Filled(pos)'
    BY <1>0, <1>a, <2>2, FilledStays DEF IInv, Typed
  <2>5. Ahead(pos)'
    BY <1>0, <1>a, <2>2 DEF Order, Ahead, IInv, Typed
  <2>6. QED
    BY <2>3, <2>4, <2>5 DEF RingOrder
<1>7. QED
  BY <1>1, <1>2, <1>3, <1>4, <1>5, <1>6 DEF IInv


LEMMA AdvanceKeeps == ASSUME IInv, Advance, UNCHANGED <<maxSize, freed>> PROVE IInv'
<1>0. /\ consumer = "advance" /\ consumer' = "read" /\ frontBlock' = cblock
      /\ UNCHANGED <<block, tailBlock, largest, producer, pblock, full, op, cblock, result, empty,
                     maxSize, freed>>
  BY DEF Advance, producerVars
<1>b. PICK L \in Nat \ {0} :
        L = Linked /\ Linked' = L /\ \A k \in 1 .. L : k \in DOMAIN block
  <2>1. Len(block) \in Nat /\ Len(block) >= 1 /\ DOMAIN block = 1 .. Len(block)
    BY DEF IInv, Typed
  <2>2. producer = "link" => Len(block) >= 2
    BY DEF IInv, ProducerKnows
  <2>3. Linked \in Nat \ {0} /\ Linked' = Linked /\ \A k \in 1 .. Linked : k \in DOMAIN block
    BY <1>0, <2>1, <2>2 DEF Linked
  <2>4. QED
    BY <2>3
<1>c. PICK at, pos : Order(at, pos) /\ Filled(pos) /\ Ahead(pos)
  BY DEF IInv, RingOrder
<1>d. /\ at \in [0 .. L - 1 -> 1 .. L] /\ pos \in [1 .. L -> 0 .. L - 1]
      /\ \A i \in 0 .. L - 1 : pos[at[i]] = i
      /\ \A k \in 1 .. L : at[pos[k]] = k
      /\ \A i \in 0 .. L - 1 : block[at[i]].next = at[IF i = L - 1 THEN 0 ELSE i + 1]
      /\ at[0] = frontBlock
      /\ tailBlock \in 1 .. L /\ cblock \in 1 .. L
  BY <1>b, <1>c DEF Order
<1>e. PICK t \in 1 .. L - 1 : t = pos[tailBlock]
  BY <1>0, <1>b, <1>c, <1>d DEF Ahead
<1>f. pos[cblock] = 1 /\ at[1] = cblock /\ IsEmpty(frontBlock)
  BY <1>0, <1>c, <1>d DEF Ahead, IInv, ConsumerKnows
<1>1. Typed'
  <2>1. ASSUME NEW k \in DOMAIN block PROVE Sized(k)'
    BY <1>0 DEF IInv, Typed, Sized
  <2>2. QED
    BY <1>0, <2>1 DEF IInv, Typed, Operations, ProducerPlaces, ConsumerPlaces
<1>2. Ordered'
  <2>0. ASSUME NEW k \in DOMAIN block
        PROVE  /\ block[k].front \in Nat /\ block[k].tail \in Nat
               /\ block[k].localFront \in Nat /\ block[k].localTail \in Nat
    BY DEF IInv, Typed, Sized
  <2>1. ASSUME NEW k \in DOMAIN block
        PROVE  (Between(block[k].localFront, block[k].front, block[k].tail)
                /\ Between(block[k].front, block[k].localTail, block[k].tail))'
    <3>1. /\ Between(block[k].localFront, block[k].front, block[k].tail)
          /\ Between(block[k].front, block[k].localTail, block[k].tail)
      BY DEF IInv, Ordered
    <3>2. QED
      BY <1>0, <2>0, <3>1 DEF Between
  <2>2. QED
    BY <1>0, <2>1 DEF Ordered
<1>3. Slots'
  <2>1. ASSUME NEW k \in DOMAIN block, NEW i \in 0 .. block[k].size - 1
        PROVE  (block[k].data[i] # Nothing <=> Holds(k, i))'
    <3>1. block[k].data[i] # Nothing <=> Holds(k, i)
      BY DEF IInv, Slots
    <3>2. QED
      BY <1>0, <3>1 DEF IInv, Typed, Sized, Holds, Inside
  <2>2. QED
    BY <1>0, <2>1 DEF Slots
<1>4. ProducerKnows'
  BY <1>0 DEF IInv, Typed, Sized, ProducerKnows, After
<1>5. ConsumerKnows'
  BY <1>0 DEF IInv, Typed, Sized, ConsumerKnows
<1>6. RingOrder'
  <2>a. PICK at2, pos2 : Rotated(L, at, pos, at2, pos2)
    BY <1>b, <1>d, Rotate, Zenon
  <2>1. /\ at2 \in [0 .. L - 1 -> 1 .. L] /\ pos2 \in [1 .. L -> 0 .. L - 1]
        /\ \A i \in 1 .. L - 1 : at2[i - 1] = at[i]
        /\ at2[L - 1] = at[0]
        /\ \A k \in 1 .. L : pos2[k] = IF pos[k] = 0 THEN L - 1 ELSE pos[k] - 1
    BY <2>a DEF Rotated
  <2>2. \A i \in 0 .. L - 1 : pos2[at2[i]] = i
    BY <2>a DEF Rotated
  <2>3. \A k \in 1 .. L : at2[pos2[k]] = k
    BY <2>a DEF Rotated
  <2>b. PICK old : old = [k \in 1 .. L |-> block[k].next]
    OBVIOUS
  <2>c. Round(L - 1, at, old)
    BY <1>b, <1>d, <2>b DEF Round
  <2>d. Round(L - 1, at2, old)
    BY <1>b, <1>d, <2>a, <2>c, RotatedNext
  <2>4. ASSUME NEW i \in 0 .. L - 1 PROVE block[at2[i]].next = at2[IF i = L - 1 THEN 0 ELSE i + 1]
    BY <2>1, <2>b, <2>d DEF Round
  <2>5. at2[0] = cblock
    <3>1. 1 \in 1 .. L - 1
      BY <1>e
    <3>2. at2[1 - 1] = at[1]
      BY <2>1, <3>1
    <3>3. QED
      BY <1>f, <3>2
  <2>7. Order(at2, pos2)'
    BY <1>0, <1>b, <1>d, <2>1, <2>2, <2>3, <2>4, <2>5 DEF Order
  <2>8. pos2[tailBlock] = t - 1
    BY <1>d, <1>e, <2>1
  <2>9. Filled(pos2)'
    <3>1. ASSUME NEW k \in 1 .. L
          PROVE  /\ 1 <= pos2[k] /\ pos2[k] <= t - 1 => ~IsEmpty(k)
                 /\ t - 1 < pos2[k] /\ ~(producer = "setTail" /\ k = pblock) => IsEmpty(k)
      <4>1. /\ 1 <= pos[k] /\ pos[k] <= t => ~IsEmpty(k)
            /\ t < pos[k] /\ ~(producer = "setTail" /\ k = pblock) => IsEmpty(k)
        BY <1>b, <1>c, <1>e DEF Filled
      <4>2. PICK p \in 0 .. L - 1 : p = pos[k] /\ at[p] = k
        BY <1>d
      <4>3. pos2[k] = (IF p = 0 THEN L - 1 ELSE p - 1) /\ (p = 0 => k = frontBlock)
        BY <1>d, <2>1, <4>2
      <4>4. QED
        BY <1>b, <1>e, <1>f, <4>1, <4>2, <4>3
    <3>2. QED
      BY <1>0, <1>b, <2>8, <3>1 DEF Filled
  <2>10. Ahead(pos2)'
    <3>1. producer = "loadNextFront" => t < L - 1
      BY <1>b, <1>c, <1>e DEF Ahead
    <3>2. producer = "setTail" \/ (producer \in {"write", "publish"} /\ pblock # tailBlock) =>
            pblock \in 1 .. L /\ pos2[pblock] = t
      <4>1. producer = "setTail" \/ (producer \in {"write", "publish"} /\ pblock # tailBlock) =>
              pblock \in 1 .. L /\ pos[pblock] = t + 1
        BY <1>b, <1>c, <1>e DEF Ahead
      <4>2. ASSUME pblock \in 1 .. L, pos[pblock] = t + 1 PROVE pos2[pblock] = t
        <5>1. pos2[pblock] = IF pos[pblock] = 0 THEN L - 1 ELSE pos[pblock] - 1
          BY <2>1, <4>2
        <5>2. QED
          BY <1>e, <4>2, <5>1
      <4>3. QED
        BY <4>1, <4>2
    <3>3. QED
      BY <1>0, <1>b, <1>e, <2>8, <3>1, <3>2 DEF Ahead
  <2>11. QED
    BY <2>7, <2>9, <2>10 DEF RingOrder
<1>7. QED
  BY <1>1, <1>2, <1>3, <1>4, <1>5, <1>6 DEF IInv


LEMMA ReadKeeps == ASSUME IInv, Read, UNCHANGED <<maxSize, freed>> PROVE IInv'
<1> DEFINE f == block[cblock].front
<1>a. /\ consumer = "read" /\ cblock \in DOMAIN block /\ f \in 0 .. block[cblock].size - 1
      /\ block \in Seq(BlockTypes) /\ f \in DOMAIN block[cblock].data
      /\ block[cblock].data[f] \in Values \cup {Nothing} /\ Typed
  <2>1. consumer = "read" /\ cblock \in DOMAIN block /\ block \in Seq(BlockTypes) /\ Typed
    BY DEF IInv, Typed, Read
  <2>2. /\ f \in 0 .. block[cblock].size - 1
        /\ block[cblock].data \in [0 .. block[cblock].size - 1 -> Values \cup {Nothing}]
    BY <2>1 DEF Typed, Sized
  <2>3. QED
    BY <2>1, <2>2
<1>0. /\ consumer = "read" /\ result' \in Values \cup {Nothing} /\ empty' = FALSE
      /\ \/ op = "peek" /\ consumer' = "idle" /\ op' = "none" /\ UNCHANGED block
         \/ op # "peek" /\ consumer' = "release" /\ UNCHANGED op
      /\ block' \in Seq(BlockTypes) /\ Len(block') = Len(block) /\ DOMAIN block' = DOMAIN block
      /\ \A k \in DOMAIN block :
           /\ block'[k].front = block[k].front /\ block'[k].localTail = block[k].localTail
           /\ block'[k].tail = block[k].tail /\ block'[k].localFront = block[k].localFront
           /\ block'[k].next = block[k].next /\ block'[k].size = block[k].size
      /\ UNCHANGED <<frontBlock, tailBlock, largest, producer, pblock, full, cblock, maxSize, freed>>
  <2>1. result' \in Values \cup {Nothing}
    BY <1>a DEF Read, Typed
  <2>2. CASE op = "peek"
    BY <1>a, <2>1, <2>2 DEF Read, producerVars
  <2>3. CASE op # "peek"
    <3>1. block' = [block EXCEPT ![cblock].data[f] = Nothing]
      BY <2>3 DEF Read
    <3>2. /\ block' \in Seq(BlockTypes) /\ Len(block') = Len(block) /\ DOMAIN block' = DOMAIN block
          /\ \A k \in DOMAIN block :
               /\ block'[k].front = block[k].front /\ block'[k].localTail = block[k].localTail
               /\ block'[k].tail = block[k].tail /\ block'[k].localFront = block[k].localFront
               /\ block'[k].next = block[k].next /\ block'[k].size = block[k].size
      BY <1>a, <3>1, SetSlot
    <3>3. QED
      BY <1>a, <2>1, <2>3, <3>2 DEF Read, producerVars
  <2>4. QED
    BY <2>2, <2>3
<1>d. ASSUME NEW k \in DOMAIN block
      PROVE  /\ block'[k].data \in [0 .. block[k].size - 1 -> Values \cup {Nothing}]
             /\ \A i \in 0 .. block[k].size - 1 :
                  block'[k].data[i] = IF op # "peek" /\ k = cblock /\ i = f THEN Nothing ELSE block[k].data[i]
  <2>1. block[k].data \in [0 .. block[k].size - 1 -> Values \cup {Nothing}]
    BY DEF IInv, Typed, Sized
  <2>2. CASE op = "peek"
    BY <1>0, <2>1, <2>2
  <2>3. CASE op # "peek"
    <3>1. block' = [block EXCEPT ![cblock].data[f] = Nothing]
      BY <2>3 DEF Read
    <3>2. block'[k].data = IF k = cblock THEN [block[cblock].data EXCEPT ![f] = Nothing] ELSE block[k].data
      BY <1>a, <3>1, SetSlot
    <3>3. CASE k = cblock
      <4>1. block'[k].data = [block[k].data EXCEPT ![f] = Nothing]
        BY <3>2, <3>3
      <4>2. QED
        BY <2>1, <2>3, <3>3, <4>1
    <3>4. CASE k # cblock
      BY <2>1, <3>2, <3>4
    <3>5. QED
      BY <3>3, <3>4
  <2>4. QED
    BY <2>2, <2>3
<1>e. op # "peek" => /\ cblock = frontBlock /\ f # block[cblock].localTail /\ f # block[cblock].tail
                     /\ Inside(cblock, f)
  <2>1. op # "peek" => cblock = frontBlock /\ f # block[cblock].localTail
    BY <1>a DEF IInv, ConsumerKnows
  <2>2. Between(f, block[cblock].localTail, block[cblock].tail)
    BY <1>a DEF IInv, Ordered
  <2>3. f \in Nat /\ block[cblock].localTail \in Nat /\ block[cblock].tail \in Nat
    BY <1>a DEF Typed, Sized
  <2>4. QED
    BY <2>1, <2>2, <2>3 DEF Between, Inside
<1>g. f = block[cblock].front
  OBVIOUS
<1> HIDE DEF f
<1>1. Typed'
  <2>1. ASSUME NEW k \in DOMAIN block PROVE Sized(k)'
    BY <1>0, <1>d DEF IInv, Typed, Sized
  <2>2. QED
    BY <1>0, <2>1 DEF IInv, Typed, Operations, ProducerPlaces, ConsumerPlaces
<1>2. Ordered'
  <2>0. ASSUME NEW k \in DOMAIN block
        PROVE  /\ block[k].front \in Nat /\ block[k].tail \in Nat
               /\ block[k].localFront \in Nat /\ block[k].localTail \in Nat
    BY DEF IInv, Typed, Sized
  <2>1. ASSUME NEW k \in DOMAIN block
        PROVE  (Between(block[k].localFront, block[k].front, block[k].tail)
                /\ Between(block[k].front, block[k].localTail, block[k].tail))'
    <3>1. /\ Between(block[k].localFront, block[k].front, block[k].tail)
          /\ Between(block[k].front, block[k].localTail, block[k].tail)
      BY DEF IInv, Ordered
    <3>2. QED
      BY <1>0, <2>0, <3>1 DEF Between
  <2>2. QED
    BY <1>0, <2>1 DEF Ordered
<1>3. Slots'
  <2>1. ASSUME NEW k \in DOMAIN block, NEW i \in 0 .. block[k].size - 1
        PROVE  (block[k].data[i] # Nothing <=> Holds(k, i))'
    <3>1. block[k].data[i] # Nothing <=> Holds(k, i)
      BY DEF IInv, Slots
    <3>2. Inside(k, i)' <=> Inside(k, i)
      BY <1>0 DEF Inside
    <3>3. block'[k].data[i] = IF op # "peek" /\ k = cblock /\ i = f THEN Nothing ELSE block[k].data[i]
      BY <1>d
    <3>4. CASE op = "peek"
      BY <1>0, <3>1, <3>4 DEF Holds, Inside
    <3>5. CASE op # "peek"
      <4>1. consumer = "read" /\ consumer' = "release"
        BY <1>0, <3>5
      <4>2. CASE k = cblock /\ i = f
        BY <1>0, <1>e, <1>g, <3>3, <3>5, <4>1, <4>2 DEF Holds
      <4>3. CASE ~(k = cblock /\ i = f)
        BY <1>0, <1>g, <3>1, <3>2, <3>3, <4>1, <4>3 DEF Holds
      <4>4. QED
        BY <4>2, <4>3
    <3>6. QED
      BY <3>4, <3>5
  <2>2. QED
    BY <1>0, <2>1 DEF Slots
<1>4. ProducerKnows'
  BY <1>0 DEF IInv, Typed, Sized, ProducerKnows, After
<1>5. ConsumerKnows'
  BY <1>0, <1>e, <1>g DEF IInv, Typed, Sized, ConsumerKnows
<1>6. RingOrder'
  <2>1. PICK at, pos : Order(at, pos) /\ Filled(pos) /\ Ahead(pos)
    BY DEF IInv, RingOrder
  <2>2. Linked' = Linked /\ Linked \in Nat /\ \A k \in 1 .. Linked : k \in DOMAIN block
    BY <1>0 DEF Linked, IInv, Typed, ProducerKnows
  <2>3. Order(at, pos)'
    BY <1>0, <2>1, <2>2, OrderStays DEF Order, IInv, Typed
  <2>4. Filled(pos)'
    BY <1>0, <2>1, <2>2, FilledStays DEF IInv, Typed
  <2>5. Ahead(pos)'
    BY <1>0, <2>1, <2>2 DEF Order, Ahead, IInv, Typed
  <2>6. QED
    BY <2>3, <2>4, <2>5 DEF RingOrder
<1>7. QED
  BY <1>1, <1>2, <1>3, <1>4, <1>5, <1>6 DEF IInv


LEMMA ReleaseKeeps == ASSUME IInv, Release, UNCHANGED <<maxSize, freed>> PROVE IInv'
<1> DEFINE c == frontBlock
           f == block[c].front
           e == After(c, f)
<1>a. /\ consumer = "release" /\ cblock = c /\ c \in DOMAIN block /\ Typed /\ f # block[c].localTail
      /\ f \in 0 .. block[c].size - 1 /\ block[c].size \in Nat
  BY DEF IInv, Typed, Sized, Release, ConsumerKnows
<1>b. e = (IF f + 1 = block[c].size THEN 0 ELSE f + 1) /\ e \in 0 .. block[c].size - 1 /\ e # f
  BY <1>a, AfterIs
<1> HIDE DEF e
<1>0. /\ consumer = "release"
      /\ block' \in Seq(BlockTypes) /\ Len(block') = Len(block) /\ DOMAIN block' = DOMAIN block
      /\ \A k \in DOMAIN block :
           /\ block'[k].localTail = block[k].localTail /\ block'[k].tail = block[k].tail
           /\ block'[k].localFront = block[k].localFront
           /\ block'[k].next = block[k].next /\ block'[k].size = block[k].size
           /\ block'[k].data = block[k].data
           /\ block'[k].front = IF k = c THEN e ELSE block[k].front
      /\ consumer' = "idle" /\ op' = "none"
      /\ UNCHANGED <<frontBlock, tailBlock, largest, producer, pblock, full, cblock, result, empty,
                     maxSize, freed>>
  <2>1. block' = [block EXCEPT ![c].front = e] /\ block \in Seq(BlockTypes) /\ e \in Nat
    BY <1>a, <1>b DEF Release, e, IInv, Typed
  <2>2. QED
    BY <1>a, <2>1, SetFront DEF Release, producerVars
<1>c. /\ block[c].tail \in 0 .. block[c].size - 1 /\ block[c].localFront \in 0 .. block[c].size - 1
      /\ block[c].localTail \in 0 .. block[c].size - 1
  BY <1>a DEF Typed, Sized
<1>d. /\ f # block[c].tail
      /\ Between(block[c].localFront, e, block[c].tail)
      /\ Between(e, block[c].localTail, block[c].tail)
  <2>1. /\ Between(block[c].localFront, f, block[c].tail)
        /\ Between(f, block[c].localTail, block[c].tail)
    BY <1>a DEF IInv, Ordered
  <2>2. QED
    BY <1>a, <1>b, <1>c, <2>1 DEF Between
<1>r. PICK at, pos : Order(at, pos) /\ Filled(pos) /\ Ahead(pos)
  BY DEF IInv, RingOrder
<1>s. Linked' = Linked /\ Linked \in Nat /\ (\A k \in 1 .. Linked : k \in DOMAIN block) /\ c \in 1 .. Linked
      /\ (producer = "link" => pblock = Linked + 1)
  BY <1>0, <1>a, <1>r DEF Linked, IInv, Typed, ProducerKnows, Order
<1>t. pos[c] = 0 /\ pos[tailBlock] \in Nat
  BY <1>r, <1>s DEF Order
<1>g. producer \in {"setTail", "link"} => pblock # c
  BY <1>r, <1>s, <1>t DEF Ahead
<1>1. Typed'
  <2>1. ASSUME NEW k \in DOMAIN block PROVE Sized(k)'
    BY <1>0, <1>b DEF IInv, Typed, Sized
  <2>2. QED
    BY <1>0, <2>1 DEF IInv, Typed, Operations, ProducerPlaces, ConsumerPlaces
<1>2. Ordered'
  <2>0. ASSUME NEW k \in DOMAIN block
        PROVE  /\ block[k].front \in Nat /\ block[k].tail \in Nat
               /\ block[k].localFront \in Nat /\ block[k].localTail \in Nat
    BY DEF IInv, Typed, Sized
  <2>1. ASSUME NEW k \in DOMAIN block
        PROVE  (Between(block[k].localFront, block[k].front, block[k].tail)
                /\ Between(block[k].front, block[k].localTail, block[k].tail))'
    <3>1. /\ Between(block[k].localFront, block[k].front, block[k].tail)
          /\ Between(block[k].front, block[k].localTail, block[k].tail)
      BY DEF IInv, Ordered
    <3>2. QED
      BY <1>0, <2>0, <3>1, <1>d DEF Between
  <2>2. QED
    BY <1>0, <2>1 DEF Ordered
<1>3. Slots'
  <2>1. ASSUME NEW k \in DOMAIN block, NEW i \in 0 .. block[k].size - 1
        PROVE  Holds(k, i)' <=> Holds(k, i)
    <3>1. CASE k # c
      BY <1>0, <1>a, <3>1 DEF Holds, Inside
    <3>2. CASE k = c
      <4>1. Inside(k, i)' <=> (Inside(k, i) /\ i # f)
        <5>1. block'[k].front = e /\ block'[k].tail = block[c].tail /\ i \in 0 .. block[c].size - 1
          BY <1>0, <3>2
        <5>2. QED
          BY <1>a, <1>b, <1>c, <1>d, <3>2, <5>1 DEF Inside
      <4>2. block'[k].tail = block[k].tail
        BY <1>0
      <4>3. QED
        BY <1>0, <1>a, <3>2, <4>1, <4>2 DEF Holds
    <3>3. QED
      BY <3>1, <3>2
  <2>2. QED
    BY <1>0, <2>1 DEF IInv, Slots
<1>4. ProducerKnows'
  BY <1>0, <1>g DEF IInv, Typed, Sized, ProducerKnows, After
<1>5. ConsumerKnows'
  BY <1>0 DEF IInv, Typed, Sized, ConsumerKnows
<1>6. RingOrder'
  <2>3. Order(at, pos)'
    BY <1>0, <1>r, <1>s, OrderStays DEF Order, IInv, Typed
  <2>4. Filled(pos)'
    <3>1. ASSUME NEW k \in 1 .. Linked
          PROVE  /\ 1 <= pos[k] /\ pos[k] <= pos[tailBlock] => ~IsEmpty(k)'
                 /\ pos[tailBlock] < pos[k] /\ ~(producer = "setTail" /\ k = pblock) => IsEmpty(k)'
      <4>1. CASE k = c
        BY <1>t, <4>1
      <4>2. CASE k # c
        BY <1>0, <1>r, <1>s, <4>2 DEF Filled
      <4>3. QED
        BY <4>1, <4>2
    <3>2. QED
      BY <1>0, <1>s, <3>1 DEF Filled
  <2>5. Ahead(pos)'
    BY <1>0, <1>r, <1>s DEF Ahead
  <2>6. QED
    BY <2>3, <2>4, <2>5 DEF RingOrder
<1>7. QED
  BY <1>1, <1>2, <1>3, <1>4, <1>5, <1>6 DEF IInv


-----------------------------------------------------------------------------
(* The destructor.                                                         *)

\* The slots from front to tail, counted and compared.
LEMMA OccupiedIsInside ==
  ASSUME Typed, NEW k \in DOMAIN block
  PROVE  /\ Occupied(k) \subseteq 0 .. block[k].size - 1
         /\ \A i \in 0 .. block[k].size - 1 : i \in Occupied(k) <=> Inside(k, i)
<1>1. PICK s \in Nat, f \in Nat, t \in Nat :
        /\ s >= 2 /\ f \in 0 .. s - 1 /\ t \in 0 .. s - 1
        /\ s = block[k].size /\ f = block[k].front /\ t = block[k].tail
  <2>1. Sized(k)
    BY DEF Typed
  <2>2. QED
    BY <2>1 DEF Sized
<1>2. \A x \in Nat : x < s => x % s = x
  BY <1>1
<1>3. \A x \in Nat : s <= x /\ x < s + s => x % s = x - s
  BY <1>1
<1>4. PICK c \in 0 .. s - 1 : c = (t - f) % s /\ c = IF f <= t THEN t - f ELSE t - f + s
  <2>1. (t - f) % s = IF f <= t THEN t - f ELSE t - f + s
    BY <1>1
  <2>2. QED
    BY <1>1, <2>1
<1>5. Count(k) = c
  BY <1>1, <1>4 DEF Count
<1>6. ASSUME NEW j \in 0 .. s - 1
      PROVE  Slot(k, j) = (IF f + j < s THEN f + j ELSE f + j - s) /\ Slot(k, j) \in 0 .. s - 1
  <2>1. Slot(k, j) = (f + j) % s
    BY <1>1 DEF Slot
  <2>2. CASE f + j < s
    BY <1>1, <1>2, <2>1, <2>2
  <2>3. CASE f + j >= s
    BY <1>1, <1>3, <2>1, <2>3
  <2>4. QED
    BY <1>1, <2>2, <2>3
<1>7. Occupied(k) = {Slot(k, j) : j \in 0 .. c - 1}
  BY <1>5 DEF Occupied
<1>8. ASSUME NEW i \in 0 .. s - 1 PROVE i \in Occupied(k) <=> Inside(k, i)
  <2>1. Inside(k, i) <=> (f <= i /\ i < t) \/ (t < f /\ (f <= i \/ i < t))
    BY <1>1 DEF Inside
  <2>2. ASSUME i \in Occupied(k) PROVE Inside(k, i)
    <3>1. PICK j \in 0 .. c - 1 : i = Slot(k, j)
      BY <1>7, <2>2
    <3>2. j \in 0 .. s - 1 /\ j < c
      BY <1>4, <3>1
    <3>3. i = IF f + j < s THEN f + j ELSE f + j - s
      BY <1>6, <3>1, <3>2
    <3>4. QED
      BY <1>1, <1>4, <2>1, <3>2, <3>3
  <2>3. ASSUME Inside(k, i) PROVE i \in Occupied(k)
    <3>1. PICK j \in 0 .. c - 1 : j = IF f <= i THEN i - f ELSE i - f + s
      BY <1>1, <1>4, <2>1, <2>3
    <3>2. j \in 0 .. s - 1
      BY <1>4, <3>1
    <3>3. Slot(k, j) = i
      BY <1>1, <1>6, <3>1, <3>2
    <3>4. QED
      BY <1>7, <3>1, <3>3
  <2>4. QED
    BY <2>2, <2>3
<1>9. Occupied(k) \subseteq 0 .. s - 1
  <2>1. \A j \in 0 .. c - 1 : j \in 0 .. s - 1
    BY <1>4
  <2>2. QED
    BY <1>6, <1>7, <2>1
<1>10. QED
  BY <1>1, <1>8, <1>9

\* The walk round the ring, as a property of the function that records it.
Walked(path) ==
  path = [i \in 0 .. Len(block) |-> IF i = 0 THEN frontBlock ELSE block[path[i - 1]].next]

\* There is one walk, and it meets every block that is linked.
LEMMA WalkIsOnRing ==
  ASSUME IInv
  PROVE  OnRing = 1 .. Linked
<1>1. PICK at, pos : Order(at, pos)
  BY DEF IInv, RingOrder
<1>2. PICK L \in Nat \ {0}, n \in Nat \ {0} : L = Linked /\ n = Len(block) /\ (n = L \/ n = L + 1)
  <2>1. Len(block) \in Nat /\ Len(block) >= 1
    BY DEF IInv, Typed
  <2>2. producer = "link" => Len(block) >= 2
    BY DEF IInv, ProducerKnows
  <2>3. QED
    BY <2>1, <2>2 DEF Linked
<1>3. /\ at \in [0 .. L - 1 -> 1 .. L] /\ pos \in [1 .. L -> 0 .. L - 1]
      /\ \A i \in 0 .. L - 1 : pos[at[i]] = i
      /\ \A k \in 1 .. L : at[pos[k]] = k
      /\ at[0] = frontBlock
  BY <1>1, <1>2 DEF Order
<1>4. ASSUME NEW i \in 0 .. L - 1
      PROVE  (i = L - 1 => block[at[i]].next = at[0]) /\ (i # L - 1 => block[at[i]].next = at[i + 1])
  BY <1>1, <1>2 DEF Order
<1>5. PICK walk : walk = [i \in 0 .. n |-> at[i % L]]
  OBVIOUS
<1>6. /\ \A i \in 0 .. n : i % L \in 0 .. L - 1
      /\ \A i \in 0 .. L - 1 : i % L = i
      /\ L % L = 0
  BY <1>2
<1>7. \A i \in 0 .. n - 1 : (i + 1) % L = IF i % L = L - 1 THEN 0 ELSE (i % L) + 1
  BY <1>2
<1>8. ASSUME NEW i \in 0 .. n - 1 PROVE block[walk[i]].next = walk[i + 1]
  <2>1. PICK r \in 0 .. L - 1 : r = i % L /\ (i + 1) % L = IF r = L - 1 THEN 0 ELSE r + 1
    <3>1. i \in 0 .. n
      OBVIOUS
    <3>2. i % L \in 0 .. L - 1 /\ (i + 1) % L = IF i % L = L - 1 THEN 0 ELSE (i % L) + 1
      BY <1>6, <1>7, <3>1
    <3>3. QED
      BY <3>2
  <2>2. walk[i] = at[r] /\ walk[i + 1] = at[(i + 1) % L]
    BY <1>5, <2>1
  <2>3. CASE r = L - 1
    BY <1>4, <2>1, <2>2, <2>3
  <2>4. CASE r # L - 1
    BY <1>4, <2>1, <2>2, <2>4
  <2>5. QED
    BY <2>3, <2>4
<1>9. walk[0] = frontBlock
  BY <1>3, <1>5, <1>6
<1>10. Walked(walk)
  <2>1. ASSUME NEW i \in 0 .. n PROVE walk[i] = IF i = 0 THEN frontBlock ELSE block[walk[i - 1]].next
    <3>1. CASE i = 0
      BY <1>9, <3>1
    <3>2. CASE i # 0
      <4>1. PICK j \in 0 .. n - 1 : i = j + 1 /\ i - 1 = j
        BY <1>2, <3>2
      <4>2. QED
        BY <1>8, <3>2, <4>1
    <3>3. QED
      BY <3>1, <3>2
  <2>2. walk = [i \in 0 .. n |-> IF i = 0 THEN frontBlock ELSE block[walk[i - 1]].next]
    BY <1>5, <2>1
  <2>3. QED
    BY <1>2, <2>2 DEF Walked
<1>11. ASSUME NEW path, Walked(path), NEW i \in 0 .. n PROVE path[i] = walk[i]
  <2> DEFINE D == {j \in 0 .. n : path[j] # walk[j]}
  <2>1. \A j \in 0 .. n : path[j] = IF j = 0 THEN frontBlock ELSE block[path[j - 1]].next
    BY <1>2, <1>11 DEF Walked
  <2>2. SUFFICES ASSUME D # {} PROVE FALSE
    OBVIOUS
  <2>3. PICK x \in D : \A y \in D : x <= y
    <3>1. D \subseteq Nat
      BY <1>2
    <3>2. QED
      BY <2>2, <3>1, LeastSize
  <2>4. x # 0
    BY <1>9, <2>1, <2>3
  <2>5. PICK y \in 0 .. n - 1 : x = y + 1 /\ x - 1 = y
    BY <1>2, <2>3, <2>4
  <2>6. path[y] = walk[y]
    BY <1>2, <2>3, <2>5
  <2>7. path[x] = block[walk[y]].next
    BY <2>1, <2>3, <2>4, <2>5, <2>6
  <2>8. QED
    BY <1>8, <2>3, <2>5, <2>7
<1>12. OnRing = {walk[i] : i \in 1 .. n}
  <2> DEFINE path == CHOOSE p : Walked(p)
  <2>1. Walked(path)
    BY <1>10, Zenon
  <2>2. \A i \in 0 .. n : path[i] = walk[i]
    BY <1>11, <2>1
  <2>3. OnRing = {path[i] : i \in 1 .. Len(block)}
    BY DEF OnRing, Walked
  <2> HIDE DEF path
  <2>4. \A i \in 1 .. n : i \in 0 .. n
    OBVIOUS
  <2>5. QED
    BY <1>2, <2>2, <2>3, <2>4
<1>13. \A i \in 1 .. n : walk[i] \in 1 .. L
  <2>1. \A i \in 1 .. n : i \in 0 .. n
    OBVIOUS
  <2>2. QED
    BY <1>3, <1>5, <1>6, <2>1
<1>14. ASSUME NEW k \in 1 .. L PROVE \E i \in 1 .. n : walk[i] = k
  <2>1. PICK r \in 0 .. L - 1 : at[r] = k
    BY <1>3
  <2>2. CASE r = 0
    <3>1. L \in 1 .. n /\ walk[L] = at[0]
      BY <1>2, <1>5, <1>6
    <3>2. QED
      BY <2>1, <2>2, <3>1
  <2>3. CASE r # 0
    <3>1. r \in 1 .. n /\ r \in 0 .. n /\ walk[r] = at[r]
      BY <1>2, <1>5, <1>6, <2>1, <2>3
    <3>2. QED
      BY <2>1, <3>1
  <2>4. QED
    BY <2>2, <2>3
<1>15. QED
  BY <1>2, <1>12, <1>13, <1>14


LEMMA DestroyKeeps == ASSUME IInv, Destroy, UNCHANGED maxSize PROVE IInv'
<1>a. /\ producer = "idle" /\ consumer = "idle" /\ Linked = Len(block) /\ OnRing = DOMAIN block
      /\ block \in Seq(BlockTypes) /\ Len(block) \in Nat /\ DOMAIN block = 1 .. Len(block) /\ Typed
  <2>1. producer = "idle" /\ consumer = "idle"
    BY DEF Destroy
  <2>2. block \in Seq(BlockTypes) /\ Len(block) \in Nat /\ DOMAIN block = 1 .. Len(block) /\ Typed
    BY DEF IInv, Typed
  <2>3. QED
    BY <2>1, <2>2, WalkIsOnRing DEF Linked
<1> DEFINE data(k) == [i \in DOMAIN block[k].data |->
                         IF k \in OnRing /\ i \in Occupied(k) THEN Nothing ELSE block[k].data[i]]
<1>b. ASSUME NEW k \in DOMAIN block
      PROVE  /\ data(k) \in [0 .. block[k].size - 1 -> Values \cup {Nothing}]
             /\ \A i \in 0 .. block[k].size - 1 : data(k)[i] = Nothing
  <2>1. block[k].data \in [0 .. block[k].size - 1 -> Values \cup {Nothing}]
    BY <1>a DEF Typed, Sized
  <2>2. ASSUME NEW i \in 0 .. block[k].size - 1
        PROVE  (IF k \in OnRing /\ i \in Occupied(k) THEN Nothing ELSE block[k].data[i]) = Nothing
    <3>1. i \in Occupied(k) <=> Inside(k, i)
      BY <1>a, OccupiedIsInside
    <3>2. block[k].data[i] # Nothing <=> Inside(k, i)
      BY <1>a DEF IInv, Slots, Holds
    <3>3. QED
      BY <1>a, <3>1, <3>2
  <2>3. QED
    BY <2>1, <2>2
<1>c. ASSUME NEW k \in DOMAIN block
      PROVE  /\ block'[k] = [block[k] EXCEPT !.data = data(k)]
             /\ block'[k] \in BlockTypes
             /\ block'[k].front = block[k].front /\ block'[k].localTail = block[k].localTail
             /\ block'[k].tail = block[k].tail /\ block'[k].localFront = block[k].localFront
             /\ block'[k].next = block[k].next /\ block'[k].size = block[k].size
             /\ block'[k].data = data(k)
  <2>1. block'[k] = [block[k] EXCEPT !.data = data(k)]
    BY DEF Destroy
  <2>2. block[k] \in BlockTypes
    BY <1>a
  <2>3. data(k) \in Slotted
    <3>1. block[k].size \in Nat
      BY <1>a DEF Typed, Sized
    <3>2. QED
      BY <1>b, <3>1 DEF Slotted
  <2> HIDE DEF data
  <2>4. QED
    BY <2>1, <2>2, <2>3 DEF BlockTypes
<1>d. block' \in Seq(BlockTypes) /\ Len(block') = Len(block) /\ DOMAIN block' = DOMAIN block
  <2>1. DOMAIN block' = DOMAIN block
    BY DEF Destroy
  <2>2. block' = [k \in 1 .. Len(block) |-> block'[k]]
    BY <1>a DEF Destroy
  <2>3. block' \in [1 .. Len(block) -> BlockTypes]
    BY <1>a, <1>c, <2>2
  <2>4. QED
    BY <1>a, <2>1, <2>3
<1>0. /\ consumer' = "destroyed" /\ producer' = "destroyed" /\ op' = "destroyed" /\ freed' = DOMAIN block
      /\ UNCHANGED <<frontBlock, tailBlock, largest, pblock, full, cblock, result, empty, maxSize>>
      /\ DOMAIN block' = DOMAIN block
      /\ \A k \in DOMAIN block :
           /\ block'[k].front = block[k].front /\ block'[k].localTail = block[k].localTail
           /\ block'[k].tail = block[k].tail /\ block'[k].localFront = block[k].localFront
           /\ block'[k].next = block[k].next /\ block'[k].size = block[k].size
  BY <1>a, <1>c, <1>d DEF Destroy
<1>1. Typed'
  <2>1. ASSUME NEW k \in DOMAIN block PROVE Sized(k)'
    <3>1. Sized(k)
      BY <1>a DEF Typed
    <3>2. block'[k].data \in [0 .. block[k].size - 1 -> Values \cup {Nothing}]
      BY <1>b, <1>c
    <3>3. QED
      BY <1>0, <3>1, <3>2 DEF Sized
  <2>2. QED
    BY <1>0, <1>a, <1>d, <2>1 DEF Typed, ProducerPlaces, ConsumerPlaces
<1>2. Ordered'
  <2>0. ASSUME NEW k \in DOMAIN block
        PROVE  /\ block[k].front \in Nat /\ block[k].tail \in Nat
               /\ block[k].localFront \in Nat /\ block[k].localTail \in Nat
    BY DEF IInv, Typed, Sized
  <2>1. ASSUME NEW k \in DOMAIN block
        PROVE  (Between(block[k].localFront, block[k].front, block[k].tail)
                /\ Between(block[k].front, block[k].localTail, block[k].tail))'
    <3>1. /\ Between(block[k].localFront, block[k].front, block[k].tail)
          /\ Between(block[k].front, block[k].localTail, block[k].tail)
      BY DEF IInv, Ordered
    <3>2. QED
      BY <1>0, <2>0, <3>1 DEF Between
  <2>2. QED
    BY <1>0, <2>1 DEF Ordered
<1>3. Slots'
  <2>1. ASSUME NEW k \in DOMAIN block, NEW i \in 0 .. block[k].size - 1 PROVE block'[k].data[i] = Nothing
    <3>1. block'[k].data = data(k) /\ data(k)[i] = Nothing
      BY <1>b, <1>c
    <3> HIDE DEF data
    <3>2. QED
      BY <3>1
  <2>2. ASSUME NEW k, NEW i PROVE ~ Holds(k, i)'
    BY <1>0 DEF Holds
  <2>3. QED
    BY <1>0, <2>1, <2>2 DEF Slots
<1>4. ProducerKnows'
  BY <1>0 DEF IInv, Typed, Sized, ProducerKnows, After
<1>5. ConsumerKnows'
  BY <1>0 DEF IInv, Typed, Sized, ConsumerKnows
<1>6. RingOrder'
  <2>1. PICK at, pos : Order(at, pos) /\ Filled(pos) /\ Ahead(pos)
    BY DEF IInv, RingOrder
  <2>2. Linked' = Linked /\ Linked \in Nat /\ \A k \in 1 .. Linked : k \in DOMAIN block
    BY <1>0, <1>a, <1>d DEF Linked
  <2>3. Order(at, pos)'
    BY <1>0, <2>1, <2>2, OrderStays DEF Order, IInv, Typed
  <2>4. Filled(pos)'
    BY <1>0, <1>a, <2>1, <2>2, FilledStays
  <2>5. Ahead(pos)'
    BY <1>0, <2>1, <2>2 DEF Order, Ahead, IInv, Typed
  <2>6. QED
    BY <2>3, <2>4, <2>5 DEF RingOrder
<1>7. QED
  BY <1>1, <1>2, <1>3, <1>4, <1>5, <1>6 DEF IInv


-----------------------------------------------------------------------------
(* The theorems.                                                           *)

LEMMA StaysAsItWas == ASSUME IInv, UNCHANGED vars PROVE IInv'
<1>1. UNCHANGED <<maxSize, block, frontBlock, tailBlock, largest, producer, pblock, full, consumer, op, cblock,
                  result, empty, freed>>
  BY DEF vars, producerVars, consumerVars
<1>2. Typed' /\ Ordered' /\ ProducerKnows' /\ ConsumerKnows'
  <2>1. Typed'
    BY <1>1 DEF IInv, Typed, Sized, ProducerPlaces, ConsumerPlaces
  <2>2. Ordered'
    BY <1>1 DEF IInv, Ordered, Between
  <2>3. ProducerKnows' /\ ConsumerKnows'
    BY <1>1 DEF IInv, ProducerKnows, ConsumerKnows, After
  <2>4. QED
    BY <2>1, <2>2, <2>3
<1>3. Slots'
  BY <1>1 DEF IInv, Slots, Holds, Inside
<1>4. RingOrder'
  <2>1. PICK at, pos : Order(at, pos) /\ Filled(pos) /\ Ahead(pos)
    BY DEF IInv, RingOrder
  <2>2. Linked' = Linked
    BY <1>1 DEF Linked
  <2>3. Order(at, pos)' /\ Filled(pos)' /\ Ahead(pos)'
    BY <1>1, <2>1, <2>2 DEF Order, Filled, Ahead
  <2>4. QED
    BY <2>3 DEF RingOrder
<1>5. QED
  BY <1>2, <1>3, <1>4 DEF IInv

LEMMA NextIInv == ASSUME IInv, [Next]_vars PROVE IInv'
<1>1. CASE Producer /\ UNCHANGED <<maxSize, freed>>
  BY <1>1, EnqueueKeeps, LoadFrontKeeps, CheckNextKeeps, LoadNextFrontKeeps, WriteKeeps, PublishKeeps,
     AllocFailsKeeps, AllocKeeps, LinkKeeps, SetTailKeeps DEF Producer
<1>2. CASE Consumer /\ UNCHANGED <<maxSize, freed>>
  BY <1>2, DequeueKeeps, LoadTailKeeps, ReloadTailKeeps, CheckTailKeeps, LoadNextKeeps, LoadNextTailKeeps,
     AdvanceKeeps, ReadKeeps, ReleaseKeeps DEF Consumer
<1>3. CASE Destroy /\ UNCHANGED maxSize
  BY <1>3, DestroyKeeps
<1>4. CASE UNCHANGED vars
  BY <1>4, StaysAsItWas
<1>5. QED
  BY <1>1, <1>2, <1>3, <1>4 DEF Next

\* The invariant that the others follow from holds of every ring and every
\* interleaving of the two threads.
THEOREM RingSafe == Spec => []IInv
  BY InitIInv, NextIInv, PTL DEF Spec

\* Whatever the sizes and the elements, indices and pointers stay in range, of
\* the blocks that enqueue makes as well (readerwriterqueue.h:144-573).
THEOREM RingTypeCorrect == Spec => []TypeOK
<1>1. IInv => TypeOK
  <2> SUFFICES ASSUME IInv PROVE TypeOK
    OBVIOUS
  <2>1. \A k \in DOMAIN block :
          /\ block[k].size \in Powers
          /\ \A i \in {block[k].front, block[k].localTail, block[k].tail, block[k].localFront} :
               i \in 0 .. block[k].size - 1
          /\ block[k].next \in DOMAIN block
          /\ block[k].data \in [0 .. block[k].size - 1 -> Values \union {Nothing}]
    BY DEF IInv, Typed, Sized
  <2>2. QED
    BY <2>1 DEF IInv, Typed, TypeOK, ProducerPlaces, ConsumerPlaces
<1>2. QED
  BY <1>1, RingSafe, PTL

\* For blocks of any size and any number of them, the producer constructs an
\* element only in a slot without one and the consumer destroys each element
\* once, whatever indices they last saw of each other; the destructor leaves
\* none.
THEOREM SlotsLiveOnce == Spec => []SlotLife
<1>1. IInv => SlotLife
  <2> SUFFICES ASSUME IInv, NEW k \in DOMAIN block
               PROVE  LET held    == IF consumer = "destroyed" THEN {} ELSE Occupied(k)
                          added   == IF producer = "publish" /\ pblock = k THEN {block[k].tail} ELSE {}
                          removed == IF consumer = "release" /\ cblock = k THEN {block[k].front} ELSE {}
                      IN  {i \in DOMAIN block[k].data : block[k].data[i] # Nothing} =
                            (held \ removed) \union added
    BY DEF SlotLife
  <2> DEFINE held    == IF consumer = "destroyed" THEN {} ELSE Occupied(k)
             added   == IF producer = "publish" /\ pblock = k THEN {block[k].tail} ELSE {}
             removed == IF consumer = "release" /\ cblock = k THEN {block[k].front} ELSE {}
  <2>1. Typed /\ Sized(k)
    BY DEF IInv, Typed
  <2>2. DOMAIN block[k].data = 0 .. block[k].size - 1 /\ block[k].tail \in 0 .. block[k].size - 1
    BY <2>1 DEF Sized
  <2>3. /\ Occupied(k) \subseteq 0 .. block[k].size - 1
        /\ \A i \in 0 .. block[k].size - 1 : i \in Occupied(k) <=> Inside(k, i)
    BY <2>1, OccupiedIsInside
  <2>4. \A i \in 0 .. block[k].size - 1 : block[k].data[i] # Nothing <=> Holds(k, i)
    BY DEF IInv, Slots
  <2>5. ASSUME NEW i \in 0 .. block[k].size - 1 PROVE Holds(k, i) <=> i \in (held \ removed) \union added
    BY <2>3 DEF Holds
  <2>6. (held \ removed) \union added \subseteq 0 .. block[k].size - 1
    BY <2>2, <2>3
  <2> HIDE DEF held, added, removed
  <2>7. {i \in DOMAIN block[k].data : block[k].data[i] # Nothing} = (held \ removed) \union added
    BY <2>2, <2>4, <2>5, <2>6
  <2>8. QED
    BY <2>7 DEF held, added, removed
<1>2. QED
  BY <1>1, RingSafe, PTL

\* assert(nextBlockFront != nextBlockTail), line 299, for rings of any length.
THEOREM NextBlockHasElement == Spec => []NextHasElement
<1>1. IInv => NextHasElement
  <2> SUFFICES ASSUME IInv, consumer = "loadNextTail" PROVE ~IsEmpty(cblock)
    BY DEF NextHasElement
  <2>1. PICK at, pos : Order(at, pos) /\ Filled(pos) /\ Ahead(pos)
    BY DEF IInv, RingOrder
  <2>2. pos[cblock] = 1 /\ 1 <= pos[tailBlock] /\ cblock \in 1 .. Linked
    BY <2>1 DEF Order, Ahead
  <2>3. QED
    BY <2>1, <2>2 DEF Filled
<1>2. QED
  BY <1>1, RingSafe, PTL

\* assert(nextBlockFront == nextBlockTail), line 506, for rings of any length.
THEOREM NextBlockIsEmpty == Spec => []NextIsEmpty
<1>1. IInv => NextIsEmpty
  BY DEF IInv, ProducerKnows, NextIsEmpty
<1>2. QED
  BY <1>1, RingSafe, PTL

\* Wherever blocks are linked into the ring while the consumer goes round it,
\* it stays one ring of all blocks, and the destructor frees every one.
THEOREM OneRing == Spec => []Ring
<1>1. IInv => Ring
  BY WalkIsOnRing DEF IInv, Typed, Ring, Linked
<1>2. QED
  BY <1>1, RingSafe, PTL
=============================================================================
