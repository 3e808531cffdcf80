-------------------------- MODULE ReaderWriterQueue -------------------------
(***************************************************************************)
(* moodycamel::ReaderWriterQueue of src/include/readerwriterqueue.h: a     *)
(* ring of blocks, each a circular buffer.  The producer owns tailBlock    *)
(* and the tails, the consumer owns frontBlock and the fronts; each reads  *)
(* what the other owns without a lock and keeps a copy of the index it     *)
(* read last.  One action is one access to something the other thread      *)
(* owns, or a publication of something this thread owns.                   *)
(*                                                                         *)
(* Blocks are numbered in the order they are made.  The memory model is    *)
(* sequential consistency.                                                 *)
(***************************************************************************)
EXTENDS Integers, Sequences

CONSTANTS
  Values,        \* the elements
  MaxSizes,      \* values of the constructor's argument maxSize
  MaxBlockSize,  \* MAX_BLOCK_SIZE
  Powers,        \* the powers of two, as far as the sizes need them
  BlockLimit,    \* BlockLimit[maxSize]: bound, there are never more blocks
  Nothing        \* what a slot without a constructed element holds

ASSUME SizeAssumption ==
  /\ MaxSizes \subseteq Nat \ {0}
  /\ Powers \subseteq Nat \ {0}
  /\ \A n \in MaxSizes : \E p \in Powers : p >= n + 1
  /\ \A p \in Powers : p < MaxBlockSize => p * 2 \in Powers
  /\ MaxBlockSize \in Powers \ {1}
  /\ BlockLimit \in [MaxSizes -> Nat]
  /\ Nothing \notin Values

VARIABLES
  maxSize,     \* the constructor's argument
  block,       \* the blocks: their fields, and their next pointers
  frontBlock,
  tailBlock,
  largest,     \* largestBlockSize
  producer,    \* where the producer stands in inner_enqueue
  pblock,      \* tailBlock_, tailBlockNext or newBlock
  consumer,    \* where the consumer stands in try_dequeue, pop or peek
  op,          \* its operation, "none" between two calls
  cblock,      \* frontBlock_ or nextBlock
  result,      \* what try_dequeue or peek delivered last
  full,        \* history: the enqueue has met maxSize elements
  empty,       \* history: the dequeue has met none
  freed        \* the blocks the destructor has freed

producerVars == <<producer, pblock, full>>
consumerVars == <<consumer, op, cblock, result, empty>>
vars == <<maxSize, block, frontBlock, tailBlock, largest, producerVars, consumerVars, freed>>

-----------------------------------------------------------------------------
(* Blocks.                                                                 *)

\* The least power of two that is not below x.
CeilToPow2(x) == CHOOSE p \in Powers : p >= x /\ \A q \in Powers : q >= x => p <= q

NewBlock(size, next) ==
  [front |-> 0, localTail |-> 0, tail |-> 0, localFront |-> 0, next |-> next,
   size |-> size, data |-> [i \in 0 .. size - 1 |-> Nothing]]

\* Faulty: the index is not masked.
AfterUnmasked(k, i) == i + 1

\* The slot behind slot i.
After(k, i) == (i + 1) % block[k].size

\* Faulty: room up to the last slot, so that full looks like empty.
HasRoomOffByOne(k) == block[k].tail # block[k].localFront

HasElement(k) == block[k].front # block[k].localTail
HasRoom(k)    == After(k, block[k].tail) # block[k].localFront

\* The slots from front to tail.
Count(k)    == (block[k].tail - block[k].front) % block[k].size
Slot(k, i)  == (block[k].front + i) % block[k].size
Occupied(k) == {Slot(k, i) : i \in 0 .. Count(k) - 1}

\* Nothing stands for an element that is destroyed but whose slot is not
\* released yet.
Elements(k) == [i \in 1 .. Count(k) |-> block[k].data[Slot(k, i - 1)]]

\* What is in the queue, from the front block to the tail block.
Contents ==
  LET from[k \in DOMAIN block] ==
        Elements(k) \o IF k = tailBlock THEN <<>> ELSE from[block[k].next]
  IN  from[frontBlock]

\* Faulty: no spare block.
FirstBlocksNoSpare(n) ==
  IF CeilToPow2(n + 1) > MaxBlockSize * 2
    THEN LET count == (n + MaxBlockSize - 2) \div (MaxBlockSize - 1)
         IN  [k \in 1 .. count |-> NewBlock(MaxBlockSize, (k % count) + 1)]
    ELSE << NewBlock(CeilToPow2(n + 1), 1) >>

\* For n elements: one block that holds them, or enough blocks of
\* MAX_BLOCK_SIZE in a ring.
FirstBlocks(n) ==
  IF CeilToPow2(n + 1) > MaxBlockSize * 2
    THEN LET count == (n + MaxBlockSize * 2 - 3) \div (MaxBlockSize - 1)
         IN  [k \in 1 .. count |-> NewBlock(MaxBlockSize, (k % count) + 1)]
    ELSE << NewBlock(CeilToPow2(n + 1), 1) >>

Init ==
  /\ maxSize \in MaxSizes
  /\ block = FirstBlocks(maxSize)
  /\ frontBlock = 1 /\ tailBlock = 1
  /\ largest = block[1].size
  /\ producer = "idle" /\ pblock = 1
  /\ consumer = "idle" /\ op = "none" /\ cblock = 1 /\ result = Nothing
  /\ full = FALSE /\ empty = FALSE
  /\ freed = {}

-----------------------------------------------------------------------------
(* The producer: inner_enqueue.                                            *)

SeeFull == full' = (full \/ Len(Contents) >= maxSize)

\* What it knows already tells whether the tail block has room.
Enqueue ==
  /\ producer = "idle"
  /\ pblock' = tailBlock
  /\ producer' = IF HasRoom(tailBlock) THEN "write" ELSE "loadFront"
  /\ UNCHANGED <<block, frontBlock, tailBlock, largest, full, consumerVars>>

\* localFront = front.load()
LoadFront ==
  /\ producer = "loadFront"
  /\ block' = [block EXCEPT ![pblock].localFront = block[pblock].front]
  /\ producer' = IF After(pblock, block[pblock].tail) # block[pblock].front
                   THEN "write" ELSE "checkNext"
  /\ SeeFull
  /\ UNCHANGED <<frontBlock, tailBlock, largest, pblock, consumerVars>>

\* Faulty: the next block is taken for free if it is only another one.
CheckNextOther ==
  /\ producer = "checkNext"
  /\ IF block[tailBlock].next # tailBlock
       THEN producer' = "loadNextFront"
       ELSE producer' \in {"alloc", "idle"}
  /\ SeeFull
  /\ UNCHANGED <<block, frontBlock, tailBlock, largest, pblock, consumerVars>>

\* next.load() != frontBlock: a free block ahead.  Otherwise enqueue
\* (CanAlloc) makes a new one and try_enqueue (CannotAlloc) fails.
CheckNext ==
  /\ producer = "checkNext"
  /\ IF block[tailBlock].next # frontBlock
       THEN producer' = "loadNextFront"
       ELSE producer' \in {"alloc", "idle"}
  /\ SeeFull
  /\ UNCHANGED <<block, frontBlock, tailBlock, largest, pblock, consumerVars>>

\* Faulty: tailBlock is advanced before the block is written to.
LoadNextFrontEager ==
  /\ producer = "loadNextFront"
  /\ pblock' = block[tailBlock].next
  /\ tailBlock' = pblock'
  /\ block' = [block EXCEPT ![pblock'].localFront = block[pblock'].front]
  /\ producer' = "write"
  /\ UNCHANGED <<frontBlock, largest, full, consumerVars>>

\* tailBlockNext->localFront = tailBlockNext->front.load()
LoadNextFront ==
  /\ producer = "loadNextFront"
  /\ pblock' = block[tailBlock].next
  /\ block' = [block EXCEPT ![pblock'].localFront = block[pblock'].front]
  /\ producer' = "write"
  /\ UNCHANGED <<frontBlock, tailBlock, largest, full, consumerVars>>

\* The argument, any element, is constructed in its slot ...
Write ==
  /\ producer = "write"
  /\ \E v \in Values : block' = [block EXCEPT ![pblock].data[block[pblock].tail] = v]
  /\ producer' = "publish"
  /\ full' = FALSE
  /\ UNCHANGED <<frontBlock, tailBlock, largest, pblock, consumerVars>>

\* ... and the tail moved behind it.
Publish ==
  /\ producer = "publish"
  /\ block' = [block EXCEPT ![pblock].tail = After(pblock, @)]
  /\ producer' = IF pblock = tailBlock THEN "idle" ELSE "setTail"
  /\ UNCHANGED <<frontBlock, tailBlock, largest, pblock, full, consumerVars>>

\* make_block fails, and so does enqueue.
AllocFails ==
  /\ producer = "alloc"
  /\ producer' = "idle"
  /\ full' = FALSE
  /\ UNCHANGED <<block, frontBlock, tailBlock, largest, pblock, consumerVars>>

\* A new block that holds the element already and points to the block behind
\* the tail block.
Alloc ==
  /\ producer = "alloc"
  /\ Len(block) < BlockLimit[maxSize]
  /\ largest' = IF largest >= MaxBlockSize THEN largest ELSE largest * 2
  /\ \E v \in Values :
       block' = Append(block, [NewBlock(largest', block[tailBlock].next)
                                 EXCEPT !.data[0] = v, !.tail = 1, !.localTail = 1])
  /\ pblock' = Len(block')
  /\ producer' = "link"
  /\ full' = FALSE
  /\ UNCHANGED <<frontBlock, tailBlock, consumerVars>>

\* Faulty: linked behind the front block.
LinkBehindFront ==
  /\ producer = "link"
  /\ block' = [block EXCEPT ![frontBlock].next = pblock]
  /\ producer' = "setTail"
  /\ UNCHANGED <<frontBlock, tailBlock, largest, pblock, full, consumerVars>>

\* tailBlock_->next = newBlock
Link ==
  /\ producer = "link"
  /\ block' = [block EXCEPT ![tailBlock].next = pblock]
  /\ producer' = "setTail"
  /\ UNCHANGED <<frontBlock, tailBlock, largest, pblock, full, consumerVars>>

SetTail ==
  /\ producer = "setTail"
  /\ tailBlock' = pblock
  /\ producer' = "idle"
  /\ UNCHANGED <<block, frontBlock, largest, pblock, full, consumerVars>>

-----------------------------------------------------------------------------
(* The consumer: try_dequeue, pop and peek.                                *)

Operations == {"try_dequeue", "pop", "peek"}

\* What it knows already tells whether the front block has an element.
Dequeue ==
  /\ consumer = "idle"
  /\ op' \in Operations
  /\ cblock' = frontBlock
  /\ consumer' = IF HasElement(frontBlock) THEN "read" ELSE "loadTail"
  /\ UNCHANGED <<block, frontBlock, tailBlock, largest, producerVars, result, empty>>

\* localTail = tail.load(): done for the first time, and again once the tail
\* block has turned out to be another one.
ReadTail(here, found, otherwise) ==
  /\ consumer = here
  /\ block' = [block EXCEPT ![cblock].localTail = block[cblock].tail]
  /\ consumer' = IF block[cblock].front # block[cblock].tail THEN found ELSE otherwise
  /\ empty' = (empty \/ Contents = <<>>)
  /\ UNCHANGED <<frontBlock, tailBlock, largest, producerVars, op, cblock, result>>

LoadTail   == ReadTail("loadTail", "read", "checkTail")
ReloadTail == ReadTail("reloadTail", "read", "loadNext")

\* Faulty: the front block is not looked at again before it is left.
CheckTailOnce ==
  /\ consumer = "checkTail"
  /\ IF cblock # tailBlock
       THEN consumer' = "loadNext" /\ UNCHANGED <<op, empty>>
       ELSE consumer' = "idle" /\ op' = "none" /\ empty' = FALSE
  /\ UNCHANGED <<block, frontBlock, tailBlock, largest, producerVars, cblock, result>>

\* frontBlock_ != tailBlock.load(); otherwise the call finds nothing.
CheckTail ==
  /\ consumer = "checkTail"
  /\ IF cblock # tailBlock
       THEN consumer' = "reloadTail" /\ UNCHANGED <<op, empty>>
       ELSE consumer' = "idle" /\ op' = "none" /\ empty' = FALSE
  /\ UNCHANGED <<block, frontBlock, tailBlock, largest, producerVars, cblock, result>>

\* nextBlock = frontBlock_->next
LoadNext ==
  /\ consumer = "loadNext"
  /\ cblock' = block[frontBlock].next
  /\ consumer' = "loadNextTail"
  /\ UNCHANGED <<block, frontBlock, tailBlock, largest, producerVars, op, result, empty>>

\* nextBlock->localTail = nextBlock->tail.load(); peek only looks.
LoadNextTail ==
  /\ consumer = "loadNextTail"
  /\ IF op = "peek"
       THEN consumer' = "read" /\ UNCHANGED block
       ELSE /\ consumer' = "advance"
            /\ block' = [block EXCEPT ![cblock].localTail = block[cblock].tail]
  /\ UNCHANGED <<frontBlock, tailBlock, largest, producerVars, op, cblock, result, empty>>

\* frontBlock = nextBlock: the producer may use the old one again.
Advance ==
  /\ consumer = "advance"
  /\ frontBlock' = cblock
  /\ consumer' = "read"
  /\ UNCHANGED <<block, tailBlock, largest, producerVars, op, cblock, result, empty>>

\* The element is delivered (but not by pop) and destroyed (but not by
\* peek) ...
Read ==
  /\ consumer = "read"
  /\ result' = IF op = "pop" THEN result ELSE block[cblock].data[block[cblock].front]
  /\ IF op = "peek"
       THEN consumer' = "idle" /\ op' = "none" /\ UNCHANGED block
       ELSE /\ consumer' = "release"
            /\ block' = [block EXCEPT ![cblock].data[block[cblock].front] = Nothing]
            /\ UNCHANGED op
  /\ empty' = FALSE
  /\ UNCHANGED <<frontBlock, tailBlock, largest, producerVars, cblock>>

\* ... and the slot released.
Release ==
  /\ consumer = "release"
  /\ block' = [block EXCEPT ![cblock].front = After(cblock, @)]
  /\ consumer' = "idle"
  /\ op' = "none"
  /\ UNCHANGED <<frontBlock, tailBlock, largest, producerVars, cblock, result, empty>>

-----------------------------------------------------------------------------
(* The destructor; the user sees to it that nobody is using the queue.     *)

\* The blocks from the front block once around the ring.
OnRing ==
  LET path[i \in 0 .. Len(block)] == IF i = 0 THEN frontBlock ELSE block[path[i - 1]].next
  IN  {path[i] : i \in 1 .. Len(block)}

\* Destroys the elements from front to tail in each block and frees it.
Destroy ==
  /\ producer = "idle" /\ consumer = "idle"
  /\ block' = [k \in DOMAIN block |->
                 [block[k] EXCEPT !.data = [i \in DOMAIN @ |->
                    IF k \in OnRing /\ i \in Occupied(k) THEN Nothing ELSE @[i]]]]
  /\ freed' = OnRing
  /\ producer' = "destroyed" /\ consumer' = "destroyed" /\ op' = "destroyed"
  /\ UNCHANGED <<frontBlock, tailBlock, largest, pblock, full, cblock, result, empty>>

Producer ==
  \/ Enqueue \/ LoadFront \/ CheckNext \/ LoadNextFront \/ Write \/ Publish
  \/ AllocFails \/ Alloc \/ Link \/ SetTail
Consumer ==
  \/ Dequeue \/ LoadTail \/ CheckTail \/ ReloadTail \/ LoadNext \/ LoadNextTail
  \/ Advance \/ Read \/ Release

Next ==
  /\ UNCHANGED maxSize
  /\ \/ (Producer \/ Consumer) /\ UNCHANGED freed
     \/ Destroy

Spec == Init /\ [][Next]_vars

-----------------------------------------------------------------------------
(* Properties.                                                             *)

\* The type invariant: indices and pointers stay in range.
TypeOK ==
  /\ \A k \in DOMAIN block :
       /\ block[k].size \in Powers
       /\ \A i \in {block[k].front, block[k].localTail, block[k].tail, block[k].localFront} :
            i \in 0 .. block[k].size - 1
       /\ block[k].next \in DOMAIN block
       /\ block[k].data \in [0 .. block[k].size - 1 -> Values \union {Nothing}]
  /\ {frontBlock, tailBlock, pblock, cblock} \subseteq DOMAIN block
  /\ largest \in Powers
  /\ producer \in {"idle", "loadFront", "checkNext", "loadNextFront", "write", "publish",
                   "alloc", "link", "setTail", "destroyed"}
  /\ consumer \in {"idle", "loadTail", "checkTail", "reloadTail", "loadNext", "loadNextTail",
                   "advance", "read", "release", "destroyed"}
  /\ op \in Operations \union {"none", "destroyed"} /\ (op = "none") = (consumer = "idle")
  /\ result \in Values \union {Nothing}
  /\ {full, empty} \subseteq BOOLEAN
  /\ freed \subseteq DOMAIN block

\* An element is constructed in its slot once, where none is, and destroyed
\* once: the slots that hold one are those from front to tail, give or take
\* the slot of an enqueue that has not published it and of a dequeue that has
\* not released it.  The destructor leaves none.
SlotLife ==
  \A k \in DOMAIN block :
    LET held    == IF consumer = "destroyed" THEN {} ELSE Occupied(k)
        added   == IF producer = "publish" /\ pblock = k THEN {block[k].tail} ELSE {}
        removed == IF consumer = "release" /\ cblock = k THEN {block[k].front} ELSE {}
    IN  {i \in DOMAIN block[k].data : block[k].data[i] # Nothing} =
          (held \ removed) \union added

\* assert(nextBlockFront != nextBlockTail), line 299 (and 364, 415): "the
\* tailBlock is only ever advanced after being written to".
NextHasElement == consumer = "loadNextTail" => block[cblock].front # block[cblock].tail

\* assert(nextBlockFront == nextBlockTail), line 506: "This block must be empty
\* since it's not the head block and we go through the blocks in a circle".
NextIsEmpty ==
  producer = "write" /\ pblock # tailBlock => block[pblock].localFront = block[pblock].tail

\* Every block is on the one ring, except a new one that is not linked yet, so
\* that the destructor frees them all.
Ring ==
  /\ OnRing = IF producer = "link" THEN 1 .. Len(block) - 1 ELSE 1 .. Len(block)
  /\ consumer = "destroyed" => freed = DOMAIN block

\* "Constructs a queue that can hold maxSize elements without further
\* allocations" (lines 103-104): a call that is refused or has to allocate has
\* found at least maxSize elements.
FullWhenRefused ==
  [][producer = "checkNext" /\ producer' \in {"alloc", "idle"} => full']_vars

\* The queue is a FIFO for its two threads: an element is in it
\* once the tail (or tailBlock) is set, until it is destroyed.
Fifo == INSTANCE SpscFifo WITH
  fifo <- SelectSeq(Contents, LAMBDA v : v # Nothing),
  call <- IF consumer = "release" THEN "none" ELSE op

Refinement == Fifo!Spec
=============================================================================
