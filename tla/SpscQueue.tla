----------------------------- MODULE SpscQueue ------------------------------
(***************************************************************************)
(* moodycamel::ReaderWriterQueue<T>, the queue under EventQueue and        *)
(* EventPool: a circular list of ring buffers ("blocks") shared by one     *)
(* producer thread and one consumer thread without locks.                  *)
(*                                                                         *)
(* A step reads or writes at most one variable the OTHER thread may        *)
(* access.  A thread's reads of variables that only it writes (tail,       *)
(* localFront, tailBlock, next for the producer; front, localTail,         *)
(* frontBlock for the consumer) cannot change under it, so they are folded *)
(* into its steps and the code's local copies of them are not modelled.    *)
(* The acquire/release fences give these accesses the order they have in   *)
(* the code, which is the order modelled.                                  *)
(***************************************************************************)
EXTENDS Naturals, Sequences, SequencesExt, FiniteSetsExt

CONSTANTS
  Nil,             \* an empty slot; the answer of an operation that found nothing
  Constructions,   \* the template and constructor arguments considered
  MaxBlocks,       \* malloc returns nullptr beyond this many blocks
  MaxEnqueues      \* bound: calls of enqueue/try_enqueue in a behaviour

ASSUME SpscAssumption ==
  /\ Constructions \subseteq [maxSize : Nat \ {0}, MAX_BLOCK_SIZE : Nat \ {0, 1}]
  /\ MaxBlocks \in Nat \ {0}
  /\ MaxEnqueues \in Nat

Values == 1 .. MaxEnqueues

VARIABLES
  made,              \* the arguments of the template and the constructor
  blocks,            \* the blocks in the order they were made; a pointer is an index
  frontBlock, tailBlock, largestBlockSize,
  ppc, pval, pmode,  \* the producer: next step, its element, CanAlloc or CannotAlloc
  cpc, cop, cval,    \* the consumer: next step, its operation, the element read
  calls,             \* number of enqueue calls begun
  fullAtCall, emptyAtCall,  \* history: the queue as the call in progress found it
  last, got          \* the consumer's last completed operation and its answer

producerVars == <<ppc, pval, pmode, calls, fullAtCall>>
consumerVars == <<cpc, cop, cval, emptyAtCall, last, got>>
vars == <<made, blocks, frontBlock, tailBlock, largestBlockSize,
          producerVars, consumerVars>>

maxSize == made.maxSize
MAX_BLOCK_SIZE == made.MAX_BLOCK_SIZE

-----------------------------------------------------------------------------
(* Blocks.  A ring of `size` slots holds size - 1 elements at most.        *)

Block(size, next) ==
  [front |-> 0, localTail |-> 0, tail |-> 0, localFront |-> 0, next |-> next,
   data |-> [i \in 0 .. size - 1 |-> Nil]]

Size(b) == Cardinality(DOMAIN blocks[b].data)
After(b, i) == (i + 1) % Size(b)

CeilToPow2(x) == Min({p \in {2^k : k \in 0 .. x} : p >= x})

OneBlock(n) == CeilToPow2(n + 1) <= MAX_BLOCK_SIZE * 2

\* Slip: no block to spare beside those the elements fill.
InitialBlockCountNoSpare(n) ==
  IF OneBlock(n) THEN 1 ELSE (n + MAX_BLOCK_SIZE - 2) \div (MAX_BLOCK_SIZE - 1)

InitialBlockCount(n) ==
  IF OneBlock(n) THEN 1 ELSE (n + MAX_BLOCK_SIZE * 2 - 3) \div (MAX_BLOCK_SIZE - 1)

InitialBlockSize(n) == IF OneBlock(n) THEN CeilToPow2(n + 1) ELSE MAX_BLOCK_SIZE

\* Arithmetic that needs induction: 2^x is a number, and no smaller than x.
ASSUME CeilAssumption ==
  \A c \in Constructions :
    LET x == c.maxSize + 1 IN (\A k \in 0 .. x : 2^k \in Nat) /\ 2^x >= x

\* The elements of a block, oldest first.
Elements(b) ==
  LET k == blocks[b]
  IN  [i \in 1 .. (k.tail + Size(b) - k.front) % Size(b) |->
         k.data[(k.front + i - 1) % Size(b)]]

\* The elements from block b on to the tail block, going round the list.
Contents ==
  LET from[b \in DOMAIN blocks] ==
        IF b = tailBlock THEN Elements(b) ELSE Elements(b) \o from[blocks[b].next]
  IN  from[frontBlock]

Init ==
  /\ made \in Constructions
  /\ LET n == InitialBlockCount(maxSize)
     IN  blocks = [b \in 1 .. n |-> Block(InitialBlockSize(maxSize), (b % n) + 1)]
  /\ frontBlock = 1 /\ tailBlock = 1
  /\ largestBlockSize = InitialBlockSize(maxSize)
  /\ ppc = "idle" /\ pval = Nil /\ pmode = "CannotAlloc"
  /\ cpc = "idle" /\ cop = "none" /\ cval = Nil
  /\ calls = 0 /\ fullAtCall = FALSE /\ emptyAtCall = FALSE
  /\ last = "none" /\ got = Nil

-----------------------------------------------------------------------------
(* The producer: inner_enqueue.                                            *)

EnqueueDone ==
  /\ ppc' = "idle" /\ pval' = Nil /\ fullAtCall' = FALSE
  /\ UNCHANGED <<pmode, calls>>

ProducerGoto(pc) ==
  ppc' = pc /\ UNCHANGED <<pval, pmode, calls, fullAtCall>>

\* Slip: every slot counted usable, none kept spare to tell full from empty.
HasRoomNoSpare(front) ==
  (blocks[tailBlock].tail + Size(tailBlock) - front) % Size(tailBlock) < Size(tailBlock)

\* The tail block has a free slot, given the value of front the producer knows.
HasRoom(front) == After(tailBlock, blocks[tailBlock].tail) # front

\* enqueue or try_enqueue is called; the room left is judged by the producer's
\* own, possibly outdated copy of front.
EnqueueCall(mode) ==
  /\ ppc = "idle" /\ calls < MaxEnqueues
  /\ calls' = calls + 1 /\ pval' = calls + 1 /\ pmode' = mode
  /\ fullAtCall' = (Len(Contents) >= maxSize)
  /\ ppc' = IF HasRoom(blocks[tailBlock].localFront) THEN "write" ELSE "readFront"
  /\ UNCHANGED <<made, blocks, frontBlock, tailBlock, largestBlockSize, consumerVars>>

\* No room by the local copy: refresh it from the consumer's front.
ReadFront ==
  /\ ppc = "readFront"
  /\ blocks' = [blocks EXCEPT ![tailBlock].localFront = blocks[tailBlock].front]
  /\ ProducerGoto(IF HasRoom(blocks[tailBlock].front) THEN "write" ELSE "tailFull")
  /\ UNCHANGED <<made, frontBlock, tailBlock, largestBlockSize, consumerVars>>

WriteElement ==
  /\ ppc = "write"
  /\ blocks' = [blocks EXCEPT ![tailBlock].data[blocks[tailBlock].tail] = pval]
  /\ ProducerGoto("publish")
  /\ UNCHANGED <<made, frontBlock, tailBlock, largestBlockSize, consumerVars>>

\* Slip: the new tail is not masked.
PublishTailUnmasked ==
  /\ ppc = "publish"
  /\ blocks' = [blocks EXCEPT ![tailBlock].tail = @ + 1]
  /\ EnqueueDone
  /\ UNCHANGED <<made, frontBlock, tailBlock, largestBlockSize, consumerVars>>

PublishTail ==
  /\ ppc = "publish"
  /\ blocks' = [blocks EXCEPT ![tailBlock].tail = After(tailBlock, @)]
  /\ EnqueueDone
  /\ UNCHANGED <<made, frontBlock, tailBlock, largestBlockSize, consumerVars>>

NextTailBlock == blocks[tailBlock].next

\* Slip: any next block is taken for a free one, the consumer's included.
TailFullIgnoresFront ==
  /\ ppc = "tailFull"
  /\ IF Len(blocks) > 1 THEN ProducerGoto("readNextFront")
     ELSE IF pmode = "CanAlloc" /\ Len(blocks) < MaxBlocks THEN ProducerGoto("link")
     ELSE EnqueueDone
  /\ UNCHANGED <<made, blocks, frontBlock, tailBlock, largestBlockSize, consumerVars>>

\* The tail block is full.  The next one may be used unless the consumer is in
\* it; else a block is made, if the caller allows it and malloc succeeds.
TailFull ==
  /\ ppc = "tailFull"
  /\ IF NextTailBlock # frontBlock THEN ProducerGoto("readNextFront")
     ELSE IF pmode = "CanAlloc" /\ Len(blocks) < MaxBlocks THEN ProducerGoto("link")
     ELSE EnqueueDone
  /\ UNCHANGED <<made, blocks, frontBlock, tailBlock, largestBlockSize, consumerVars>>

ReadNextFront ==
  /\ ppc = "readNextFront"
  /\ blocks' = [blocks EXCEPT ![NextTailBlock].localFront = blocks[NextTailBlock].front]
  /\ ProducerGoto("writeNext")
  /\ UNCHANGED <<made, frontBlock, tailBlock, largestBlockSize, consumerVars>>

WriteNext ==
  /\ ppc = "writeNext"
  /\ blocks' = [blocks EXCEPT ![NextTailBlock].data[blocks[NextTailBlock].tail] = pval]
  /\ ProducerGoto("publishNext")
  /\ UNCHANGED <<made, frontBlock, tailBlock, largestBlockSize, consumerVars>>

PublishNext ==
  /\ ppc = "publishNext"
  /\ blocks' = [blocks EXCEPT ![NextTailBlock].tail = After(NextTailBlock, @)]
  /\ ProducerGoto("advanceTail")
  /\ UNCHANGED <<made, frontBlock, tailBlock, largestBlockSize, consumerVars>>

NewBlockSize ==
  IF largestBlockSize >= MAX_BLOCK_SIZE THEN largestBlockSize ELSE largestBlockSize * 2

\* make_block, filled while still private, then linked behind the tail block.
LinkNewBlock ==
  /\ ppc = "link"
  /\ largestBlockSize' = NewBlockSize
  /\ LET new == [Block(NewBlockSize, NextTailBlock)
                   EXCEPT !.data[0] = pval, !.tail = 1, !.localTail = 1]
     IN  blocks' = Append([blocks EXCEPT ![tailBlock].next = Len(blocks) + 1], new)
  /\ ProducerGoto("advanceTail")
  /\ UNCHANGED <<made, frontBlock, tailBlock, consumerVars>>

\* Only now can the consumer leave the old tail block.
AdvanceTail ==
  /\ ppc = "advanceTail"
  /\ tailBlock' = NextTailBlock
  /\ EnqueueDone
  /\ UNCHANGED <<made, blocks, frontBlock, largestBlockSize, consumerVars>>

Producer ==
  \/ \E mode \in {"CanAlloc", "CannotAlloc"} : EnqueueCall(mode)
  \/ ReadFront \/ WriteElement \/ PublishTail \/ TailFull
  \/ ReadNextFront \/ WriteNext \/ PublishNext \/ LinkNewBlock \/ AdvanceTail

-----------------------------------------------------------------------------
(* The consumer: try_dequeue and peek, which share their search for the    *)
(* front element.                                                          *)

Return(v) ==
  /\ cpc' = "idle" /\ cop' = "none" /\ cval' = Nil /\ emptyAtCall' = FALSE
  /\ last' = cop /\ got' = v

ConsumerGoto(pc) == cpc' = pc /\ UNCHANGED <<cop, cval, emptyAtCall, last, got>>

ConsumerCall(op) ==
  /\ cpc = "idle"
  /\ cop' = op /\ emptyAtCall' = (Contents = <<>>)
  /\ cpc' = IF blocks[frontBlock].front # blocks[frontBlock].localTail
            THEN "take" ELSE "readTail"
  /\ UNCHANGED <<made, blocks, frontBlock, tailBlock, largestBlockSize,
                 producerVars, cval, last, got>>

\* localTail = tail.load(), then dequeue here if that shows an element.
RefreshTail(otherwise) ==
  /\ blocks' = [blocks EXCEPT ![frontBlock].localTail = blocks[frontBlock].tail]
  /\ ConsumerGoto(IF blocks[frontBlock].front # blocks[frontBlock].tail
                  THEN "take" ELSE otherwise)
  /\ UNCHANGED <<made, frontBlock, tailBlock, largestBlockSize, producerVars>>

ReadTail == cpc = "readTail" /\ RefreshTail("readTailBlock")

\* Slip: the second look at the front block is left out.
ReadTailBlockOnce ==
  /\ cpc = "readTailBlock"
  /\ IF frontBlock = tailBlock THEN Return(Nil) ELSE ConsumerGoto("readNextTail")
  /\ UNCHANGED <<made, blocks, frontBlock, tailBlock, largestBlockSize, producerVars>>

\* The front block looked empty: it is the whole queue if it is the tail block.
ReadTailBlock ==
  /\ cpc = "readTailBlock"
  /\ IF frontBlock = tailBlock THEN Return(Nil) ELSE ConsumerGoto("recheckTail")
  /\ UNCHANGED <<made, blocks, frontBlock, tailBlock, largestBlockSize, producerVars>>

\* The producer may have filled the front block AND moved on since it looked
\* empty, so it is looked at once more before it is left behind.
RecheckTail == cpc = "recheckTail" /\ RefreshTail("readNextTail")

NextFrontBlock == blocks[frontBlock].next

ReadNextTail ==
  /\ cpc = "readNextTail"
  /\ IF cop = "peek"
     THEN /\ ConsumerGoto("peekNext")
          /\ UNCHANGED blocks
     ELSE /\ blocks' = [blocks EXCEPT ![NextFrontBlock].localTail = blocks[NextFrontBlock].tail]
          /\ ConsumerGoto("advanceFront")
  /\ UNCHANGED <<made, frontBlock, tailBlock, largestBlockSize, producerVars>>

AdvanceFront ==
  /\ cpc = "advanceFront"
  /\ frontBlock' = NextFrontBlock
  /\ ConsumerGoto("take")
  /\ UNCHANGED <<made, blocks, tailBlock, largestBlockSize, producerVars>>

FrontElement(b) == blocks[b].data[blocks[b].front]

\* Slip: peek looks at the block after the front one from its first slot.
PeekNextFirstSlot ==
  /\ cpc = "peekNext"
  /\ Return(blocks[NextFrontBlock].data[0])
  /\ UNCHANGED <<made, blocks, frontBlock, tailBlock, largestBlockSize, producerVars>>

PeekNext ==
  /\ cpc = "peekNext"
  /\ Return(FrontElement(NextFrontBlock))
  /\ UNCHANGED <<made, blocks, frontBlock, tailBlock, largestBlockSize, producerVars>>

\* peek answers with the element; try_dequeue moves it out of its slot first.
TakeElement ==
  /\ cpc = "take"
  /\ IF cop = "peek"
     THEN Return(FrontElement(frontBlock))
     ELSE /\ cpc' = "pop" /\ cval' = FrontElement(frontBlock)
          /\ UNCHANGED <<cop, emptyAtCall, last, got>>
  /\ UNCHANGED <<made, blocks, frontBlock, tailBlock, largestBlockSize, producerVars>>

\* front moves past the element, whose slot the producer may now reuse.
PopElement ==
  /\ cpc = "pop"
  /\ LET k == blocks[frontBlock]
     IN  blocks' = [blocks EXCEPT ![frontBlock].front = After(frontBlock, k.front),
                                  ![frontBlock].data[k.front] = Nil]
  /\ Return(cval)
  /\ UNCHANGED <<made, frontBlock, tailBlock, largestBlockSize, producerVars>>

Consumer ==
  \/ \E op \in {"peek", "dequeue"} : ConsumerCall(op)
  \/ ReadTail \/ ReadTailBlock \/ RecheckTail \/ ReadNextTail \/ AdvanceFront
  \/ PeekNext \/ TakeElement \/ PopElement

Next == Producer \/ Consumer

Spec == Init /\ [][Next]_vars

-----------------------------------------------------------------------------
(* Properties.                                                             *)

BlockTypeOK(b) ==
  LET k == blocks[b]
  IN  /\ k.data \in [0 .. Size(b) - 1 -> Values \cup {Nil}]
      /\ {k.front, k.localTail, k.tail, k.localFront} \subseteq 0 .. Size(b) - 1
      /\ k.next \in 1 .. Len(blocks)

\* The variables have their types; every index of a block is one of its slots.
TypeOK ==
  /\ made \in Constructions
  /\ largestBlockSize \in Nat
  /\ \A b \in 1 .. Len(blocks) : BlockTypeOK(b)
  /\ {frontBlock, tailBlock} \subseteq 1 .. Len(blocks)
  /\ ppc \in {"idle", "readFront", "write", "publish", "tailFull", "readNextFront",
             "writeNext", "publishNext", "link", "advanceTail"}
  /\ pval \in Values \cup {Nil} /\ pmode \in {"CanAlloc", "CannotAlloc"}
  /\ cpc \in {"idle", "readTail", "readTailBlock", "recheckTail", "readNextTail",
             "advanceFront", "peekNext", "take", "pop"}
  /\ {cop, last} \subseteq {"none", "peek", "dequeue"}
  /\ {cval, got} \subseteq Values \cup {Nil}
  /\ calls \in 0 .. MaxEnqueues /\ {fullAtCall, emptyAtCall} \subseteq BOOLEAN

\* The assertions of the code hold: the block the producer moves on to is empty
\* (line 479), the block the consumer moves on to is not (lines 272 and 337).
AssertionsHold ==
  /\ ppc = "writeNext" => blocks[NextTailBlock].front = blocks[NextTailBlock].tail
  /\ cpc \in {"advanceFront", "peekNext"} =>
       blocks[NextFrontBlock].front # blocks[NextFrontBlock].tail

\* The two threads never access the same slot at the same time: the producer
\* writes no slot the consumer is about to read or free.
NoSlotRace ==
  LET written == CASE ppc = "write" -> {<<tailBlock, blocks[tailBlock].tail>>}
                   [] ppc = "writeNext" -> {<<NextTailBlock, blocks[NextTailBlock].tail>>}
                   [] OTHER -> {}
      read == CASE cpc \in {"take", "pop"} -> {<<frontBlock, blocks[frontBlock].front>>}
                [] cpc = "peekNext" -> {<<NextFrontBlock, blocks[NextFrontBlock].front>>}
                [] OTHER -> {}
  IN  written \cap read = {}

\* What RWQLockFreeQueue's users do, empty() and then front_pop(), is safe: after
\* a peek that found an element the next dequeue succeeds, with that element.
PeekPromises ==
  [][last = "peek" /\ got # Nil /\ last' = "dequeue" => got' = got]_<<last, got>>

\* The constructor's promise (lines 76-79): no block is allocated for a call
\* that began while the queue held fewer than maxSize elements.
NoEarlyAllocation == [][Len(blocks') > Len(blocks) => fullAtCall]_blocks

\* Implementation of the FIFO: an enqueue takes effect when tail (or tailBlock)
\* is advanced, a dequeue when front is.
fifo == INSTANCE Fifo WITH
  capacity <- maxSize,
  queue <- Contents,
  producer <- [busy |-> ppc # "idle", val |-> pval, full |-> fullAtCall],
  consumer <- [op |-> cop, empty |-> emptyAtCall, last |-> last, got |-> got]

\* The queue of blocks is a FIFO queue: no element is lost, duplicated or
\* overtaken, an empty answer is true at the call, and an enqueue fails only if
\* the queue held maxSize elements at the call (and memory ran out, if it may
\* allocate).
ImplementsFifo == fifo!FifoSpec
=============================================================================
