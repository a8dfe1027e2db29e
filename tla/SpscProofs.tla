----------------------------- MODULE SpscProofs -----------------------------
(***************************************************************************)
(* Proofs about SpscQueue, for every size of queue and of block, however   *)
(* many blocks are made: its types, the assertions of the code, the        *)
(* absence of races on the slots and the promise of a peek; that it        *)
(* implements the FIFO queue, and allocates no block before it must.       *)
(***************************************************************************)
EXTENDS SpscQueue, FiniteSetTheorems, SequenceTheorems, TLAPS

Ids == 1 .. Len(blocks)
Empty(b) == blocks[b].front = blocks[b].tail

Data == UNION {[0 .. n - 1 -> Values \cup {Nil}] : n \in Nat \ {0, 1}}
BlockSet == [front : Nat, localTail : Nat, tail : Nat, localFront : Nat, next : Nat,
             data : Data]

Types ==
  /\ TypeOK
  /\ blocks \in Seq(BlockSet)
  /\ largestBlockSize \in Nat \ {0, 1}

\* Going round the ring from i one meets j no later than k.
Cyclic(i, j, k) == \/ i <= j /\ j <= k
                   \/ j <= k /\ k < i
                   \/ k < i /\ i <= j

\* What a thread remembers of the other's index is behind it.
Rings ==
  \A b \in Ids :
    /\ Cyclic(blocks[b].localFront, blocks[b].front, blocks[b].tail)
    /\ Cyclic(blocks[b].front, blocks[b].localTail, blocks[b].tail)

Linked == \A a, b \in Ids : blocks[a].next = blocks[b].next => a = b

\* The blocks in use, U, are those from the front block on to the tail block;
\* all but the front one hold elements, the others none but the one the
\* producer is about to publish.
Chain(U) ==
  /\ frontBlock \in U /\ tailBlock \in U
  /\ \A b \in U \ {tailBlock} : blocks[b].next \in U \ {frontBlock}
  /\ \A b \in (Ids \ U) \cup {tailBlock} : blocks[b].next \notin U \ {frontBlock}
  /\ \A b \in U \ {frontBlock} : ~Empty(b)
  /\ \A b \in Ids \ U : Empty(b) \/ (ppc = "advanceTail" /\ b = NextTailBlock)
  /\ ppc \in {"readNextFront", "writeNext", "publishNext", "advanceTail"} =>
       NextTailBlock \notin U

Chained == \E U \in SUBSET Ids : Chain(U)

Producing ==
  /\ ppc \in {"write", "publish"} =>
       After(tailBlock, blocks[tailBlock].tail) # blocks[tailBlock].localFront
  /\ ppc \in {"writeNext", "publishNext"} =>
       blocks[NextTailBlock].localFront = blocks[NextTailBlock].front
  /\ ppc = "advanceTail" => ~Empty(NextTailBlock)

Consuming ==
  /\ cpc \in {"take", "pop"} => blocks[frontBlock].front # blocks[frontBlock].localTail
  /\ cpc \in {"recheckTail", "readNextTail", "advanceFront", "peekNext"} =>
       frontBlock # tailBlock
  /\ cpc \in {"readNextTail", "advanceFront", "peekNext"} => Empty(frontBlock)
  /\ cpc = "advanceFront" =>
       blocks[NextFrontBlock].front # blocks[NextFrontBlock].localTail

\* The element a peek found is the first of the queue until it is dequeued.
Promised ==
  last = "peek" /\ got # Nil =>
    /\ \/ ~Empty(frontBlock) /\ FrontElement(frontBlock) = got
       \/ /\ Empty(frontBlock) /\ frontBlock # tailBlock
          /\ FrontElement(NextFrontBlock) = got
    /\ cpc = "readTailBlock" => Empty(frontBlock)
    /\ cpc = "pop" => cval = got

Inv == Types /\ Rings /\ Linked /\ Chained /\ Producing /\ Consuming /\ Promised

\* What the consumer is doing is what it was asked for.
Asked ==
  /\ cpc # "idle" => cop # "none"
  /\ cpc = "pop" => cop = "dequeue"
  /\ cpc = "peekNext" => cop = "peek"

-----------------------------------------------------------------------------
(* Sizes and indexes.                                                      *)

LEMMA SizeOf ==
  ASSUME NEW k \in BlockSet
  PROVE  /\ Cardinality(DOMAIN k.data) \in Nat \ {0, 1}
         /\ k.data \in [0 .. Cardinality(DOMAIN k.data) - 1 -> Values \cup {Nil}]
  <1>1. PICK n \in Nat \ {0, 1} : k.data \in [0 .. n - 1 -> Values \cup {Nil}]
    BY DEF BlockSet, Data
  <1>2. DOMAIN k.data = 0 .. n - 1
    BY <1>1
  <1>3. Cardinality(0 .. n - 1) = n
    BY <1>1, FS_Interval
  <1> QED
    BY <1>1, <1>2, <1>3

LEMMA AfterIs ==
  ASSUME NEW n \in Nat \ {0, 1}, NEW i \in 0 .. n - 1
  PROVE  (i + 1) % n = IF i + 1 = n THEN 0 ELSE i + 1
  OBVIOUS

LEMMA AtLeastOne ==
  ASSUME NEW a \in Nat, NEW b \in Nat \ {0}, a >= b
  PROVE  a \div b \in Nat \ {0}
  OBVIOUS

LEMMA NextInRing ==
  ASSUME NEW n \in Nat \ {0}, NEW b \in 1 .. n
  PROVE  (b % n) + 1 = IF b = n THEN 1 ELSE b + 1
  OBVIOUS

\* From the well-foundedness of <.
LEMMA LeastNumber ==
  ASSUME NEW S \in SUBSET Nat, S # {}
  PROVE  \E n \in S : \A m \in S : n <= m
  <1> DEFINE R == OpToRel(<, Nat)
  <1>1. IsWellFoundedOn(R, Nat)
    BY NatLessThanWellFounded
  <1>2. \A ss \in Nat \X Nat : ss[1] < ss[2] => ss \in R
    BY DEF OpToRel
  <1>3. \A m, n \in Nat : m < n => <<m, n>> \in R
    BY <1>2
  <1> HIDE DEF R
  <1>4. PICK n \in S : \A m \in S : ~ (<<m, n>> \in R)
    BY <1>1, WFMin
  <1>5. ASSUME NEW m \in S PROVE n <= m
    <2>1. m \in Nat /\ n \in Nat /\ ~ (<<m, n>> \in R)
      BY <1>4
    <2>2. ~ (m < n)
      BY <1>3, <2>1
    <2> QED
      BY <2>1, <2>2
  <1> QED
    BY <1>5

\* Induction over the numbers, for a set.
LEMMA Induction ==
  ASSUME NEW S, 0 \in S, \A n \in Nat : n \in S => n + 1 \in S
  PROVE  Nat \subseteq S
  <1> SUFFICES ASSUME Nat \ S # {} PROVE FALSE
    OBVIOUS
  <1>1. PICK n \in Nat \ S : \A m \in Nat \ S : n <= m
    <2> DEFINE T == Nat \ S
    <2> HIDE DEF T
    <2>1. T \in SUBSET Nat /\ T # {}
      BY DEF T
    <2> QED
      BY <2>1, LeastNumber DEF T
  <1>2. n # 0 /\ n - 1 \in Nat /\ n - 1 \notin S
    BY <1>1
  <1> QED
    BY <1>1, <1>2

LEMMA MulLess ==
  ASSUME NEW a \in Int, NEW b \in Int, NEW d \in Nat, a < b
  PROVE  a * d + d <= b * d
  <1>1. PICK e \in Nat : b = a + 1 + e
    <2> WITNESS b - a - 1 \in Nat
    <2> QED
      OBVIOUS
  <1>2. b * d = a * d + d + e * d
    BY <1>1
  <1>3. e * d >= 0
    OBVIOUS
  <1>4. a * d \in Int /\ e * d \in Int
    OBVIOUS
  <1> QED
    BY <1>2, <1>3, <1>4

LEMMA MulMonotone ==
  ASSUME NEW a \in Int, NEW b \in Int, NEW d \in Nat, a <= b
  PROVE  a * d <= b * d
  <1>1. CASE a = b
    BY <1>1
  <1>2. CASE a < b
    <2>1. a * d + d <= b * d /\ a * d \in Int /\ b * d \in Int
      BY <1>2, MulLess
    <2> QED
      BY <2>1
  <1> QED
    BY <1>1, <1>2

LEMMA OneMore ==
  ASSUME NEW k \in Nat, NEW m \in Nat
  PROVE  (k + 1) * m = k * m + m /\ k * m \in Nat /\ 0 * m = 0 /\ 1 * m = m
  OBVIOUS

LEMMA Division ==
  ASSUME NEW a \in Nat, NEW d \in Nat \ {0}
  PROVE  /\ a \div d \in Nat
         /\ d * (a \div d) <= a /\ a < d * (a \div d) + d
  OBVIOUS

\* The smallest power of two that is no smaller than x.
LEMMA CeilIs ==
  ASSUME NEW c \in Constructions
  PROVE  CeilToPow2(c.maxSize + 1) \in Nat /\ CeilToPow2(c.maxSize + 1) >= c.maxSize + 1
  <1> DEFINE x == c.maxSize + 1
             powers == {2^k : k \in 0 .. x}
             S == {p \in powers : p >= x}
  <1>1. x \in Nat /\ powers \subseteq Nat /\ 2^x \in powers /\ 2^x >= x
    BY SpscAssumption, CeilAssumption
  <1>2. CeilToPow2(x) = Min(S)
    BY DEF CeilToPow2
  <1> HIDE DEF x, powers
  <1>3. S \in SUBSET Nat /\ S # {}
    BY <1>1
  <1>4. \E n \in S : \A m \in S : n <= m
    <2> HIDE DEF S
    <2> QED
      BY <1>3, LeastNumber
  <1>5. Min(S) \in S
    <2> HIDE DEF S
    <2> QED
      BY <1>4 DEF Min
  <1> QED
    BY <1>1, <1>2, <1>5 DEF x

\* What the constructor makes: one block or more, of two slots or more.
LEMMA InitialTypes ==
  ASSUME made \in Constructions
  PROVE  InitialBlockCount(maxSize) \in Nat \ {0} /\ InitialBlockSize(maxSize) \in Nat \ {0, 1}
  <1> DEFINE n == InitialBlockCount(maxSize)
             z == InitialBlockSize(maxSize)
  <1>1. /\ maxSize \in Nat \ {0} /\ MAX_BLOCK_SIZE \in Nat \ {0, 1}
        /\ CeilToPow2(maxSize + 1) \in Nat /\ CeilToPow2(maxSize + 1) >= maxSize + 1
    BY SpscAssumption, CeilIs DEF maxSize, MAX_BLOCK_SIZE
  <1>2. n \in Nat \ {0}
    <2>1. CASE OneBlock(maxSize)
      BY <2>1 DEF InitialBlockCount
    <2>2. CASE ~OneBlock(maxSize)
      <3>1. /\ maxSize + MAX_BLOCK_SIZE * 2 - 3 \in Nat /\ MAX_BLOCK_SIZE - 1 \in Nat \ {0}
            /\ maxSize + MAX_BLOCK_SIZE * 2 - 3 >= MAX_BLOCK_SIZE - 1
        BY <1>1
      <3>2. (maxSize + MAX_BLOCK_SIZE * 2 - 3) \div (MAX_BLOCK_SIZE - 1) \in Nat \ {0}
        BY <3>1, AtLeastOne
      <3> QED
        BY <2>2, <3>2 DEF InitialBlockCount
    <2> QED
      BY <2>1, <2>2
  <1>3. z \in Nat \ {0, 1}
    BY <1>1 DEF InitialBlockSize
  <1> QED
    BY <1>2, <1>3

-----------------------------------------------------------------------------
(* Blocks: what is known of one, and of those a step rewrites.             *)

LEMMA BlockFacts ==
  ASSUME Types
  PROVE  /\ Len(blocks) \in Nat
         /\ frontBlock \in Ids /\ tailBlock \in Ids
         /\ \A b \in Ids :
              /\ blocks[b] \in BlockSet
              /\ Size(b) \in Nat \ {0, 1}
              /\ blocks[b].data \in [0 .. Size(b) - 1 -> Values \cup {Nil}]
              /\ blocks[b].front \in 0 .. Size(b) - 1
              /\ blocks[b].localTail \in 0 .. Size(b) - 1
              /\ blocks[b].tail \in 0 .. Size(b) - 1
              /\ blocks[b].localFront \in 0 .. Size(b) - 1
              /\ blocks[b].next \in Ids
  <1>1. /\ Len(blocks) \in Nat
        /\ frontBlock \in Ids /\ tailBlock \in Ids
        /\ \A b \in Ids : blocks[b] \in BlockSet /\ BlockTypeOK(b)
    BY DEF Types, TypeOK, Ids
  <1>2. \A b \in Ids : Size(b) \in Nat \ {0, 1}
    BY <1>1, SizeOf DEF Size
  <1> QED
    BY <1>1, <1>2 DEF BlockTypeOK, Ids

LEMMA AfterFacts ==
  ASSUME Types, NEW b \in Ids
  PROVE  /\ After(b, blocks[b].tail) =
              IF blocks[b].tail + 1 = Size(b) THEN 0 ELSE blocks[b].tail + 1
         /\ After(b, blocks[b].front) =
              IF blocks[b].front + 1 = Size(b) THEN 0 ELSE blocks[b].front + 1
         /\ After(b, blocks[b].tail) \in 0 .. Size(b) - 1
         /\ After(b, blocks[b].front) \in 0 .. Size(b) - 1
  <1> DEFINE N == Size(b)
  <1>1. /\ N \in Nat \ {0, 1}
        /\ blocks[b].tail \in 0 .. N - 1 /\ blocks[b].front \in 0 .. N - 1
    BY BlockFacts
  <1>2. /\ After(b, blocks[b].tail) = (blocks[b].tail + 1) % N
        /\ After(b, blocks[b].front) = (blocks[b].front + 1) % N
    BY DEF After
  <1> HIDE DEF N
  <1>3. /\ After(b, blocks[b].tail) = IF blocks[b].tail + 1 = N THEN 0 ELSE blocks[b].tail + 1
        /\ After(b, blocks[b].front) = IF blocks[b].front + 1 = N THEN 0 ELSE blocks[b].front + 1
    BY <1>1, <1>2, AfterIs
  <1> QED
    BY <1>1, <1>3 DEF N

\* One block is replaced by another of the same size.
LEMMA Rewritten ==
  ASSUME Types, NEW b \in Ids, NEW k \in BlockSet,
         DOMAIN k.data = DOMAIN blocks[b].data,
         {k.front, k.localTail, k.tail, k.localFront} \subseteq 0 .. Size(b) - 1,
         k.next \in Ids,
         blocks' = [blocks EXCEPT ![b] = k]
  PROVE  /\ blocks' \in Seq(BlockSet) /\ Len(blocks') = Len(blocks) /\ Ids' = Ids
         /\ \A c \in Ids : blocks'[c] = IF c = b THEN k ELSE blocks[c]
         /\ \A c \in Ids : Size(c)' = Size(c) /\ BlockTypeOK(c)'
  <1>1. /\ blocks \in Seq(BlockSet) /\ Len(blocks) \in Nat
        /\ DOMAIN blocks = Ids /\ \A c \in Ids : blocks[c] \in BlockSet
    BY BlockFacts DEF Types, Ids
  <1>2. /\ blocks' \in Seq(BlockSet) /\ Len(blocks') = Len(blocks)
    BY <1>1, ExceptSeq DEF Ids
  <1>3. Ids' = Ids
    BY <1>2 DEF Ids
  <1>4. \A c \in Ids : blocks'[c] = IF c = b THEN k ELSE blocks[c]
    BY <1>1
  <1>5. ASSUME NEW c \in Ids PROVE Size(c)' = Size(c) /\ BlockTypeOK(c)'
    <2>1. Size(c)' = Size(c)
      BY <1>4, <1>5 DEF Size
    <2>2. blocks'[c].data \in [0 .. Size(c) - 1 -> Values \cup {Nil}]
      BY <1>3, <1>4, <1>5, SizeOf, BlockFacts DEF Size
    <2>3. /\ {blocks'[c].front, blocks'[c].localTail, blocks'[c].tail,
               blocks'[c].localFront} \subseteq 0 .. Size(c) - 1
          /\ blocks'[c].next \in Ids
      <3>1. CASE c = b
        BY <1>4, <1>5, <3>1
      <3>2. CASE c # b
        <4>1. blocks'[c] = blocks[c]
          BY <1>4, <1>5, <3>2
        <4> QED
          BY <1>5, <4>1, BlockFacts
      <3> QED
        BY <3>1, <3>2
    <2> QED
      BY <1>2, <2>1, <2>2, <2>3 DEF BlockTypeOK, Ids
  <1> QED
    BY <1>2, <1>3, <1>4, <1>5

-----------------------------------------------------------------------------
(* What each way of writing to a block changes, and what it keeps.         *)

BlocksTyped == blocks \in Seq(BlockSet) /\ \A b \in Ids : BlockTypeOK(b)

FrontKept == \A b \in Ids : blocks'[b].front = blocks[b].front
TailKept == \A b \in Ids : blocks'[b].tail = blocks[b].tail
LocalFrontKept == \A b \in Ids : blocks'[b].localFront = blocks[b].localFront
LocalTailKept == \A b \in Ids : blocks'[b].localTail = blocks[b].localTail
DataKept == \A b \in Ids : blocks'[b].data = blocks[b].data
ShapeKept == /\ Len(blocks') = Len(blocks) /\ Ids' = Ids
             /\ \A b \in Ids : blocks'[b].next = blocks[b].next /\ Size(b)' = Size(b)

\* The producer refreshes its copy of front.
LEMMA LocalFrontSet ==
  ASSUME Types, NEW b \in Ids,
         blocks' = [blocks EXCEPT ![b].localFront = blocks[b].front]
  PROVE  /\ BlocksTyped' /\ ShapeKept /\ FrontKept /\ TailKept /\ LocalTailKept /\ DataKept
         /\ \A c \in Ids : blocks'[c].localFront =
              IF c = b THEN blocks[b].front ELSE blocks[c].localFront
  <1> DEFINE k == [blocks[b] EXCEPT !.localFront = blocks[b].front]
             N == Size(b)
             d == blocks[b].data
  <1>1. /\ N \in Nat \ {0, 1} /\ blocks[b] \in BlockSet
        /\ blocks[b].data \in [0 .. N - 1 -> Values \cup {Nil}]
        /\ blocks[b].front \in 0 .. N - 1 /\ blocks[b].localTail \in 0 .. N - 1
        /\ blocks[b].tail \in 0 .. N - 1 /\ blocks[b].localFront \in 0 .. N - 1
        /\ After(b, blocks[b].tail) \in 0 .. N - 1 /\ After(b, blocks[b].front) \in 0 .. N - 1
        /\ blocks[b].next \in Ids /\ pval \in Values \cup {Nil}
    BY BlockFacts, AfterFacts DEF Types, TypeOK
  <1> HIDE DEF N
  <1>2. blocks[b].data \in [0 .. N - 1 -> Values \cup {Nil}]
    BY <1>1
  <1>3. blocks[b].data \in Data
    BY <1>1, <1>2 DEF Data
  <1>4. blocks[b].front \in Nat /\ blocks[b].localTail \in Nat /\ blocks[b].tail \in Nat /\ blocks[b].front \in Nat
    BY <1>1
  <1>5. /\ k \in BlockSet /\ DOMAIN k.data = DOMAIN blocks[b].data
        /\ k.front = blocks[b].front /\ k.localTail = blocks[b].localTail
        /\ k.tail = blocks[b].tail /\ k.localFront = blocks[b].front
        /\ k.next = blocks[b].next
        /\ k.data = d
    BY <1>1, <1>2, <1>3, <1>4 DEF BlockSet
  <1>6. blocks' = [blocks EXCEPT ![b] = k]
    OBVIOUS
  <1> HIDE DEF k, d
  <1>7. {k.front, k.localTail, k.tail, k.localFront} \subseteq 0 .. N - 1 /\ k.next \in Ids
    BY <1>1, <1>5
  <1>8. /\ blocks' \in Seq(BlockSet) /\ Len(blocks') = Len(blocks) /\ Ids' = Ids
        /\ \A c \in Ids : blocks'[c] = IF c = b THEN k ELSE blocks[c]
        /\ \A c \in Ids : Size(c)' = Size(c) /\ BlockTypeOK(c)'
    BY <1>5, <1>6, <1>7, Rewritten DEF N
  <1>9. /\ BlocksTyped' /\ Len(blocks') = Len(blocks) /\ Ids' = Ids
        /\ \A c \in Ids : Size(c)' = Size(c)
    BY <1>8 DEF BlocksTyped
  <1>10. /\ blocks'[b].localTail = blocks[b].localTail /\ blocks'[b].localFront = blocks[b].front
         /\ blocks'[b].front = blocks[b].front /\ blocks'[b].tail = blocks[b].tail
         /\ blocks'[b].data = d /\ blocks'[b].next = blocks[b].next
    <2>1. blocks'[b] = k
      BY <1>8
    <2> QED
      BY <2>1, <1>5
  <1>11. \A c \in Ids : c # b => blocks'[c] = blocks[c]
    BY <1>8
  <1>12. ASSUME NEW c \in Ids
         PROVE blocks'[c].localFront =
              IF c = b THEN blocks[b].front ELSE blocks[c].localFront
    <2>1. CASE c = b
      BY <2>1, <1>10 DEF d
    <2>2. CASE c # b
      <3>1. blocks'[c] = blocks[c]
        BY <1>11, <2>2
      <3> QED
        BY <2>2, <3>1
    <2> QED
      BY <2>1, <2>2
  <1> QED
    BY <1>9, <1>10, <1>11, <1>12
       DEF ShapeKept, FrontKept, TailKept, LocalFrontKept, LocalTailKept, DataKept

\* The consumer refreshes its copy of tail.
LEMMA LocalTailSet ==
  ASSUME Types, NEW b \in Ids,
         blocks' = [blocks EXCEPT ![b].localTail = blocks[b].tail]
  PROVE  /\ BlocksTyped' /\ ShapeKept /\ FrontKept /\ TailKept /\ LocalFrontKept /\ DataKept
         /\ \A c \in Ids : blocks'[c].localTail =
              IF c = b THEN blocks[b].tail ELSE blocks[c].localTail
  <1> DEFINE k == [blocks[b] EXCEPT !.localTail = blocks[b].tail]
             N == Size(b)
             d == blocks[b].data
  <1>1. /\ N \in Nat \ {0, 1} /\ blocks[b] \in BlockSet
        /\ blocks[b].data \in [0 .. N - 1 -> Values \cup {Nil}]
        /\ blocks[b].front \in 0 .. N - 1 /\ blocks[b].localTail \in 0 .. N - 1
        /\ blocks[b].tail \in 0 .. N - 1 /\ blocks[b].localFront \in 0 .. N - 1
        /\ After(b, blocks[b].tail) \in 0 .. N - 1 /\ After(b, blocks[b].front) \in 0 .. N - 1
        /\ blocks[b].next \in Ids /\ pval \in Values \cup {Nil}
    BY BlockFacts, AfterFacts DEF Types, TypeOK
  <1> HIDE DEF N
  <1>2. blocks[b].data \in [0 .. N - 1 -> Values \cup {Nil}]
    BY <1>1
  <1>3. blocks[b].data \in Data
    BY <1>1, <1>2 DEF Data
  <1>4. blocks[b].front \in Nat /\ blocks[b].tail \in Nat /\ blocks[b].tail \in Nat /\ blocks[b].localFront \in Nat
    BY <1>1
  <1>5. /\ k \in BlockSet /\ DOMAIN k.data = DOMAIN blocks[b].data
        /\ k.front = blocks[b].front /\ k.localTail = blocks[b].tail
        /\ k.tail = blocks[b].tail /\ k.localFront = blocks[b].localFront
        /\ k.next = blocks[b].next
        /\ k.data = d
    BY <1>1, <1>2, <1>3, <1>4 DEF BlockSet
  <1>6. blocks' = [blocks EXCEPT ![b] = k]
    OBVIOUS
  <1> HIDE DEF k, d
  <1>7. {k.front, k.localTail, k.tail, k.localFront} \subseteq 0 .. N - 1 /\ k.next \in Ids
    BY <1>1, <1>5
  <1>8. /\ blocks' \in Seq(BlockSet) /\ Len(blocks') = Len(blocks) /\ Ids' = Ids
        /\ \A c \in Ids : blocks'[c] = IF c = b THEN k ELSE blocks[c]
        /\ \A c \in Ids : Size(c)' = Size(c) /\ BlockTypeOK(c)'
    BY <1>5, <1>6, <1>7, Rewritten DEF N
  <1>9. /\ BlocksTyped' /\ Len(blocks') = Len(blocks) /\ Ids' = Ids
        /\ \A c \in Ids : Size(c)' = Size(c)
    BY <1>8 DEF BlocksTyped
  <1>10. /\ blocks'[b].localTail = blocks[b].tail /\ blocks'[b].localFront = blocks[b].localFront
         /\ blocks'[b].front = blocks[b].front /\ blocks'[b].tail = blocks[b].tail
         /\ blocks'[b].data = d /\ blocks'[b].next = blocks[b].next
    <2>1. blocks'[b] = k
      BY <1>8
    <2> QED
      BY <2>1, <1>5
  <1>11. \A c \in Ids : c # b => blocks'[c] = blocks[c]
    BY <1>8
  <1>12. ASSUME NEW c \in Ids
         PROVE blocks'[c].localTail =
              IF c = b THEN blocks[b].tail ELSE blocks[c].localTail
    <2>1. CASE c = b
      BY <2>1, <1>10 DEF d
    <2>2. CASE c # b
      <3>1. blocks'[c] = blocks[c]
        BY <1>11, <2>2
      <3> QED
        BY <2>2, <3>1
    <2> QED
      BY <2>1, <2>2
  <1> QED
    BY <1>9, <1>10, <1>11, <1>12
       DEF ShapeKept, FrontKept, TailKept, LocalFrontKept, LocalTailKept, DataKept

\* The producer fills the slot at tail.
LEMMA ElementWritten ==
  ASSUME Types, NEW b \in Ids,
         blocks' = [blocks EXCEPT ![b].data[blocks[b].tail] = pval]
  PROVE  /\ BlocksTyped' /\ ShapeKept /\ FrontKept /\ TailKept /\ LocalFrontKept /\ LocalTailKept
         /\ \A c \in Ids : blocks'[c].data =
              IF c = b THEN [blocks[b].data EXCEPT ![blocks[b].tail] = pval]
              ELSE blocks[c].data
  <1> DEFINE k == [blocks[b] EXCEPT !.data[blocks[b].tail] = pval]
             N == Size(b)
             d == [blocks[b].data EXCEPT ![blocks[b].tail] = pval]
  <1>1. /\ N \in Nat \ {0, 1} /\ blocks[b] \in BlockSet
        /\ blocks[b].data \in [0 .. N - 1 -> Values \cup {Nil}]
        /\ blocks[b].front \in 0 .. N - 1 /\ blocks[b].localTail \in 0 .. N - 1
        /\ blocks[b].tail \in 0 .. N - 1 /\ blocks[b].localFront \in 0 .. N - 1
        /\ After(b, blocks[b].tail) \in 0 .. N - 1 /\ After(b, blocks[b].front) \in 0 .. N - 1
        /\ blocks[b].next \in Ids /\ pval \in Values \cup {Nil}
    BY BlockFacts, AfterFacts DEF Types, TypeOK
  <1> HIDE DEF N
  <1>2. [blocks[b].data EXCEPT ![blocks[b].tail] = pval] \in [0 .. N - 1 -> Values \cup {Nil}]
    BY <1>1
  <1>3. [blocks[b].data EXCEPT ![blocks[b].tail] = pval] \in Data
    BY <1>1, <1>2 DEF Data
  <1>4. blocks[b].front \in Nat /\ blocks[b].localTail \in Nat /\ blocks[b].tail \in Nat /\ blocks[b].localFront \in Nat
    BY <1>1
  <1>5. /\ k \in BlockSet /\ DOMAIN k.data = DOMAIN blocks[b].data
        /\ k.front = blocks[b].front /\ k.localTail = blocks[b].localTail
        /\ k.tail = blocks[b].tail /\ k.localFront = blocks[b].localFront
        /\ k.next = blocks[b].next
        /\ k.data = d
    BY <1>1, <1>2, <1>3, <1>4 DEF BlockSet
  <1>6. blocks' = [blocks EXCEPT ![b] = k]
    OBVIOUS
  <1> HIDE DEF k, d
  <1>7. {k.front, k.localTail, k.tail, k.localFront} \subseteq 0 .. N - 1 /\ k.next \in Ids
    BY <1>1, <1>5
  <1>8. /\ blocks' \in Seq(BlockSet) /\ Len(blocks') = Len(blocks) /\ Ids' = Ids
        /\ \A c \in Ids : blocks'[c] = IF c = b THEN k ELSE blocks[c]
        /\ \A c \in Ids : Size(c)' = Size(c) /\ BlockTypeOK(c)'
    BY <1>5, <1>6, <1>7, Rewritten DEF N
  <1>9. /\ BlocksTyped' /\ Len(blocks') = Len(blocks) /\ Ids' = Ids
        /\ \A c \in Ids : Size(c)' = Size(c)
    BY <1>8 DEF BlocksTyped
  <1>10. /\ blocks'[b].localTail = blocks[b].localTail /\ blocks'[b].localFront = blocks[b].localFront
         /\ blocks'[b].front = blocks[b].front /\ blocks'[b].tail = blocks[b].tail
         /\ blocks'[b].data = d /\ blocks'[b].next = blocks[b].next
    <2>1. blocks'[b] = k
      BY <1>8
    <2> QED
      BY <2>1, <1>5
  <1>11. \A c \in Ids : c # b => blocks'[c] = blocks[c]
    BY <1>8
  <1>12. ASSUME NEW c \in Ids
         PROVE blocks'[c].data =
              IF c = b THEN [blocks[b].data EXCEPT ![blocks[b].tail] = pval]
              ELSE blocks[c].data
    <2>1. CASE c = b
      BY <2>1, <1>10 DEF d
    <2>2. CASE c # b
      <3>1. blocks'[c] = blocks[c]
        BY <1>11, <2>2
      <3> QED
        BY <2>2, <3>1
    <2> QED
      BY <2>1, <2>2
  <1> QED
    BY <1>9, <1>10, <1>11, <1>12
       DEF ShapeKept, FrontKept, TailKept, LocalFrontKept, LocalTailKept, DataKept

\* The producer publishes the slot at tail.
LEMMA TailAdvanced ==
  ASSUME Types, NEW b \in Ids,
         blocks' = [blocks EXCEPT ![b].tail = After(b, blocks[b].tail)]
  PROVE  /\ BlocksTyped' /\ ShapeKept /\ FrontKept /\ LocalFrontKept /\ LocalTailKept /\ DataKept
         /\ \A c \in Ids : blocks'[c].tail =
              IF c = b THEN After(b, blocks[b].tail) ELSE blocks[c].tail
  <1> DEFINE k == [blocks[b] EXCEPT !.tail = After(b, blocks[b].tail)]
             N == Size(b)
             d == blocks[b].data
  <1>1. /\ N \in Nat \ {0, 1} /\ blocks[b] \in BlockSet
        /\ blocks[b].data \in [0 .. N - 1 -> Values \cup {Nil}]
        /\ blocks[b].front \in 0 .. N - 1 /\ blocks[b].localTail \in 0 .. N - 1
        /\ blocks[b].tail \in 0 .. N - 1 /\ blocks[b].localFront \in 0 .. N - 1
        /\ After(b, blocks[b].tail) \in 0 .. N - 1 /\ After(b, blocks[b].front) \in 0 .. N - 1
        /\ blocks[b].next \in Ids /\ pval \in Values \cup {Nil}
    BY BlockFacts, AfterFacts DEF Types, TypeOK
  <1> HIDE DEF N
  <1>2. blocks[b].data \in [0 .. N - 1 -> Values \cup {Nil}]
    BY <1>1
  <1>3. blocks[b].data \in Data
    BY <1>1, <1>2 DEF Data
  <1>4. blocks[b].front \in Nat /\ blocks[b].localTail \in Nat /\ After(b, blocks[b].tail) \in Nat /\ blocks[b].localFront \in Nat
    BY <1>1
  <1>5. /\ k \in BlockSet /\ DOMAIN k.data = DOMAIN blocks[b].data
        /\ k.front = blocks[b].front /\ k.localTail = blocks[b].localTail
        /\ k.tail = After(b, blocks[b].tail) /\ k.localFront = blocks[b].localFront
        /\ k.next = blocks[b].next
        /\ k.data = d
    BY <1>1, <1>2, <1>3, <1>4 DEF BlockSet
  <1>6. blocks' = [blocks EXCEPT ![b] = k]
    OBVIOUS
  <1> HIDE DEF k, d
  <1>7. {k.front, k.localTail, k.tail, k.localFront} \subseteq 0 .. N - 1 /\ k.next \in Ids
    BY <1>1, <1>5
  <1>8. /\ blocks' \in Seq(BlockSet) /\ Len(blocks') = Len(blocks) /\ Ids' = Ids
        /\ \A c \in Ids : blocks'[c] = IF c = b THEN k ELSE blocks[c]
        /\ \A c \in Ids : Size(c)' = Size(c) /\ BlockTypeOK(c)'
    BY <1>5, <1>6, <1>7, Rewritten DEF N
  <1>9. /\ BlocksTyped' /\ Len(blocks') = Len(blocks) /\ Ids' = Ids
        /\ \A c \in Ids : Size(c)' = Size(c)
    BY <1>8 DEF BlocksTyped
  <1>10. /\ blocks'[b].localTail = blocks[b].localTail /\ blocks'[b].localFront = blocks[b].localFront
         /\ blocks'[b].front = blocks[b].front /\ blocks'[b].tail = After(b, blocks[b].tail)
         /\ blocks'[b].data = d /\ blocks'[b].next = blocks[b].next
    <2>1. blocks'[b] = k
      BY <1>8
    <2> QED
      BY <2>1, <1>5
  <1>11. \A c \in Ids : c # b => blocks'[c] = blocks[c]
    BY <1>8
  <1>12. ASSUME NEW c \in Ids
         PROVE blocks'[c].tail =
              IF c = b THEN After(b, blocks[b].tail) ELSE blocks[c].tail
    <2>1. CASE c = b
      BY <2>1, <1>10 DEF d
    <2>2. CASE c # b
      <3>1. blocks'[c] = blocks[c]
        BY <1>11, <2>2
      <3> QED
        BY <2>2, <3>1
    <2> QED
      BY <2>1, <2>2
  <1> QED
    BY <1>9, <1>10, <1>11, <1>12
       DEF ShapeKept, FrontKept, TailKept, LocalFrontKept, LocalTailKept, DataKept

\* The consumer empties the slot at front and moves on.
LEMMA ElementPopped ==
  ASSUME Types, NEW b \in Ids,
         blocks' = [blocks EXCEPT ![b].front = After(b, blocks[b].front),
                                    ![b].data[blocks[b].front] = Nil]
  PROVE  /\ BlocksTyped' /\ ShapeKept /\ TailKept /\ LocalFrontKept /\ LocalTailKept
         /\ \A c \in Ids :
              /\ blocks'[c].front =
                   IF c = b THEN After(b, blocks[b].front) ELSE blocks[c].front
              /\ blocks'[c].data =
                   IF c = b THEN [blocks[b].data EXCEPT ![blocks[b].front] = Nil]
                   ELSE blocks[c].data
  <1> DEFINE k == [blocks[b] EXCEPT !.front = After(b, blocks[b].front),
                                      !.data[blocks[b].front] = Nil]
             N == Size(b)
             d == [blocks[b].data EXCEPT ![blocks[b].front] = Nil]
  <1>1. /\ N \in Nat \ {0, 1} /\ blocks[b] \in BlockSet
        /\ blocks[b].data \in [0 .. N - 1 -> Values \cup {Nil}]
        /\ blocks[b].front \in 0 .. N - 1 /\ blocks[b].localTail \in 0 .. N - 1
        /\ blocks[b].tail \in 0 .. N - 1 /\ blocks[b].localFront \in 0 .. N - 1
        /\ After(b, blocks[b].tail) \in 0 .. N - 1 /\ After(b, blocks[b].front) \in 0 .. N - 1
        /\ blocks[b].next \in Ids /\ pval \in Values \cup {Nil}
    BY BlockFacts, AfterFacts DEF Types, TypeOK
  <1> HIDE DEF N
  <1>2. [blocks[b].data EXCEPT ![blocks[b].front] = Nil] \in [0 .. N - 1 -> Values \cup {Nil}]
    BY <1>1
  <1>3. [blocks[b].data EXCEPT ![blocks[b].front] = Nil] \in Data
    BY <1>1, <1>2 DEF Data
  <1>4. After(b, blocks[b].front) \in Nat /\ blocks[b].localTail \in Nat /\ blocks[b].tail \in Nat /\ blocks[b].localFront \in Nat
    BY <1>1
  <1>5. /\ k \in BlockSet /\ DOMAIN k.data = DOMAIN blocks[b].data
        /\ k.front = After(b, blocks[b].front) /\ k.localTail = blocks[b].localTail
        /\ k.tail = blocks[b].tail /\ k.localFront = blocks[b].localFront
        /\ k.next = blocks[b].next
        /\ k.data = d
    BY <1>1, <1>2, <1>3, <1>4 DEF BlockSet
  <1>6. blocks' = [blocks EXCEPT ![b] = k]
    OBVIOUS
  <1> HIDE DEF k, d
  <1>7. {k.front, k.localTail, k.tail, k.localFront} \subseteq 0 .. N - 1 /\ k.next \in Ids
    BY <1>1, <1>5
  <1>8. /\ blocks' \in Seq(BlockSet) /\ Len(blocks') = Len(blocks) /\ Ids' = Ids
        /\ \A c \in Ids : blocks'[c] = IF c = b THEN k ELSE blocks[c]
        /\ \A c \in Ids : Size(c)' = Size(c) /\ BlockTypeOK(c)'
    BY <1>5, <1>6, <1>7, Rewritten DEF N
  <1>9. /\ BlocksTyped' /\ Len(blocks') = Len(blocks) /\ Ids' = Ids
        /\ \A c \in Ids : Size(c)' = Size(c)
    BY <1>8 DEF BlocksTyped
  <1>10. /\ blocks'[b].localTail = blocks[b].localTail /\ blocks'[b].localFront = blocks[b].localFront
         /\ blocks'[b].front = After(b, blocks[b].front) /\ blocks'[b].tail = blocks[b].tail
         /\ blocks'[b].data = d /\ blocks'[b].next = blocks[b].next
    <2>1. blocks'[b] = k
      BY <1>8
    <2> QED
      BY <2>1, <1>5
  <1>11. \A c \in Ids : c # b => blocks'[c] = blocks[c]
    BY <1>8
  <1>12. ASSUME NEW c \in Ids
         PROVE 
              /\ blocks'[c].front =
                   IF c = b THEN After(b, blocks[b].front) ELSE blocks[c].front
              /\ blocks'[c].data =
                   IF c = b THEN [blocks[b].data EXCEPT ![blocks[b].front] = Nil]
                   ELSE blocks[c].data
    <2>1. CASE c = b
      BY <2>1, <1>10 DEF d
    <2>2. CASE c # b
      <3>1. blocks'[c] = blocks[c]
        BY <1>11, <2>2
      <3> QED
        BY <2>2, <3>1
    <2> QED
      BY <2>1, <2>2
  <1> QED
    BY <1>9, <1>10, <1>11, <1>12
       DEF ShapeKept, FrontKept, TailKept, LocalFrontKept, LocalTailKept, DataKept

LEMMA NewSizeType ==
  ASSUME Types
  PROVE  NewBlockSize \in Nat \ {0, 1}
  BY DEF Types, NewBlockSize

\* A block is made, with the element in it, and linked behind the tail block.
LEMMA BlockLinked ==
  ASSUME Types, LinkNewBlock
  PROVE  /\ BlocksTyped' /\ Len(blocks') = Len(blocks) + 1 /\ Ids' = Ids \cup {Len(blocks) + 1}
         /\ FrontKept /\ TailKept /\ LocalFrontKept /\ LocalTailKept /\ DataKept
         /\ \A c \in Ids : /\ Size(c)' = Size(c)
                           /\ blocks'[c].next = IF c = tailBlock THEN Len(blocks) + 1
                                                ELSE blocks[c].next
         /\ LET n == blocks'[Len(blocks) + 1]
            IN  /\ n.front = 0 /\ n.localFront = 0 /\ n.tail = 1 /\ n.localTail = 1
                /\ n.next = NextTailBlock /\ n.data[0] = pval
                /\ Cardinality(DOMAIN n.data) = NewBlockSize
  <1>0. PICK L \in Nat : L = Len(blocks)
    BY BlockFacts
  <1> DEFINE N == NewBlockSize
             k == [blocks[tailBlock] EXCEPT !.next = L + 1]
             relinked == [blocks EXCEPT ![tailBlock] = k]
             empty == [i \in 0 .. N - 1 |-> Nil]
             filled == [empty EXCEPT ![0] = pval]
             made0 == Block(N, NextTailBlock)
             new == [made0 EXCEPT !.data[0] = pval, !.tail = 1, !.localTail = 1]
  <1>1. /\ L \in Nat /\ tailBlock \in Ids /\ blocks[tailBlock] \in BlockSet
        /\ blocks[tailBlock].next \in Ids /\ NextTailBlock \in Ids /\ N \in Nat \ {0, 1}
        /\ pval \in Values \cup {Nil} /\ blocks \in Seq(BlockSet)
        /\ Ids = 1 .. L /\ L + 1 \in Nat
    BY <1>0, BlockFacts, NewSizeType DEF Types, TypeOK, NextTailBlock, Ids
  <1>2. /\ filled \in [0 .. N - 1 -> Values \cup {Nil}] /\ filled \in Data
        /\ filled[0] = pval
    <2> HIDE DEF N
    <2>1. filled \in [0 .. N - 1 -> Values \cup {Nil}] /\ filled[0] = pval
      BY <1>1
    <2> HIDE DEF filled
    <2> QED
      BY <1>1, <2>1 DEF Data
  <1>3. blocks' = Append(relinked, new)
    BY <1>0 DEF LinkNewBlock
  <1>4. /\ k \in BlockSet /\ k.next = L + 1
        /\ k.front = blocks[tailBlock].front /\ k.localTail = blocks[tailBlock].localTail
        /\ k.tail = blocks[tailBlock].tail /\ k.localFront = blocks[tailBlock].localFront
        /\ k.data = blocks[tailBlock].data
    BY <1>1 DEF BlockSet
  <1>5. /\ new \in BlockSet /\ new.front = 0 /\ new.localTail = 1 /\ new.tail = 1
        /\ new.localFront = 0 /\ new.next = NextTailBlock /\ new.data = filled
    <2>1. /\ made0 \in BlockSet /\ made0.front = 0 /\ made0.localTail = 0 /\ made0.tail = 0
          /\ made0.localFront = 0 /\ made0.next = NextTailBlock /\ made0.data = empty
      <3> HIDE DEF N
      <3>1. empty \in [0 .. N - 1 -> Values \cup {Nil}]
        OBVIOUS
      <3>2. empty \in Data
        BY <1>1, <3>1 DEF Data
      <3>3. made0 = [front |-> 0, localTail |-> 0, tail |-> 0, localFront |-> 0,
                     next |-> NextTailBlock, data |-> empty]
        BY DEF Block
      <3> HIDE DEF empty, made0
      <3> QED
        BY <1>1, <3>2, <3>3 DEF BlockSet
    <2> HIDE DEF made0, empty
    <2> QED
      BY <1>1, <1>2, <2>1 DEF BlockSet
  <1> HIDE DEF k, new, filled, N
  <1>6. /\ relinked \in Seq(BlockSet) /\ Len(relinked) = L
        /\ \A c \in Ids : relinked[c] = IF c = tailBlock THEN k ELSE blocks[c]
    BY <1>0, <1>1, <1>4, ExceptSeq
  <1> HIDE DEF relinked
  <1>7. /\ blocks' \in Seq(BlockSet) /\ Len(blocks') = L + 1
        /\ \A c \in Ids : blocks'[c] = IF c = tailBlock THEN k ELSE blocks[c]
        /\ blocks'[L + 1] = new
    <2>1. /\ blocks' \in Seq(BlockSet) /\ Len(blocks') = L + 1
          /\ \A c \in 1 .. L : blocks'[c] = relinked[c]
          /\ blocks'[L + 1] = new
      BY <1>3, <1>5, <1>6, AppendProperties
    <2> QED
      BY <1>1, <1>6, <2>1
  <1>8. Ids' = Ids \cup {L + 1}
    BY <1>1, <1>7 DEF Ids
  <1>9. \A c \in Ids : c # tailBlock => blocks'[c] = blocks[c]
    BY <1>7
  <1>10. blocks'[tailBlock] = k
    BY <1>1, <1>7
  <1>11. FrontKept /\ TailKept /\ LocalFrontKept /\ LocalTailKept /\ DataKept
    BY <1>4, <1>9, <1>10 DEF FrontKept, TailKept, LocalFrontKept, LocalTailKept, DataKept
  <1>12. \A c \in Ids : blocks'[c].next = IF c = tailBlock THEN L + 1 ELSE blocks[c].next
    BY <1>4, <1>9, <1>10
  <1>13. \A c \in Ids : Size(c)' = Size(c)
    BY <1>11 DEF DataKept, Size
  <1>14. ASSUME NEW c \in Ids PROVE BlockTypeOK(c)'
    <2>1. /\ blocks[c].data \in [0 .. Size(c) - 1 -> Values \cup {Nil}]
          /\ {blocks[c].front, blocks[c].localTail, blocks[c].tail, blocks[c].localFront}
               \subseteq 0 .. Size(c) - 1
          /\ blocks[c].next \in 1 .. L
      BY <1>1, BlockFacts
    <2>2. blocks'[c].next \in 1 .. L + 1
      BY <1>1, <1>12, <2>1
    <2>3. /\ blocks'[c].data \in [0 .. Size(c)' - 1 -> Values \cup {Nil}]
          /\ {blocks'[c].front, blocks'[c].localTail, blocks'[c].tail, blocks'[c].localFront}
               \subseteq 0 .. Size(c)' - 1
      BY <1>11, <1>13, <2>1 DEF FrontKept, TailKept, LocalFrontKept, LocalTailKept, DataKept
    <2> QED
      BY <1>7, <2>2, <2>3 DEF BlockTypeOK
  <1>15. BlockTypeOK(L + 1)' /\ Size(L + 1)' = N
    <2>1. Size(L + 1)' = N
      <3>1. DOMAIN filled = 0 .. N - 1
        BY <1>2
      <3>2. N - 1 \in Int /\ 0 \in Int /\ ~(0 > N - 1) /\ (N - 1) - 0 + 1 = N
        BY <1>1
      <3>3. Cardinality(0 .. N - 1) = N
        BY <3>2, FS_Interval
      <3> QED
        BY <1>5, <1>7, <3>1, <3>3 DEF Size
    <2>2. /\ new.data \in [0 .. N - 1 -> Values \cup {Nil}]
          /\ {new.front, new.localTail, new.tail, new.localFront} \subseteq 0 .. N - 1
          /\ new.next \in 1 .. L + 1
      BY <1>1, <1>2, <1>5
    <2>3. BlockTypeOK(L + 1)'
      BY <1>7, <2>1, <2>2 DEF BlockTypeOK
    <2> QED
      BY <2>1, <2>3
  <1>16. BlocksTyped'
    <2>1. \A c \in Ids \cup {L + 1} : BlockTypeOK(c)'
      BY <1>14, <1>15
    <2> QED
      BY <1>7, <1>8, <2>1 DEF BlocksTyped
  <1>17. LET n == blocks'[Len(blocks) + 1]
         IN  /\ n.front = 0 /\ n.localFront = 0 /\ n.tail = 1 /\ n.localTail = 1
             /\ n.next = NextTailBlock /\ n.data[0] = pval
             /\ Cardinality(DOMAIN n.data) = NewBlockSize
    <2>1. Cardinality(DOMAIN blocks'[L + 1].data) = NewBlockSize
      BY <1>15 DEF N, Size
    <2> QED
      BY <1>0, <1>2, <1>5, <1>7, <2>1
  <1> QED
    BY <1>0, <1>7, <1>8, <1>11, <1>12, <1>13, <1>16, <1>17

-----------------------------------------------------------------------------
(* Types.                                                                  *)

LEMMA TypesInit ==
  ASSUME Init
  PROVE  /\ Types
         /\ \A b \in Ids : /\ blocks[b].front = 0 /\ blocks[b].localTail = 0
                           /\ blocks[b].tail = 0 /\ blocks[b].localFront = 0
         /\ \E n \in Nat \ {0} : /\ Ids = 1 .. n
                                 /\ \A b \in Ids : blocks[b].next = (b % n) + 1
         /\ Len(blocks) = InitialBlockCount(maxSize)
         /\ \A b \in Ids : Size(b) = InitialBlockSize(maxSize)
         /\ largestBlockSize = InitialBlockSize(maxSize)
  <1> DEFINE n == InitialBlockCount(maxSize)
             z == InitialBlockSize(maxSize)
  <1>1. made \in Constructions
    BY DEF Init
  <1>2. n \in Nat \ {0} /\ z \in Nat \ {0, 1}
    BY <1>1, InitialTypes
  <1>3. z \in Nat \ {0, 1}
    BY <1>2
  <1>4. blocks = [b \in 1 .. n |-> Block(z, (b % n) + 1)] /\ largestBlockSize = z
    BY DEF Init
  <1> HIDE DEF n, z
  <1>5. ASSUME NEW b \in 1 .. n
        PROVE  /\ blocks[b] \in BlockSet
               /\ blocks[b].next \in 1 .. n /\ blocks[b].next = (b % n) + 1
               /\ blocks[b].front = 0 /\ blocks[b].localTail = 0
               /\ blocks[b].tail = 0 /\ blocks[b].localFront = 0
               /\ blocks[b].data \in [0 .. z - 1 -> Values \cup {Nil}]
    <2> DEFINE x == (b % n) + 1
               e == [i \in 0 .. z - 1 |-> Nil]
    <2>1. x \in 1 .. n
      BY <1>2, NextInRing
    <2>2. e \in [0 .. z - 1 -> Values \cup {Nil}]
      OBVIOUS
    <2>3. e \in Data
      BY <1>3, <2>2 DEF Data
    <2>4. blocks[b] = [front |-> 0, localTail |-> 0, tail |-> 0, localFront |-> 0,
                       next |-> x, data |-> e]
      BY <1>4 DEF Block
    <2> HIDE DEF e
    <2>5. blocks[b].next = x
      BY <2>4
    <2> HIDE DEF x
    <2>6. /\ blocks[b] \in BlockSet /\ blocks[b].next \in 1 .. n
          /\ blocks[b].front = 0 /\ blocks[b].localTail = 0
          /\ blocks[b].tail = 0 /\ blocks[b].localFront = 0
          /\ blocks[b].data \in [0 .. z - 1 -> Values \cup {Nil}]
      BY <1>2, <2>1, <2>2, <2>3, <2>4 DEF BlockSet
    <2> QED
      BY <2>5, <2>6 DEF x
  <1>6. DOMAIN blocks = 1 .. n /\ blocks \in Seq(BlockSet) /\ Len(blocks) = n
    <2>1. blocks \in [1 .. n -> BlockSet]
      BY <1>4, <1>5
    <2> QED
      BY <1>2, <2>1
  <1>7. \A b \in 1 .. n : Size(b) = z
    <2>1. z - 1 \in Int /\ 0 \in Int /\ ~(0 > z - 1) /\ (z - 1) - 0 + 1 = z
      BY <1>3
    <2>2. Cardinality(0 .. z - 1) = z
      BY <2>1, FS_Interval
    <2>3. \A b \in 1 .. n : DOMAIN blocks[b].data = 0 .. z - 1
      BY <1>5
    <2> QED
      BY <2>2, <2>3 DEF Size
  <1>8. \A b \in 1 .. n : BlockTypeOK(b)
    BY <1>3, <1>5, <1>6, <1>7 DEF BlockTypeOK
  <1>9. {frontBlock, tailBlock} \subseteq 1 .. n
    BY <1>2 DEF Init
  <1>10. /\ made \in Constructions
         /\ ppc = "idle" /\ pval = Nil /\ pmode = "CannotAlloc"
         /\ cpc = "idle" /\ cop = "none" /\ cval = Nil
         /\ calls = 0 /\ fullAtCall = FALSE /\ emptyAtCall = FALSE
         /\ last = "none" /\ got = Nil
    BY DEF Init
  <1>11. calls \in 0 .. MaxEnqueues
    BY <1>10, SpscAssumption
  <1>12. Types
    BY <1>3, <1>4, <1>6, <1>8, <1>9, <1>10, <1>11 DEF Types, TypeOK
  <1>13. Len(blocks) = n /\ largestBlockSize = z /\ \A b \in Ids : Size(b) = z
    BY <1>4, <1>6, <1>7 DEF Ids
  <1> QED
    BY <1>2, <1>5, <1>6, <1>12, <1>13 DEF Ids, n, z

\* The types of all but the blocks, which no step changes unless it says so.
LocalsTyped ==
  /\ made \in Constructions
  /\ largestBlockSize \in Nat \ {0, 1}
  /\ ppc \in {"idle", "readFront", "write", "publish", "tailFull", "readNextFront",
             "writeNext", "publishNext", "link", "advanceTail"}
  /\ pval \in Values \cup {Nil} /\ pmode \in {"CanAlloc", "CannotAlloc"}
  /\ cpc \in {"idle", "readTail", "readTailBlock", "recheckTail", "readNextTail",
             "advanceFront", "peekNext", "take", "pop"}
  /\ {cop, last} \subseteq {"none", "peek", "dequeue"}
  /\ {cval, got} \subseteq Values \cup {Nil}
  /\ calls \in 0 .. MaxEnqueues /\ {fullAtCall, emptyAtCall} \subseteq BOOLEAN

LEMMA TypesSplit ==
  Types <=> BlocksTyped /\ LocalsTyped /\ {frontBlock, tailBlock} \subseteq Ids
  BY DEF Types, TypeOK, BlocksTyped, LocalsTyped, Ids

LEMMA LocalsStep ==
  ASSUME Types, [Next]_vars
  PROVE  LocalsTyped'
  <1>0. LocalsTyped /\ NewBlockSize \in Nat \ {0, 1}
    BY TypesSplit, NewSizeType
  <1> USE DEF LocalsTyped
  <1>1. CASE \E mode \in {"CanAlloc", "CannotAlloc"} : EnqueueCall(mode)
    <2>1. calls + 1 \in 0 .. MaxEnqueues /\ calls + 1 \in Values
      BY <1>0, <1>1, SpscAssumption DEF EnqueueCall, Values
    <2> QED
      BY <1>0, <1>1, <2>1 DEF EnqueueCall, consumerVars
  <1>2. CASE ReadFront \/ WriteElement \/ PublishTail \/ TailFull \/ ReadNextFront
             \/ WriteNext \/ PublishNext \/ LinkNewBlock \/ AdvanceTail
    BY <1>0, <1>2
       DEF ReadFront, WriteElement, PublishTail, TailFull, ReadNextFront, WriteNext,
           PublishNext, LinkNewBlock, AdvanceTail, ProducerGoto, EnqueueDone, consumerVars
  <1>3. CASE \E op \in {"peek", "dequeue"} : ConsumerCall(op)
    BY <1>0, <1>3 DEF ConsumerCall, producerVars
  <1>4. CASE ReadTail \/ ReadTailBlock \/ RecheckTail \/ ReadNextTail \/ AdvanceFront
    BY <1>0, <1>4
       DEF ReadTail, ReadTailBlock, RecheckTail, ReadNextTail, AdvanceFront, RefreshTail,
           ConsumerGoto, Return, producerVars
  <1>5. CASE PeekNext \/ TakeElement \/ PopElement
    <2>1. FrontElement(frontBlock) \in Values \cup {Nil}
      BY BlockFacts DEF FrontElement
    <2>2. FrontElement(NextFrontBlock) \in Values \cup {Nil}
      BY BlockFacts DEF FrontElement, NextFrontBlock
    <2> QED
      BY <1>0, <1>5, <2>1, <2>2 DEF PeekNext, TakeElement, PopElement, Return, producerVars
  <1>6. CASE UNCHANGED vars
    BY <1>0, <1>6 DEF vars, producerVars, consumerVars
  <1> QED
    BY <1>1, <1>2, <1>3, <1>4, <1>5, <1>6 DEF Next, Producer, Consumer

LEMMA TypesStep ==
  ASSUME Types, [Next]_vars
  PROVE  Types'
  <1>0. /\ BlocksTyped /\ tailBlock \in Ids /\ frontBlock \in Ids
        /\ NextTailBlock \in Ids /\ NextFrontBlock \in Ids
    BY TypesSplit, BlockFacts DEF NextTailBlock, NextFrontBlock
  <1>1. LocalsTyped'
    BY LocalsStep
  <1>2. SUFFICES BlocksTyped' /\ frontBlock' \in Ids' /\ tailBlock' \in Ids'
    BY <1>1 DEF Types, TypeOK, BlocksTyped, LocalsTyped, Ids
  <1>3. CASE UNCHANGED blocks
    <2>1. BlocksTyped' /\ Ids' = Ids
      BY <1>0, <1>3 DEF BlocksTyped, Ids, BlockTypeOK, Size
    <2>2. /\ frontBlock' \in {frontBlock, NextFrontBlock}
          /\ tailBlock' \in {tailBlock, NextTailBlock}
      BY DEF Next, Producer, Consumer, EnqueueCall, ReadFront, WriteElement, PublishTail,
             TailFull, ReadNextFront, WriteNext, PublishNext, LinkNewBlock, AdvanceTail,
             ConsumerCall, ReadTail, ReadTailBlock, RecheckTail, RefreshTail, ReadNextTail,
             AdvanceFront, PeekNext, TakeElement, PopElement, vars
    <2> QED
      BY <1>0, <2>1, <2>2
  <1>4. CASE ReadFront
    <2>1. BlocksTyped' /\ ShapeKept
      BY <1>0, <1>4, LocalFrontSet DEF ReadFront
    <2> QED
      BY <1>0, <1>4, <2>1 DEF ReadFront, ShapeKept
  <1>5. CASE ReadNextFront
    <2>1. BlocksTyped' /\ ShapeKept
      BY <1>0, <1>5, LocalFrontSet DEF ReadNextFront
    <2> QED
      BY <1>0, <1>5, <2>1 DEF ReadNextFront, ShapeKept
  <1>6. CASE WriteElement
    <2>1. BlocksTyped' /\ ShapeKept
      BY <1>0, <1>6, ElementWritten DEF WriteElement
    <2> QED
      BY <1>0, <1>6, <2>1 DEF WriteElement, ShapeKept
  <1>7. CASE WriteNext
    <2>1. BlocksTyped' /\ ShapeKept
      BY <1>0, <1>7, ElementWritten DEF WriteNext
    <2> QED
      BY <1>0, <1>7, <2>1 DEF WriteNext, ShapeKept
  <1>8. CASE PublishTail
    <2>1. BlocksTyped' /\ ShapeKept
      BY <1>0, <1>8, TailAdvanced DEF PublishTail
    <2> QED
      BY <1>0, <1>8, <2>1 DEF PublishTail, ShapeKept
  <1>9. CASE PublishNext
    <2>1. BlocksTyped' /\ ShapeKept
      BY <1>0, <1>9, TailAdvanced DEF PublishNext
    <2> QED
      BY <1>0, <1>9, <2>1 DEF PublishNext, ShapeKept
  <1>10. CASE LinkNewBlock
    BY <1>0, <1>10, BlockLinked DEF LinkNewBlock
  <1>11. CASE \E otherwise \in {"readTailBlock", "readNextTail"} : RefreshTail(otherwise)
    <2>1. BlocksTyped' /\ ShapeKept
      BY <1>0, <1>11, LocalTailSet DEF RefreshTail
    <2> QED
      BY <1>0, <1>11, <2>1 DEF RefreshTail, ShapeKept
  <1>12. CASE ReadNextTail /\ ~UNCHANGED blocks
    <2>1. BlocksTyped' /\ ShapeKept
      BY <1>0, <1>12, LocalTailSet DEF ReadNextTail
    <2> QED
      BY <1>0, <1>12, <2>1 DEF ReadNextTail, ShapeKept
  <1>13. CASE PopElement
    <2>1. BlocksTyped' /\ ShapeKept
      BY <1>0, <1>13, ElementPopped DEF PopElement
    <2> QED
      BY <1>0, <1>13, <2>1 DEF PopElement, ShapeKept
  <1> QED
    BY <1>3, <1>4, <1>5, <1>6, <1>7, <1>8, <1>9, <1>10, <1>11, <1>12, <1>13
       DEF Next, Producer, Consumer, EnqueueCall, TailFull, AdvanceTail, ConsumerCall,
           ReadTail, ReadTailBlock, RecheckTail, AdvanceFront, PeekNext, TakeElement, vars

-----------------------------------------------------------------------------
(* What the invariant says, and when its parts are kept.                   *)

LEMMA RoomAhead ==
  ASSUME NEW n \in Nat \ {0, 1}, NEW lf \in 0 .. n - 1, NEW f \in 0 .. n - 1,
         NEW lt \in 0 .. n - 1, NEW t \in 0 .. n - 1, NEW u,
         u = IF t + 1 = n THEN 0 ELSE t + 1,
         Cyclic(lf, f, t), Cyclic(f, lt, t), u # lf
  PROVE  Cyclic(lf, f, u) /\ Cyclic(f, lt, u) /\ u # f
  BY DEF Cyclic

LEMMA ElementAhead ==
  ASSUME NEW n \in Nat \ {0, 1}, NEW lf \in 0 .. n - 1, NEW f \in 0 .. n - 1,
         NEW lt \in 0 .. n - 1, NEW t \in 0 .. n - 1, NEW u,
         u = IF f + 1 = n THEN 0 ELSE f + 1,
         Cyclic(lf, f, t), Cyclic(f, lt, t), f # lt
  PROVE  Cyclic(lf, u, t) /\ Cyclic(u, lt, t)
  BY DEF Cyclic

LEMMA CyclicEnds ==
  ASSUME NEW i \in Nat, NEW j \in Nat
  PROVE  /\ Cyclic(i, i, j) /\ Cyclic(i, j, j)
         /\ \A k \in Nat : Cyclic(i, k, i) => k = i
  BY DEF Cyclic

\* The consumer knows of no element that is not there.
LEMMA KnownIsThere ==
  ASSUME Types, Rings, NEW b \in Ids, blocks[b].front # blocks[b].localTail
  PROVE  ~Empty(b)
  <1>1. /\ blocks[b].front \in Nat /\ blocks[b].localTail \in Nat /\ blocks[b].tail \in Nat
    BY BlockFacts
  <1> QED
    BY <1>1, CyclicEnds DEF Rings, Empty

LEMMA NextBlocks ==
  ASSUME Types, Chained
  PROVE  /\ NextTailBlock \in Ids /\ NextFrontBlock \in Ids
         /\ frontBlock # tailBlock => /\ ~Empty(NextFrontBlock)
                                      /\ NextFrontBlock # frontBlock
                                      /\ NextTailBlock # NextFrontBlock
                                      /\ ~Empty(tailBlock)
         /\ ppc \in {"readNextFront", "writeNext", "publishNext", "advanceTail"} =>
              /\ NextTailBlock # frontBlock /\ NextTailBlock # tailBlock
              /\ frontBlock # tailBlock => NextTailBlock # NextFrontBlock
         /\ ppc \in {"readNextFront", "writeNext", "publishNext"} => Empty(NextTailBlock)
  <1>1. PICK U \in SUBSET Ids : Chain(U)
    BY DEF Chained
  <1>2. /\ NextTailBlock \in Ids /\ NextFrontBlock \in Ids
    BY BlockFacts DEF NextTailBlock, NextFrontBlock
  <1>3. frontBlock # tailBlock => NextFrontBlock \in U \ {frontBlock}
    BY <1>1 DEF Chain, NextFrontBlock
  <1>4. NextTailBlock \notin U \ {frontBlock}
    BY <1>1 DEF Chain, NextTailBlock
  <1> QED
    BY <1>1, <1>2, <1>3, <1>4 DEF Chain

LEMMA RingsKept ==
  ASSUME Rings, ShapeKept, FrontKept, TailKept, LocalFrontKept, LocalTailKept
  PROVE  Rings'
  BY DEF Rings, ShapeKept, FrontKept, TailKept, LocalFrontKept, LocalTailKept

LEMMA LinkedKept ==
  ASSUME Linked, ShapeKept
  PROVE  Linked'
  BY DEF Linked, ShapeKept

LEMMA ChainedKept ==
  ASSUME Types, Chained, ShapeKept, UNCHANGED <<frontBlock, tailBlock>>,
         \A b \in Ids : Empty(b)' <=> Empty(b),
         ppc' = "advanceTail" <=> ppc = "advanceTail",
         ppc' \in {"readNextFront", "writeNext", "publishNext"} =>
           \/ ppc \in {"readNextFront", "writeNext", "publishNext"}
           \/ NextTailBlock # frontBlock
  PROVE  Chained'
  <1>1. PICK U \in SUBSET Ids : Chain(U)
    BY DEF Chained
  <1>2. /\ NextTailBlock' = NextTailBlock /\ Ids' = Ids /\ frontBlock' = frontBlock
        /\ tailBlock' = tailBlock /\ \A b \in Ids : blocks'[b].next = blocks[b].next
    BY BlockFacts DEF NextTailBlock, ShapeKept
  <1>3. /\ \A b \in U \ {tailBlock} : blocks'[b].next \in U \ {frontBlock}
        /\ \A b \in (Ids \ U) \cup {tailBlock} : blocks'[b].next \notin U \ {frontBlock}
    BY <1>1, <1>2, BlockFacts DEF Chain
  <1>4. /\ \A b \in U \ {frontBlock} : ~Empty(b)'
        /\ \A b \in Ids \ U : Empty(b)' \/ (ppc' = "advanceTail" /\ b = NextTailBlock)
    BY <1>1 DEF Chain
  <1>5. ppc' \in {"readNextFront", "writeNext", "publishNext", "advanceTail"} =>
          NextTailBlock \notin U
    BY <1>1 DEF Chain, NextTailBlock
  <1>6. Chain(U)'
    BY <1>1, <1>2, <1>3, <1>4, <1>5 DEF Chain
  <1> QED
    BY <1>2, <1>6 DEF Chained

\* A step of the producer keeps what concerns the consumer if it leaves the
\* elements of the front block and of the next one alone.
LEMMA ConsumerUntouched ==
  ASSUME Inv, FrontKept, LocalTailKept, UNCHANGED <<frontBlock, tailBlock, consumerVars>>,
         frontBlock # tailBlock => NextFrontBlock' = NextFrontBlock,
         ~Empty(frontBlock) =>
           ~Empty(frontBlock)' /\ FrontElement(frontBlock)' = FrontElement(frontBlock),
         Empty(frontBlock) /\ frontBlock # tailBlock =>
           Empty(frontBlock)' /\ FrontElement(NextFrontBlock)' = FrontElement(NextFrontBlock)
  PROVE  Consuming' /\ Promised'
  <1>1. frontBlock \in Ids /\ NextFrontBlock \in Ids
    BY BlockFacts DEF Inv, NextFrontBlock
  <1>2. Consuming'
    BY <1>1 DEF Inv, Consuming, FrontKept, LocalTailKept, consumerVars
  <1>3. Promised'
    BY <1>1 DEF Inv, Consuming, Promised, consumerVars
  <1> QED
    BY <1>2, <1>3

\* A step of the consumer keeps what concerns the producer if it leaves the
\* front of the next tail block alone.
LEMMA ProducerUntouched ==
  ASSUME Inv, ShapeKept, TailKept, LocalFrontKept, UNCHANGED <<tailBlock, producerVars>>,
         \A b \in Ids \ {frontBlock} : blocks'[b].front = blocks[b].front
  PROVE  Producing'
  <1>1. /\ tailBlock \in Ids /\ NextTailBlock \in Ids
        /\ ppc \in {"readNextFront", "writeNext", "publishNext", "advanceTail"} =>
             NextTailBlock # frontBlock
    BY NextBlocks, BlockFacts DEF Inv
  <1>2. NextTailBlock' = NextTailBlock /\ tailBlock' = tailBlock /\ ppc' = ppc
    BY <1>1 DEF NextTailBlock, ShapeKept, producerVars
  <1>3. After(tailBlock, blocks[tailBlock].tail)' = After(tailBlock, blocks[tailBlock].tail)
    BY <1>1, <1>2 DEF After, ShapeKept, TailKept
  <1> QED
    BY <1>1, <1>2, <1>3 DEF Inv, Producing, Empty, TailKept, LocalFrontKept

-----------------------------------------------------------------------------
(* The steps of the producer.                                              *)

LEMMA EnqueueCallKeeps ==
  ASSUME Inv, NEW mode \in {"CanAlloc", "CannotAlloc"}, EnqueueCall(mode)
  PROVE  Inv'
  <1>1. Types'
    BY TypesStep DEF Inv, Next, Producer
  <1>2. /\ UNCHANGED <<blocks, frontBlock, tailBlock, consumerVars>>
        /\ ppc = "idle" /\ ppc' \in {"write", "readFront"}
        /\ ppc' = "write" => HasRoom(blocks[tailBlock].localFront)
    BY DEF EnqueueCall
  <1>3. ShapeKept /\ FrontKept /\ LocalTailKept /\ NextFrontBlock' = NextFrontBlock
        /\ \A b \in Ids : Empty(b)' <=> Empty(b)
    BY <1>2 DEF ShapeKept, FrontKept, LocalTailKept, Ids, Size, NextFrontBlock, Empty
  <1>4. Rings' /\ Linked'
    BY <1>2 DEF Inv, Rings, Linked, Ids
  <1>5. Chained'
    BY <1>2, <1>3, ChainedKept DEF Inv
  <1>6. Producing'
    BY <1>2 DEF Producing, HasRoom, After, Size
  <1>7. Consuming' /\ Promised'
    BY <1>2, <1>3, ConsumerUntouched DEF Empty, FrontElement, NextFrontBlock
  <1> QED
    BY <1>1, <1>4, <1>5, <1>6, <1>7 DEF Inv

LEMMA ReadFrontKeeps ==
  ASSUME Inv, ReadFront
  PROVE  Inv'
  <1>1. Types' /\ tailBlock \in Ids /\ frontBlock \in Ids /\ NextFrontBlock \in Ids
    BY TypesStep, BlockFacts DEF Inv, Next, Producer, NextFrontBlock
  <1>2. /\ UNCHANGED <<frontBlock, tailBlock, consumerVars>>
        /\ ppc = "readFront" /\ ppc' \in {"write", "tailFull"}
        /\ ppc' = "write" => HasRoom(blocks[tailBlock].front)
    BY DEF ReadFront, ProducerGoto
  <1>3. /\ ShapeKept /\ FrontKept /\ TailKept /\ LocalTailKept /\ DataKept
        /\ \A b \in Ids : blocks'[b].localFront =
             IF b = tailBlock THEN blocks[b].front ELSE blocks[b].localFront
    BY <1>1, LocalFrontSet DEF Inv, ReadFront
  <1>4. /\ NextFrontBlock' = NextFrontBlock
        /\ \A b \in Ids : /\ Empty(b)' <=> Empty(b)
                          /\ FrontElement(b)' = FrontElement(b)
    BY <1>1, <1>2, <1>3
       DEF ShapeKept, FrontKept, TailKept, DataKept, NextFrontBlock, Empty, FrontElement
  <1>5. Rings'
    <2>1. ASSUME NEW b \in Ids
          PROVE  /\ Cyclic(blocks'[b].localFront, blocks'[b].front, blocks'[b].tail)
                 /\ Cyclic(blocks'[b].front, blocks'[b].localTail, blocks'[b].tail)
      <3>1. blocks[b].front \in Nat /\ blocks[b].tail \in Nat
        BY BlockFacts DEF Inv
      <3>2. Cyclic(blocks[b].front, blocks[b].front, blocks[b].tail)
        BY <3>1, CyclicEnds
      <3> QED
        BY <1>3, <3>2 DEF Inv, Rings, FrontKept, TailKept, LocalTailKept
    <2> QED
      BY <1>3, <2>1 DEF Rings, ShapeKept
  <1>6. Linked'
    BY <1>3, LinkedKept DEF Inv
  <1>7. Chained'
    BY <1>2, <1>3, <1>4, ChainedKept DEF Inv
  <1>8. Producing'
    <2>1. After(tailBlock, blocks[tailBlock].tail)' = After(tailBlock, blocks[tailBlock].tail)
      BY <1>1, <1>2, <1>3 DEF After, ShapeKept, TailKept
    <2> QED
      BY <1>1, <1>2, <1>3, <2>1 DEF Producing, HasRoom
  <1>9. Consuming' /\ Promised'
    BY <1>1, <1>2, <1>3, <1>4, ConsumerUntouched
  <1> QED
    BY <1>1, <1>5, <1>6, <1>7, <1>8, <1>9 DEF Inv

LEMMA WriteElementKeeps ==
  ASSUME Inv, WriteElement
  PROVE  Inv'
  <1>1. Types' /\ tailBlock \in Ids /\ frontBlock \in Ids /\ NextFrontBlock \in Ids
    BY TypesStep, BlockFacts DEF Inv, Next, Producer, NextFrontBlock
  <1>2. /\ UNCHANGED <<frontBlock, tailBlock, consumerVars>>
        /\ ppc = "write" /\ ppc' = "publish"
    BY DEF WriteElement, ProducerGoto
  <1>3. /\ ShapeKept /\ FrontKept /\ TailKept /\ LocalFrontKept /\ LocalTailKept
        /\ \A b \in Ids : blocks'[b].data =
             IF b = tailBlock THEN [blocks[b].data EXCEPT ![blocks[b].tail] = pval]
             ELSE blocks[b].data
    BY <1>1, ElementWritten, ZenonT(30) DEF Inv, WriteElement
  <1>4. /\ NextFrontBlock' = NextFrontBlock
        /\ \A b \in Ids : Empty(b)' <=> Empty(b)
    BY <1>1, <1>2, <1>3 DEF ShapeKept, FrontKept, TailKept, NextFrontBlock, Empty
  <1>5. ASSUME NEW b \in Ids, ~Empty(b)
        PROVE  FrontElement(b)' = FrontElement(b)
    <2>1. blocks'[b].data[blocks[b].front] = blocks[b].data[blocks[b].front]
      BY <1>3, <1>5, BlockFacts DEF Inv, Empty
    <2> QED
      BY <1>3, <2>1 DEF FrontKept, FrontElement
  <1>6. Rings' /\ Linked'
    BY <1>3, RingsKept, LinkedKept DEF Inv
  <1>7. Chained'
    BY <1>2, <1>3, <1>4, ChainedKept DEF Inv
  <1>8. Producing'
    <2>1. After(tailBlock, blocks[tailBlock].tail)' = After(tailBlock, blocks[tailBlock].tail)
      BY <1>1, <1>2, <1>3 DEF After, ShapeKept, TailKept
    <2> QED
      BY <1>1, <1>2, <1>3, <2>1 DEF Inv, Producing, LocalFrontKept
  <1>9. Consuming' /\ Promised'
    <2>1. frontBlock # tailBlock => ~Empty(NextFrontBlock)
      BY NextBlocks DEF Inv
    <2> QED
      BY <1>1, <1>2, <1>3, <1>4, <1>5, <2>1, ConsumerUntouched
  <1> QED
    BY <1>1, <1>6, <1>7, <1>8, <1>9 DEF Inv

LEMMA PublishTailKeeps ==
  ASSUME Inv, PublishTail
  PROVE  Inv'
  <1>1. Types' /\ tailBlock \in Ids /\ frontBlock \in Ids /\ NextFrontBlock \in Ids
    BY TypesStep, BlockFacts DEF Inv, Next, Producer, NextFrontBlock
  <1>2. /\ UNCHANGED <<frontBlock, tailBlock, consumerVars>>
        /\ ppc = "publish" /\ ppc' = "idle"
    BY DEF PublishTail, EnqueueDone
  <1>3. /\ ShapeKept /\ FrontKept /\ LocalFrontKept /\ LocalTailKept /\ DataKept
        /\ \A b \in Ids : blocks'[b].tail =
             IF b = tailBlock THEN After(tailBlock, blocks[tailBlock].tail)
             ELSE blocks[b].tail
    BY <1>1, TailAdvanced DEF Inv, PublishTail
  <1>4. /\ Cyclic(blocks[tailBlock].localFront, blocks[tailBlock].front,
                  After(tailBlock, blocks[tailBlock].tail))
        /\ Cyclic(blocks[tailBlock].front, blocks[tailBlock].localTail,
                  After(tailBlock, blocks[tailBlock].tail))
        /\ After(tailBlock, blocks[tailBlock].tail) # blocks[tailBlock].front
    <2> DEFINE n == Size(tailBlock)
               lf == blocks[tailBlock].localFront
               f == blocks[tailBlock].front
               lt == blocks[tailBlock].localTail
               t == blocks[tailBlock].tail
               u == After(tailBlock, t)
    <2>1. u # lf /\ Cyclic(lf, f, t) /\ Cyclic(f, lt, t)
      BY <1>1, <1>2 DEF Inv, Producing, Rings
    <2>2. /\ n \in Nat \ {0, 1} /\ lf \in 0 .. n - 1 /\ f \in 0 .. n - 1
          /\ lt \in 0 .. n - 1 /\ t \in 0 .. n - 1
      BY <1>1, BlockFacts DEF Inv
    <2>3. u = IF t + 1 = n THEN 0 ELSE t + 1
      BY <1>1, AfterFacts DEF Inv
    <2> HIDE DEF n, lf, f, lt, t, u
    <2>4. Cyclic(lf, f, u) /\ Cyclic(f, lt, u) /\ u # f
      BY <2>1, <2>2, <2>3, RoomAhead
    <2> QED
      BY <2>4 DEF lf, f, lt, t, u
  <1>5. ~Empty(tailBlock)' /\ \A b \in Ids \ {tailBlock} : Empty(b)' <=> Empty(b)
    BY <1>1, <1>2, <1>3, <1>4 DEF Empty, FrontKept
  <1>6. Rings'
    <2>1. ASSUME NEW b \in Ids
          PROVE  /\ Cyclic(blocks'[b].localFront, blocks'[b].front, blocks'[b].tail)
                 /\ Cyclic(blocks'[b].front, blocks'[b].localTail, blocks'[b].tail)
      BY <1>3, <1>4 DEF Inv, Rings, FrontKept, LocalFrontKept, LocalTailKept
    <2> QED
      BY <1>3, <2>1 DEF Rings, ShapeKept
  <1>7. Linked'
    BY <1>3, LinkedKept DEF Inv
  <1>8. Chained'
    <2>1. PICK U \in SUBSET Ids : Chain(U)
      BY DEF Inv, Chained
    <2>2. Chain(U)'
      BY <1>1, <1>2, <1>3, <1>5, <2>1 DEF Chain, ShapeKept
    <2> QED
      BY <1>3, <2>2 DEF Chained, ShapeKept
  <1>9. Producing'
    BY <1>2 DEF Producing
  <1>10. Consuming' /\ Promised'
    <2>1. NextFrontBlock' = NextFrontBlock
      BY <1>1, <1>2, <1>3 DEF NextFrontBlock, ShapeKept
    <2>2. \A b \in Ids : FrontElement(b)' = FrontElement(b)
      BY <1>3 DEF FrontElement, FrontKept, DataKept
    <2> QED
      BY <1>1, <1>2, <1>3, <1>5, <2>1, <2>2, ConsumerUntouched
  <1> QED
    BY <1>1, <1>6, <1>7, <1>8, <1>9, <1>10 DEF Inv

LEMMA TailFullKeeps ==
  ASSUME Inv, TailFull
  PROVE  Inv'
  <1>1. Types'
    BY TypesStep DEF Inv, Next, Producer
  <1>2. /\ UNCHANGED <<blocks, frontBlock, tailBlock, consumerVars>>
        /\ ppc = "tailFull" /\ ppc' \in {"readNextFront", "link", "idle"}
        /\ ppc' = "readNextFront" => NextTailBlock # frontBlock
    BY DEF TailFull, ProducerGoto, EnqueueDone
  <1>3. ShapeKept /\ FrontKept /\ LocalTailKept /\ NextFrontBlock' = NextFrontBlock
        /\ \A b \in Ids : Empty(b)' <=> Empty(b)
    BY <1>2 DEF ShapeKept, FrontKept, LocalTailKept, Ids, Size, NextFrontBlock, Empty
  <1>4. Rings' /\ Linked'
    BY <1>2 DEF Inv, Rings, Linked, Ids
  <1>5. Chained'
    BY <1>2, <1>3, ChainedKept DEF Inv
  <1>6. Producing'
    BY <1>2 DEF Producing
  <1>7. Consuming' /\ Promised'
    BY <1>2, <1>3, ConsumerUntouched DEF Empty, FrontElement, NextFrontBlock
  <1> QED
    BY <1>1, <1>4, <1>5, <1>6, <1>7 DEF Inv

LEMMA ReadNextFrontKeeps ==
  ASSUME Inv, ReadNextFront
  PROVE  Inv'
  <1>1. /\ Types' /\ tailBlock \in Ids /\ frontBlock \in Ids
        /\ NextFrontBlock \in Ids /\ NextTailBlock \in Ids
    BY TypesStep, BlockFacts, NextBlocks DEF Inv, Next, Producer
  <1>2. /\ UNCHANGED <<frontBlock, tailBlock, consumerVars>>
        /\ ppc = "readNextFront" /\ ppc' = "writeNext"
    BY DEF ReadNextFront, ProducerGoto
  <1>3. /\ ShapeKept /\ FrontKept /\ TailKept /\ LocalTailKept /\ DataKept
        /\ \A b \in Ids : blocks'[b].localFront =
             IF b = NextTailBlock THEN blocks[NextTailBlock].front ELSE blocks[b].localFront
    BY <1>1, LocalFrontSet DEF Inv, ReadNextFront
  <1>4. /\ NextFrontBlock' = NextFrontBlock /\ NextTailBlock' = NextTailBlock
        /\ \A b \in Ids : /\ Empty(b)' <=> Empty(b)
                          /\ FrontElement(b)' = FrontElement(b)
    BY <1>1, <1>2, <1>3
       DEF ShapeKept, FrontKept, TailKept, DataKept, NextFrontBlock, NextTailBlock, Empty,
           FrontElement
  <1>5. Rings'
    <2>1. ASSUME NEW b \in Ids
          PROVE  /\ Cyclic(blocks'[b].localFront, blocks'[b].front, blocks'[b].tail)
                 /\ Cyclic(blocks'[b].front, blocks'[b].localTail, blocks'[b].tail)
      <3>1. blocks[b].front \in Nat /\ blocks[b].tail \in Nat
        BY BlockFacts DEF Inv
      <3>2. Cyclic(blocks[b].front, blocks[b].front, blocks[b].tail)
        BY <3>1, CyclicEnds
      <3> QED
        BY <1>3, <3>2 DEF Inv, Rings, FrontKept, TailKept, LocalTailKept
    <2> QED
      BY <1>3, <2>1 DEF Rings, ShapeKept
  <1>6. Linked'
    BY <1>3, LinkedKept DEF Inv
  <1>7. Chained'
    BY <1>2, <1>3, <1>4, ChainedKept DEF Inv
  <1>8. Producing'
    BY <1>1, <1>2, <1>3, <1>4 DEF Producing, FrontKept
  <1>9. Consuming' /\ Promised'
    BY <1>1, <1>2, <1>3, <1>4, ConsumerUntouched
  <1> QED
    BY <1>1, <1>5, <1>6, <1>7, <1>8, <1>9 DEF Inv

LEMMA WriteNextKeeps ==
  ASSUME Inv, WriteNext
  PROVE  Inv'
  <1>1. /\ Types' /\ tailBlock \in Ids /\ frontBlock \in Ids
        /\ NextFrontBlock \in Ids /\ NextTailBlock \in Ids
    BY TypesStep, BlockFacts, NextBlocks DEF Inv, Next, Producer
  <1>2. /\ UNCHANGED <<frontBlock, tailBlock, consumerVars>>
        /\ ppc = "writeNext" /\ ppc' = "publishNext"
    BY DEF WriteNext, ProducerGoto
  <1>3. /\ ShapeKept /\ FrontKept /\ TailKept /\ LocalFrontKept /\ LocalTailKept
        /\ \A b \in Ids : blocks'[b].data =
             IF b = NextTailBlock
             THEN [blocks[NextTailBlock].data EXCEPT ![blocks[NextTailBlock].tail] = pval]
             ELSE blocks[b].data
    BY <1>1, ElementWritten DEF Inv, WriteNext
  <1>4. /\ NextFrontBlock' = NextFrontBlock /\ NextTailBlock' = NextTailBlock
        /\ \A b \in Ids : Empty(b)' <=> Empty(b)
    BY <1>1, <1>2, <1>3
       DEF ShapeKept, FrontKept, TailKept, NextFrontBlock, NextTailBlock, Empty
  <1>5. \A b \in Ids \ {NextTailBlock} : FrontElement(b)' = FrontElement(b)
    BY <1>3 DEF FrontKept, FrontElement
  <1>6. Rings' /\ Linked'
    BY <1>3, RingsKept, LinkedKept DEF Inv
  <1>7. Chained'
    BY <1>2, <1>3, <1>4, ChainedKept DEF Inv
  <1>8. Producing'
    BY <1>1, <1>2, <1>3, <1>4 DEF Inv, Producing, LocalFrontKept, FrontKept
  <1>9. Consuming' /\ Promised'
    <2>1. /\ frontBlock # NextTailBlock
          /\ frontBlock # tailBlock => NextFrontBlock # NextTailBlock
      BY <1>2, NextBlocks DEF Inv
    <2> QED
      BY <1>1, <1>2, <1>3, <1>4, <1>5, <2>1, ConsumerUntouched
  <1> QED
    BY <1>1, <1>6, <1>7, <1>8, <1>9 DEF Inv

LEMMA PublishNextKeeps ==
  ASSUME Inv, PublishNext
  PROVE  Inv'
  <1>1. /\ Types' /\ tailBlock \in Ids /\ frontBlock \in Ids
        /\ NextFrontBlock \in Ids /\ NextTailBlock \in Ids
    BY TypesStep, BlockFacts, NextBlocks DEF Inv, Next, Producer
  <1>2. /\ UNCHANGED <<frontBlock, tailBlock, consumerVars>>
        /\ ppc = "publishNext" /\ ppc' = "advanceTail"
    BY DEF PublishNext, ProducerGoto
  <1>3. /\ ShapeKept /\ FrontKept /\ LocalFrontKept /\ LocalTailKept /\ DataKept
        /\ \A b \in Ids : blocks'[b].tail =
             IF b = NextTailBlock THEN After(NextTailBlock, blocks[NextTailBlock].tail)
             ELSE blocks[b].tail
    BY <1>1, TailAdvanced DEF Inv, PublishNext
  <1>4. /\ Cyclic(blocks[NextTailBlock].localFront, blocks[NextTailBlock].front,
                  After(NextTailBlock, blocks[NextTailBlock].tail))
        /\ Cyclic(blocks[NextTailBlock].front, blocks[NextTailBlock].localTail,
                  After(NextTailBlock, blocks[NextTailBlock].tail))
        /\ After(NextTailBlock, blocks[NextTailBlock].tail) # blocks[NextTailBlock].front
    <2> DEFINE n == Size(NextTailBlock)
               lf == blocks[NextTailBlock].localFront
               f == blocks[NextTailBlock].front
               lt == blocks[NextTailBlock].localTail
               t == blocks[NextTailBlock].tail
               u == After(NextTailBlock, t)
    <2>1. lf = f /\ f = t /\ Cyclic(lf, f, t) /\ Cyclic(f, lt, t)
      BY <1>1, <1>2, NextBlocks DEF Inv, Producing, Rings, Empty
    <2>2. /\ n \in Nat \ {0, 1} /\ lf \in 0 .. n - 1 /\ f \in 0 .. n - 1
          /\ lt \in 0 .. n - 1 /\ t \in 0 .. n - 1
      BY <1>1, BlockFacts DEF Inv
    <2>3. u = IF t + 1 = n THEN 0 ELSE t + 1
      BY <1>1, AfterFacts DEF Inv
    <2> HIDE DEF n, lf, f, lt, t, u
    <2>4. u # lf
      BY <2>1, <2>2, <2>3
    <2>5. Cyclic(lf, f, u) /\ Cyclic(f, lt, u) /\ u # f
      BY <2>1, <2>2, <2>3, <2>4, RoomAhead
    <2> QED
      BY <2>5 DEF lf, f, lt, t, u
  <1>5. /\ NextFrontBlock' = NextFrontBlock /\ NextTailBlock' = NextTailBlock
        /\ ~Empty(NextTailBlock)'
        /\ \A b \in Ids \ {NextTailBlock} : Empty(b)' <=> Empty(b)
        /\ \A b \in Ids : FrontElement(b)' = FrontElement(b)
    <2>1. NextFrontBlock' = NextFrontBlock /\ NextTailBlock' = NextTailBlock
      BY <1>1, <1>2, <1>3 DEF ShapeKept, NextFrontBlock, NextTailBlock
    <2> QED
      BY <2>1, <1>1, <1>3, <1>4 DEF Empty, FrontElement, FrontKept, DataKept
  <1>6. Rings'
    <2>1. ASSUME NEW b \in Ids
          PROVE  /\ Cyclic(blocks'[b].localFront, blocks'[b].front, blocks'[b].tail)
                 /\ Cyclic(blocks'[b].front, blocks'[b].localTail, blocks'[b].tail)
      BY <1>3, <1>4 DEF Inv, Rings, FrontKept, LocalFrontKept, LocalTailKept
    <2> QED
      BY <1>3, <2>1 DEF Rings, ShapeKept
  <1>7. Linked'
    BY <1>3, LinkedKept DEF Inv
  <1>8. Chained'
    <2>1. PICK U \in SUBSET Ids : Chain(U)
      BY DEF Inv, Chained
    <2>2. NextTailBlock \notin U
      BY <1>2, <2>1 DEF Chain
    <2>3. Chain(U)'
      BY <1>1, <1>2, <1>3, <1>5, <2>1, <2>2 DEF Chain, ShapeKept
    <2> QED
      BY <1>3, <2>3 DEF Chained, ShapeKept
  <1>9. Producing'
    BY <1>2, <1>5 DEF Producing
  <1>10. Consuming' /\ Promised'
    <2>1. frontBlock # NextTailBlock
      BY <1>2, NextBlocks DEF Inv
    <2> QED
      BY <1>1, <1>2, <1>3, <1>5, <2>1, ConsumerUntouched
  <1> QED
    BY <1>1, <1>6, <1>7, <1>8, <1>9, <1>10 DEF Inv

LEMMA LinkNewBlockKeeps ==
  ASSUME Inv, LinkNewBlock
  PROVE  Inv'
  <1>0. PICK new \in Nat : new = Len(blocks) + 1
    BY BlockFacts DEF Inv
  <1>1. /\ Types' /\ tailBlock \in Ids /\ frontBlock \in Ids /\ new \notin Ids
        /\ NextFrontBlock \in Ids /\ NextTailBlock \in Ids
    BY <1>0, TypesStep, BlockFacts, NextBlocks DEF Inv, Next, Producer, Ids
  <1>2. /\ UNCHANGED <<frontBlock, tailBlock, consumerVars>>
        /\ ppc = "link" /\ ppc' = "advanceTail"
    BY DEF LinkNewBlock, ProducerGoto
  <1>3. /\ Ids' = Ids \cup {new}
        /\ FrontKept /\ TailKept /\ LocalFrontKept /\ LocalTailKept /\ DataKept
        /\ \A b \in Ids : blocks'[b].next = IF b = tailBlock THEN new ELSE blocks[b].next
        /\ blocks'[new].front = 0 /\ blocks'[new].localFront = 0
        /\ blocks'[new].tail = 1 /\ blocks'[new].localTail = 1
        /\ blocks'[new].next = NextTailBlock
    BY <1>0, BlockLinked DEF Inv
  <1>4. /\ NextTailBlock' = new /\ ~Empty(new)'
        /\ frontBlock # tailBlock => NextFrontBlock' = NextFrontBlock
        /\ \A b \in Ids : /\ Empty(b)' <=> Empty(b)
                          /\ FrontElement(b)' = FrontElement(b)
    BY <1>1, <1>2, <1>3
       DEF NextTailBlock, NextFrontBlock, Empty, FrontElement, FrontKept, TailKept, DataKept
  <1>5. Rings'
    <2>1. ASSUME NEW b \in Ids
          PROVE  /\ Cyclic(blocks'[b].localFront, blocks'[b].front, blocks'[b].tail)
                 /\ Cyclic(blocks'[b].front, blocks'[b].localTail, blocks'[b].tail)
      BY <1>3 DEF Inv, Rings, FrontKept, TailKept, LocalFrontKept, LocalTailKept
    <2>2. Cyclic(0, 0, 1) /\ Cyclic(0, 1, 1)
      BY DEF Cyclic
    <2>3. /\ Cyclic(blocks'[new].localFront, blocks'[new].front, blocks'[new].tail)
          /\ Cyclic(blocks'[new].front, blocks'[new].localTail, blocks'[new].tail)
      BY <1>3, <2>2
    <2> QED
      BY <1>3, <2>1, <2>3 DEF Rings
  <1>6. Linked'
    <2>1. \A b \in Ids : blocks[b].next # new
      BY <1>1, BlockFacts DEF Inv
    <2>2. \A a, b \in Ids : blocks'[a].next = blocks'[b].next => a = b
      BY <1>3, <2>1 DEF Inv, Linked
    <2>3. \A b \in Ids : blocks'[b].next # blocks'[new].next
      BY <1>1, <1>3 DEF Inv, Linked, NextTailBlock
    <2> QED
      BY <1>3, <2>2, <2>3 DEF Linked
  <1>7. Chained'
    <2>1. PICK U \in SUBSET Ids : Chain(U)
      BY DEF Inv, Chained
    <2>2. new \notin U /\ NextTailBlock \notin U \ {frontBlock}
      BY <1>1, <2>1 DEF Chain, NextTailBlock
    <2>3. /\ \A b \in U \ {tailBlock} : blocks'[b].next \in U \ {frontBlock}
          /\ \A b \in (Ids \ U) \cup {tailBlock} : blocks'[b].next \notin U \ {frontBlock}
          /\ blocks'[new].next \notin U \ {frontBlock}
      BY <1>1, <1>3, <2>1, <2>2 DEF Chain
    <2>4. /\ \A b \in U \ {frontBlock} : ~Empty(b)'
          /\ \A b \in Ids \ U : Empty(b)'
      BY <1>2, <1>4, <2>1 DEF Chain
    <2>5. Chain(U)'
      BY <1>1, <1>2, <1>3, <1>4, <2>1, <2>2, <2>3, <2>4 DEF Chain
    <2> QED
      BY <1>3, <2>5 DEF Chained
  <1>8. Producing'
    BY <1>2, <1>4 DEF Producing
  <1>9. Consuming' /\ Promised'
    BY <1>1, <1>2, <1>3, <1>4, ConsumerUntouched
  <1> QED
    BY <1>1, <1>5, <1>6, <1>7, <1>8, <1>9 DEF Inv

LEMMA AdvanceTailKeeps ==
  ASSUME Inv, AdvanceTail
  PROVE  Inv'
  <1>1. /\ Types' /\ tailBlock \in Ids /\ frontBlock \in Ids /\ NextTailBlock \in Ids
    BY TypesStep, BlockFacts, NextBlocks DEF Inv, Next, Producer
  <1>2. /\ UNCHANGED <<blocks, frontBlock, consumerVars>> /\ tailBlock' = NextTailBlock
        /\ ppc = "advanceTail" /\ ppc' = "idle"
    BY DEF AdvanceTail, EnqueueDone
  <1>3. frontBlock # NextTailBlock
    BY <1>2, NextBlocks DEF Inv
  <1>4. Rings' /\ Linked'
    BY <1>2 DEF Inv, Rings, Linked, Ids
  <1>5. Chained'
    <2>1. PICK U \in SUBSET Ids : Chain(U)
      BY DEF Inv, Chained
    <2>0. PICK V \in SUBSET Ids : V = U \cup {NextTailBlock}
      BY <1>1
    <2>2. NextTailBlock \notin U /\ ~Empty(NextTailBlock)
      BY <1>2, <2>1 DEF Chain, Inv, Producing
    <2>3. \A b \in V \ {NextTailBlock} : blocks[b].next \in V \ {frontBlock}
      BY <1>3, <2>0, <2>1, <2>2 DEF Chain, NextTailBlock
    <2>4. \A b \in (Ids \ V) \cup {NextTailBlock} : blocks[b].next \notin V \ {frontBlock}
      <3>1. ASSUME NEW b \in (Ids \ V) \cup {NextTailBlock}
            PROVE  blocks[b].next \notin V \ {frontBlock}
        <4>1. b \in Ids /\ b \notin U /\ b # tailBlock
          BY <1>1, <2>0, <2>1, <2>2 DEF Chain
        <4>2. blocks[b].next \notin U \ {frontBlock}
          BY <2>1, <4>1 DEF Chain
        <4>3. blocks[b].next # NextTailBlock
          BY <1>1, <4>1 DEF Inv, Linked, NextTailBlock
        <4> QED
          BY <2>0, <4>2, <4>3
      <3> QED
        BY <3>1
    <2>5. /\ \A b \in V \ {frontBlock} : ~Empty(b)
          /\ \A b \in Ids \ V : Empty(b)
      BY <2>0, <2>1, <2>2 DEF Chain
    <2>6. V \in SUBSET Ids /\ frontBlock \in V /\ NextTailBlock \in V
      BY <1>1, <2>0, <2>1 DEF Chain
    <2>7. Ids' = Ids /\ \A b \in Ids : Empty(b)' <=> Empty(b)
      BY <1>2 DEF Ids, Empty
    <2>8. Chain(V)'
      BY <1>2, <2>3, <2>4, <2>5, <2>6, <2>7 DEF Chain
    <2> QED
      BY <2>6, <2>7, <2>8 DEF Chained
  <1>6. Producing'
    BY <1>2 DEF Producing
  <1>7. Consuming'
    BY <1>2, <1>3 DEF Inv, Consuming, consumerVars, Empty, NextFrontBlock
  <1>8. Promised'
    BY <1>2, <1>3 DEF Inv, Promised, consumerVars, Empty, NextFrontBlock, FrontElement
  <1> QED
    BY <1>1, <1>4, <1>5, <1>6, <1>7, <1>8 DEF Inv

-----------------------------------------------------------------------------
(* The steps of the consumer.                                              *)

\* A step that writes to no block and moves neither end.
LEMMA BlocksUntouched ==
  ASSUME Inv, UNCHANGED <<blocks, frontBlock, tailBlock, producerVars>>
  PROVE  Rings' /\ Linked' /\ Chained' /\ Producing'
  <1>1. Rings' /\ Linked'
    BY DEF Inv, Rings, Linked, Ids
  <1>2. Chained'
    <2>1. /\ ShapeKept /\ \A b \in Ids : Empty(b)' <=> Empty(b)
      BY DEF ShapeKept, Ids, Size, Empty
    <2> QED
      BY <2>1, ChainedKept DEF Inv, producerVars
  <1>3. Producing'
    BY DEF Inv, Producing, After, Size, NextTailBlock, Empty, producerVars
  <1> QED
    BY <1>1, <1>2, <1>3

LEMMA ConsumerCallKeeps ==
  ASSUME Inv, NEW op \in {"peek", "dequeue"}, ConsumerCall(op)
  PROVE  Inv'
  <1>1. Types'
    BY TypesStep DEF Inv, Next, Consumer
  <1>2. /\ UNCHANGED <<blocks, frontBlock, tailBlock, producerVars, cval, last, got>>
        /\ cpc' \in {"take", "readTail"}
        /\ cpc' = "take" => blocks[frontBlock].front # blocks[frontBlock].localTail
    BY DEF ConsumerCall
  <1>3. Rings' /\ Linked' /\ Chained' /\ Producing'
    BY <1>2, BlocksUntouched
  <1>4. Consuming'
    BY <1>2 DEF Consuming
  <1>5. Promised'
    BY <1>2 DEF Inv, Promised, Empty, FrontElement, NextFrontBlock
  <1> QED
    BY <1>1, <1>3, <1>4, <1>5 DEF Inv

LEMMA RefreshTailKeeps ==
  ASSUME Inv, ReadTail \/ RecheckTail
  PROVE  Inv'
  <1>1. Types' /\ tailBlock \in Ids /\ frontBlock \in Ids /\ NextFrontBlock \in Ids
    BY TypesStep, BlockFacts, NextBlocks DEF Inv, Next, Consumer
  <1>2. /\ UNCHANGED <<frontBlock, tailBlock, producerVars, cop, cval, last, got>>
        /\ blocks' = [blocks EXCEPT ![frontBlock].localTail = blocks[frontBlock].tail]
        /\ \/ cpc = "readTail" /\ cpc' \in {"take", "readTailBlock"}
           \/ cpc = "recheckTail" /\ cpc' \in {"take", "readNextTail"}
        /\ cpc' = "take" <=> ~Empty(frontBlock)
    BY DEF ReadTail, RecheckTail, RefreshTail, ConsumerGoto, Empty
  <1>3. /\ ShapeKept /\ FrontKept /\ TailKept /\ LocalFrontKept /\ DataKept
        /\ \A b \in Ids : blocks'[b].localTail =
             IF b = frontBlock THEN blocks[frontBlock].tail ELSE blocks[b].localTail
    BY <1>1, <1>2, LocalTailSet DEF Inv
  <1>4. /\ NextFrontBlock' = NextFrontBlock
        /\ \A b \in Ids : /\ Empty(b)' <=> Empty(b)
                          /\ FrontElement(b)' = FrontElement(b)
    BY <1>1, <1>2, <1>3
       DEF ShapeKept, FrontKept, TailKept, DataKept, NextFrontBlock, Empty, FrontElement
  <1>5. Rings'
    <2>1. ASSUME NEW b \in Ids
          PROVE  /\ Cyclic(blocks'[b].localFront, blocks'[b].front, blocks'[b].tail)
                 /\ Cyclic(blocks'[b].front, blocks'[b].localTail, blocks'[b].tail)
      <3>1. blocks[b].front \in Nat /\ blocks[b].tail \in Nat
        BY BlockFacts DEF Inv
      <3>2. Cyclic(blocks[b].front, blocks[b].tail, blocks[b].tail)
        BY <3>1, CyclicEnds
      <3> QED
        BY <1>3, <3>2 DEF Inv, Rings, FrontKept, TailKept, LocalFrontKept
    <2> QED
      BY <1>3, <2>1 DEF Rings, ShapeKept
  <1>6. Linked'
    BY <1>3, LinkedKept DEF Inv
  <1>7. Chained'
    BY <1>2, <1>3, <1>4, ChainedKept DEF Inv, producerVars
  <1>8. Producing'
    BY <1>2, <1>3, ProducerUntouched DEF FrontKept
  <1>9. Consuming'
    BY <1>1, <1>2, <1>3, <1>4 DEF Inv, Consuming, FrontKept, Empty
  <1>10. Promised'
    BY <1>1, <1>2, <1>4 DEF Inv, Promised
  <1> QED
    BY <1>1, <1>5, <1>6, <1>7, <1>8, <1>9, <1>10 DEF Inv

LEMMA ReadTailBlockKeeps ==
  ASSUME Inv, ReadTailBlock
  PROVE  Inv'
  <1>1. Types'
    BY TypesStep DEF Inv, Next, Consumer
  <1>2. /\ UNCHANGED <<blocks, frontBlock, tailBlock, producerVars>>
        /\ cpc = "readTailBlock"
        /\ \/ frontBlock = tailBlock /\ cpc' = "idle" /\ got' = Nil
           \/ frontBlock # tailBlock /\ cpc' = "recheckTail" /\ UNCHANGED <<cval, last, got>>
    BY DEF ReadTailBlock, Return, ConsumerGoto
  <1>3. Rings' /\ Linked' /\ Chained' /\ Producing'
    BY <1>2, BlocksUntouched
  <1>4. Consuming'
    BY <1>2 DEF Consuming
  <1>5. Promised'
    BY <1>2 DEF Inv, Promised, Empty, FrontElement, NextFrontBlock
  <1> QED
    BY <1>1, <1>3, <1>4, <1>5 DEF Inv

LEMMA ReadNextTailKeeps ==
  ASSUME Inv, ReadNextTail
  PROVE  Inv'
  <1>1. Types' /\ tailBlock \in Ids /\ frontBlock \in Ids /\ NextFrontBlock \in Ids
    BY TypesStep, BlockFacts, NextBlocks DEF Inv, Next, Consumer
  <1>2. /\ UNCHANGED <<frontBlock, tailBlock, producerVars, cop, cval, last, got>>
        /\ cpc = "readNextTail"
        /\ \/ cpc' = "peekNext" /\ UNCHANGED blocks
           \/ /\ cpc' = "advanceFront"
              /\ blocks' = [blocks EXCEPT ![NextFrontBlock].localTail
                                            = blocks[NextFrontBlock].tail]
    BY DEF ReadNextTail, ConsumerGoto
  <1>3. frontBlock # tailBlock /\ Empty(frontBlock) /\ ~Empty(NextFrontBlock)
    BY <1>2, NextBlocks DEF Inv, Consuming
  <1>4. CASE cpc' = "peekNext" /\ UNCHANGED blocks
    <2>1. Rings' /\ Linked' /\ Chained' /\ Producing'
      BY <1>2, <1>4, BlocksUntouched
    <2>2. Consuming'
      BY <1>2, <1>3, <1>4 DEF Consuming, Empty
    <2>3. Promised'
      BY <1>2, <1>4 DEF Inv, Promised, Empty, FrontElement, NextFrontBlock
    <2> QED
      BY <1>1, <2>1, <2>2, <2>3 DEF Inv
  <1>5. CASE cpc' = "advanceFront"
             /\ blocks' = [blocks EXCEPT ![NextFrontBlock].localTail
                                           = blocks[NextFrontBlock].tail]
    <2>1. /\ ShapeKept /\ FrontKept /\ TailKept /\ LocalFrontKept /\ DataKept
          /\ \A b \in Ids : blocks'[b].localTail =
               IF b = NextFrontBlock THEN blocks[NextFrontBlock].tail ELSE blocks[b].localTail
      BY <1>1, <1>5, LocalTailSet DEF Inv
    <2>2. /\ NextFrontBlock' = NextFrontBlock
          /\ \A b \in Ids : /\ Empty(b)' <=> Empty(b)
                            /\ FrontElement(b)' = FrontElement(b)
      BY <1>1, <1>2, <2>1
         DEF ShapeKept, FrontKept, TailKept, DataKept, NextFrontBlock, Empty, FrontElement
    <2>3. Rings'
      <3>1. ASSUME NEW b \in Ids
            PROVE  /\ Cyclic(blocks'[b].localFront, blocks'[b].front, blocks'[b].tail)
                   /\ Cyclic(blocks'[b].front, blocks'[b].localTail, blocks'[b].tail)
        <4>1. blocks[b].front \in Nat /\ blocks[b].tail \in Nat
          BY BlockFacts DEF Inv
        <4>2. Cyclic(blocks[b].front, blocks[b].tail, blocks[b].tail)
          BY <4>1, CyclicEnds
        <4> QED
          BY <2>1, <4>2 DEF Inv, Rings, FrontKept, TailKept, LocalFrontKept
      <3> QED
        BY <2>1, <3>1 DEF Rings, ShapeKept
    <2>4. Linked'
      BY <2>1, LinkedKept DEF Inv
    <2>5. Chained'
      BY <1>2, <2>1, <2>2, ChainedKept DEF Inv, producerVars
    <2>6. Producing'
      BY <1>2, <2>1, ProducerUntouched DEF FrontKept
    <2>7. Consuming'
      BY <1>1, <1>2, <1>3, <1>5, <2>1, <2>2 DEF Consuming, FrontKept, Empty
    <2>8. Promised'
      BY <1>1, <1>2, <1>5, <2>2 DEF Inv, Promised
    <2> QED
      BY <1>1, <2>3, <2>4, <2>5, <2>6, <2>7, <2>8 DEF Inv
  <1> QED
    BY <1>2, <1>4, <1>5

LEMMA AdvanceFrontKeeps ==
  ASSUME Inv, AdvanceFront
  PROVE  Inv'
  <1>1. /\ Types' /\ tailBlock \in Ids /\ frontBlock \in Ids /\ NextFrontBlock \in Ids
    BY TypesStep, BlockFacts, NextBlocks DEF Inv, Next, Consumer
  <1>2. /\ UNCHANGED <<blocks, tailBlock, producerVars, cval, last, got>>
        /\ frontBlock' = NextFrontBlock
        /\ cpc = "advanceFront" /\ cpc' = "take"
    BY DEF AdvanceFront, ConsumerGoto
  <1>3. /\ frontBlock # tailBlock /\ Empty(frontBlock) /\ ~Empty(NextFrontBlock)
        /\ blocks[NextFrontBlock].front # blocks[NextFrontBlock].localTail
    BY <1>2, NextBlocks DEF Inv, Consuming
  <1>4. Rings' /\ Linked'
    BY <1>2 DEF Inv, Rings, Linked, Ids
  <1>5. Chained'
    <2>1. PICK U \in SUBSET Ids : Chain(U)
      BY DEF Inv, Chained
    <2>2. PICK V \in SUBSET Ids : V = U \ {frontBlock}
      BY <2>1
    <2>3. NextFrontBlock \in V /\ tailBlock \in V
      BY <1>3, <2>1, <2>2 DEF Chain, NextFrontBlock
    <2>4. \A b \in V \ {tailBlock} : blocks[b].next \in V \ {NextFrontBlock}
      <3>1. ASSUME NEW b \in V \ {tailBlock}
            PROVE  blocks[b].next \in V \ {NextFrontBlock}
        <4>1. b \in Ids /\ blocks[b].next \in V
          BY <2>1, <2>2 DEF Chain
        <4>2. blocks[b].next # NextFrontBlock
          BY <1>1, <2>2, <4>1 DEF Inv, Linked, NextFrontBlock
        <4> QED
          BY <4>1, <4>2
      <3> QED
        BY <3>1
    <2>5. \A b \in (Ids \ V) \cup {tailBlock} : blocks[b].next \notin V \ {NextFrontBlock}
      <3>1. ASSUME NEW b \in (Ids \ V) \cup {tailBlock}
            PROVE  blocks[b].next \notin V \ {NextFrontBlock}
        <4>1. CASE b = frontBlock
          BY <4>1 DEF NextFrontBlock
        <4>2. CASE b # frontBlock
          BY <2>1, <2>2, <4>2 DEF Chain
        <4> QED
          BY <4>1, <4>2
      <3> QED
        BY <3>1
    <2>6. /\ \A b \in V \ {NextFrontBlock} : ~Empty(b)
          /\ \A b \in Ids \ V : Empty(b) \/ (ppc = "advanceTail" /\ b = NextTailBlock)
          /\ ppc \in {"readNextFront", "writeNext", "publishNext", "advanceTail"} =>
               NextTailBlock \notin V
      BY <1>3, <2>1, <2>2 DEF Chain
    <2>7. /\ Ids' = Ids /\ NextTailBlock' = NextTailBlock /\ ppc' = ppc
          /\ \A b \in Ids : Empty(b)' <=> Empty(b)
      BY <1>2 DEF Ids, Empty, NextTailBlock, producerVars
    <2>8. Chain(V)'
      BY <1>2, <2>3, <2>4, <2>5, <2>6, <2>7 DEF Chain
    <2> QED
      BY <2>7, <2>8 DEF Chained
  <1>6. Producing'
    BY <1>2 DEF Inv, Producing, After, Size, NextTailBlock, Empty, producerVars
  <1>7. Consuming'
    BY <1>2, <1>3 DEF Consuming
  <1>8. Promised'
    BY <1>2, <1>3 DEF Inv, Promised, Empty, FrontElement, NextFrontBlock
  <1> QED
    BY <1>1, <1>4, <1>5, <1>6, <1>7, <1>8 DEF Inv

LEMMA PeekNextKeeps ==
  ASSUME Inv, PeekNext
  PROVE  Inv'
  <1>1. Types'
    BY TypesStep DEF Inv, Next, Consumer
  <1>2. /\ UNCHANGED <<blocks, frontBlock, tailBlock, producerVars>>
        /\ cpc = "peekNext" /\ cpc' = "idle" /\ got' = FrontElement(NextFrontBlock)
    BY DEF PeekNext, Return
  <1>3. Rings' /\ Linked' /\ Chained' /\ Producing'
    BY <1>2, BlocksUntouched
  <1>4. Consuming'
    BY <1>2 DEF Consuming
  <1>5. Promised'
    BY <1>2 DEF Inv, Consuming, Promised, Empty, FrontElement, NextFrontBlock
  <1> QED
    BY <1>1, <1>3, <1>4, <1>5 DEF Inv

LEMMA TakeElementKeeps ==
  ASSUME Inv, TakeElement
  PROVE  Inv'
  <1>1. Types' /\ frontBlock \in Ids
    BY TypesStep, BlockFacts DEF Inv, Next, Consumer
  <1>2. /\ UNCHANGED <<blocks, frontBlock, tailBlock, producerVars>>
        /\ cpc = "take"
        /\ \/ cpc' = "idle" /\ got' = FrontElement(frontBlock)
           \/ /\ cpc' = "pop" /\ cval' = FrontElement(frontBlock)
              /\ UNCHANGED <<last, got>>
    BY DEF TakeElement, Return
  <1>3. ~Empty(frontBlock) /\ blocks[frontBlock].front # blocks[frontBlock].localTail
    BY <1>1, <1>2, KnownIsThere DEF Inv, Consuming
  <1>4. Rings' /\ Linked' /\ Chained' /\ Producing'
    BY <1>2, BlocksUntouched
  <1>5. Consuming'
    BY <1>2, <1>3 DEF Consuming
  <1>6. Promised'
    BY <1>2, <1>3 DEF Inv, Promised, Empty, FrontElement
  <1> QED
    BY <1>1, <1>4, <1>5, <1>6 DEF Inv

LEMMA PopElementKeeps ==
  ASSUME Inv, Asked, PopElement
  PROVE  Inv'
  <1>1. /\ Types' /\ tailBlock \in Ids /\ frontBlock \in Ids
    BY TypesStep, BlockFacts DEF Inv, Next, Consumer
  <1>2. /\ UNCHANGED <<frontBlock, tailBlock, producerVars>>
        /\ cpc = "pop" /\ cpc' = "idle" /\ last' = "dequeue"
        /\ blocks' = [blocks EXCEPT
                        ![frontBlock].front = After(frontBlock, blocks[frontBlock].front),
                        ![frontBlock].data[blocks[frontBlock].front] = Nil]
    BY DEF Asked, PopElement, Return
  <1>3. /\ ShapeKept /\ TailKept /\ LocalFrontKept /\ LocalTailKept
        /\ \A b \in Ids : blocks'[b].front =
             IF b = frontBlock THEN After(frontBlock, blocks[frontBlock].front)
             ELSE blocks[b].front
    BY <1>1, <1>2, ElementPopped DEF Inv
  <1>4. /\ Cyclic(blocks[frontBlock].localFront,
                  After(frontBlock, blocks[frontBlock].front), blocks[frontBlock].tail)
        /\ Cyclic(After(frontBlock, blocks[frontBlock].front),
                  blocks[frontBlock].localTail, blocks[frontBlock].tail)
    <2> DEFINE n == Size(frontBlock)
               lf == blocks[frontBlock].localFront
               f == blocks[frontBlock].front
               lt == blocks[frontBlock].localTail
               t == blocks[frontBlock].tail
               u == After(frontBlock, f)
    <2>1. f # lt /\ Cyclic(lf, f, t) /\ Cyclic(f, lt, t)
      BY <1>1, <1>2 DEF Inv, Consuming, Rings
    <2>2. /\ n \in Nat \ {0, 1} /\ lf \in 0 .. n - 1 /\ f \in 0 .. n - 1
          /\ lt \in 0 .. n - 1 /\ t \in 0 .. n - 1
      BY <1>1, BlockFacts DEF Inv
    <2>3. u = IF f + 1 = n THEN 0 ELSE f + 1
      BY <1>1, AfterFacts DEF Inv
    <2> HIDE DEF n, lf, f, lt, t, u
    <2>4. Cyclic(lf, u, t) /\ Cyclic(u, lt, t)
      BY <2>1, <2>2, <2>3, ElementAhead
    <2> QED
      BY <2>4 DEF lf, f, lt, t, u
  <1>5. Rings'
    <2>1. ASSUME NEW b \in Ids
          PROVE  /\ Cyclic(blocks'[b].localFront, blocks'[b].front, blocks'[b].tail)
                 /\ Cyclic(blocks'[b].front, blocks'[b].localTail, blocks'[b].tail)
      BY <1>3, <1>4 DEF Inv, Rings, TailKept, LocalFrontKept, LocalTailKept
    <2> QED
      BY <1>3, <2>1 DEF Rings, ShapeKept
  <1>6. Linked'
    BY <1>3, LinkedKept DEF Inv
  <1>7. Chained'
    <2>1. PICK U \in SUBSET Ids : Chain(U)
      BY DEF Inv, Chained
    <2>2. /\ Ids' = Ids /\ ppc' = ppc /\ NextTailBlock' = NextTailBlock
          /\ \A b \in Ids \ {frontBlock} : Empty(b)' <=> Empty(b)
          /\ \A b \in Ids : blocks'[b].next = blocks[b].next
      BY <1>1, <1>2, <1>3 DEF ShapeKept, TailKept, Empty, NextTailBlock, producerVars
    <2>3. Chain(U)'
      BY <1>1, <1>2, <2>1, <2>2, ZenonT(30) DEF Chain
    <2> QED
      BY <2>2, <2>3 DEF Chained
  <1>8. Producing'
    BY <1>2, <1>3, ProducerUntouched
  <1>9. Consuming' /\ Promised'
    BY <1>2 DEF Consuming, Promised
  <1> QED
    BY <1>1, <1>5, <1>6, <1>7, <1>8, <1>9 DEF Inv

LEMMA AskedStep ==
  ASSUME Types, Asked, [Next]_vars
  PROVE  Asked'
  <1>1. cop \in {"none", "peek", "dequeue"}
    BY DEF Types, TypeOK
  <1>2. CASE Producer \/ UNCHANGED vars
    <2>1. UNCHANGED consumerVars
      BY <1>2
         DEF Producer, EnqueueCall, ReadFront, WriteElement, PublishTail, TailFull,
             ReadNextFront, WriteNext, PublishNext, LinkNewBlock, AdvanceTail, vars
    <2> QED
      BY <2>1 DEF Asked, consumerVars
  <1>3. CASE Consumer
    BY <1>1, <1>3
       DEF Asked, Consumer, ConsumerCall, ReadTail, ReadTailBlock, RecheckTail, RefreshTail,
           ReadNextTail, AdvanceFront, PeekNext, TakeElement, PopElement, ConsumerGoto, Return
  <1> QED
    BY <1>2, <1>3 DEF Next

-----------------------------------------------------------------------------
(* The invariant, and what follows from it.                                *)

LEMMA InvInit ==
  ASSUME Init
  PROVE  Inv /\ Asked
  <1>1. Types
    BY TypesInit
  <1>2. \A b \in Ids : /\ blocks[b].front = 0 /\ blocks[b].localTail = 0
                       /\ blocks[b].tail = 0 /\ blocks[b].localFront = 0
    BY TypesInit
  <1>3. PICK n \in Nat \ {0} : Ids = 1 .. n /\ \A b \in Ids : blocks[b].next = (b % n) + 1
    BY TypesInit
  <1>4. /\ frontBlock = 1 /\ tailBlock = 1 /\ ppc = "idle" /\ cpc = "idle" /\ last = "none"
    BY DEF Init
  <1>5. Rings
    <2>1. Cyclic(0, 0, 0)
      BY DEF Cyclic
    <2> QED
      BY <1>2, <2>1 DEF Rings
  <1>6. Linked
    <2>1. ASSUME NEW a \in 1 .. n, NEW b \in 1 .. n, (a % n) + 1 = (b % n) + 1
          PROVE  a = b
      <3>1. /\ (a % n) + 1 = IF a = n THEN 1 ELSE a + 1
            /\ (b % n) + 1 = IF b = n THEN 1 ELSE b + 1
        BY NextInRing
      <3> QED
        BY <2>1, <3>1
    <2>2. ASSUME NEW a \in Ids, NEW b \in Ids, blocks[a].next = blocks[b].next
          PROVE  a = b
      <3>1. a \in 1 .. n /\ b \in 1 .. n
        BY <1>3
      <3>2. (a % n) + 1 = (b % n) + 1
        BY <1>3, <2>2
      <3> QED
        BY <2>1, <3>1, <3>2
    <2> QED
      BY <2>2 DEF Linked
  <1>7. Chain({1}) /\ {1} \in SUBSET Ids
    BY <1>2, <1>3, <1>4 DEF Chain, Empty
  <1>8. Chained
    BY <1>7 DEF Chained
  <1>9. Producing /\ Consuming /\ Promised /\ Asked
    BY <1>4 DEF Producing, Consuming, Promised, Asked
  <1> QED
    BY <1>1, <1>5, <1>6, <1>8, <1>9 DEF Inv

LEMMA InvStep ==
  ASSUME Inv, Asked, [Next]_vars
  PROVE  Inv' /\ Asked'
  <1>1. Asked'
    BY AskedStep DEF Inv
  <1> SUFFICES Inv'
    BY <1>1
  <1>2. CASE UNCHANGED vars
    <2>1. Types'
      BY TypesStep DEF Inv
    <2>2. Rings' /\ Linked' /\ Chained' /\ Producing'
      BY <1>2, BlocksUntouched DEF vars
    <2>3. Consuming' /\ Promised'
      BY <1>2
         DEF Inv, Consuming, Promised, Empty, FrontElement, NextFrontBlock, vars, consumerVars
    <2> QED
      BY <2>1, <2>2, <2>3 DEF Inv
  <1>3. CASE Producer
    BY <1>3, EnqueueCallKeeps, ReadFrontKeeps, WriteElementKeeps, PublishTailKeeps,
       TailFullKeeps, ReadNextFrontKeeps, WriteNextKeeps, PublishNextKeeps,
       LinkNewBlockKeeps, AdvanceTailKeeps
       DEF Producer
  <1>4. CASE Consumer
    BY <1>4, ConsumerCallKeeps, RefreshTailKeeps, ReadTailBlockKeeps, ReadNextTailKeeps,
       AdvanceFrontKeeps, PeekNextKeeps, TakeElementKeeps, PopElementKeeps
       DEF Consumer
  <1> QED
    BY <1>1, <1>2, <1>3, <1>4 DEF Next

THEOREM Invariance == Spec => [](Inv /\ Asked)
  <1>1. Init => Inv /\ Asked
    BY InvInit
  <1>2. (Inv /\ Asked) /\ [Next]_vars => (Inv /\ Asked)'
    BY InvStep
  <1> QED
    BY <1>1, <1>2, PTL DEF Spec

\* Every variable has its type; in particular every index of a block is one of
\* its slots, whatever the sizes (readerwriterqueue.h:82-134, 404-534).
THEOREM TypeCorrect == Spec => []TypeOK
  <1>1. Inv => TypeOK
    BY DEF Inv, Types
  <1> QED
    BY <1>1, Invariance, PTL

\* The assertions on the next block never fail (readerwriterqueue.h:272, 337, 479).
THEOREM AssertionsTrue == Spec => []AssertionsHold
  <1>1. ASSUME Inv PROVE AssertionsHold
    <2>1. ppc = "writeNext" => blocks[NextTailBlock].front = blocks[NextTailBlock].tail
      BY <1>1, NextBlocks DEF Inv, Empty
    <2>2. cpc \in {"advanceFront", "peekNext"} =>
            blocks[NextFrontBlock].front # blocks[NextFrontBlock].tail
      BY <1>1, NextBlocks DEF Inv, Consuming, Empty
    <2> QED
      BY <2>1, <2>2 DEF AssertionsHold
  <1> QED
    BY <1>1, Invariance, PTL

\* The producer never writes the slot the consumer is reading or freeing.
THEOREM SlotsApart == Spec => []NoSlotRace
  <1>1. ASSUME Inv PROVE NoSlotRace
    <2>1. cpc \in {"take", "pop"} => ~Empty(frontBlock)
      BY <1>1, BlockFacts, KnownIsThere DEF Inv, Consuming
    <2>2. cpc = "peekNext" => frontBlock # tailBlock /\ ~Empty(NextFrontBlock)
      BY <1>1, NextBlocks DEF Inv, Consuming
    <2>3. ppc = "writeNext" =>
            /\ NextTailBlock # frontBlock
            /\ frontBlock # tailBlock => NextTailBlock # NextFrontBlock
      BY <1>1, NextBlocks DEF Inv
    <2> QED
      BY <2>1, <2>2, <2>3 DEF NoSlotRace, Empty
  <1> QED
    BY <1>1, Invariance, PTL

\* What peek shows is what the next dequeue returns: empty() and front_pop() of
\* RWQLockFreeQueue may be used one after the other.
THEOREM PeekIsKept == Spec => PeekPromises
  <1>1. ASSUME Inv, Asked, [Next]_vars, last = "peek", got # Nil, last' = "dequeue"
        PROVE  got' = got
    <2>1. \/ UNCHANGED <<last, got>> \/ ReadTailBlock \/ PeekNext \/ TakeElement \/ PopElement
      BY <1>1
         DEF Next, Producer, Consumer, EnqueueCall, ReadFront, WriteElement, PublishTail,
             TailFull, ReadNextFront, WriteNext, PublishNext, LinkNewBlock, AdvanceTail,
             ConsumerCall, ReadTail, RecheckTail, RefreshTail, ReadNextTail, AdvanceFront,
             ConsumerGoto, consumerVars, vars
    <2>2. CASE ReadTailBlock
      BY <1>1, <2>2 DEF Inv, Promised, ReadTailBlock, ConsumerGoto
    <2>3. CASE PeekNext
      BY <1>1, <2>3 DEF Asked, PeekNext, Return
    <2>4. CASE TakeElement
      BY <1>1, <2>4 DEF TakeElement, Return
    <2>5. CASE PopElement
      BY <1>1, <2>5 DEF Inv, Promised, PopElement, Return
    <2> QED
      BY <1>1, <2>1, <2>2, <2>3, <2>4, <2>5
  <1>2. (Inv /\ Asked) /\ [Next]_vars =>
          [last = "peek" /\ got # Nil /\ last' = "dequeue" => got' = got]_<<last, got>>
    BY <1>1
  <1> QED
    BY <1>2, Invariance, PTL DEF Spec, PeekPromises

-----------------------------------------------------------------------------
(* Paths.  Along a cycle of blocks to one of them, the elements of each     *)
(* after those before: what Contents computes from the front block on.     *)

\* nx leads from each of I round to all the others.
Cycle(I, nx) ==
  /\ nx \in [I -> I]
  /\ \A S \in SUBSET I : S # {} /\ (\A b \in S : nx[b] \in S) => S = I

\* f[b] is what e has from b on to t.
IsPath(f, I, nx, t, e) == f = [b \in I |-> IF b = t THEN e[b] ELSE e[b] \o f[nx[b]]]
Path(I, nx, t, e) == CHOOSE f : IsPath(f, I, nx, t, e)

\* What holds of t, and of b if of its next, holds of all.
LEMMA PathInduction ==
  ASSUME NEW I, NEW nx, NEW t \in I, Cycle(I, nx),
         NEW P, t \in P, \A b \in I : b # t /\ nx[b] \in P => b \in P
  PROVE  I \subseteq P
  <1> DEFINE S == I \ P
  <1>1. \A b \in S : nx[b] \in S
    BY DEF Cycle
  <1>2. S # I /\ S \in SUBSET I
    OBVIOUS
  <1> HIDE DEF S
  <1>3. S = {}
    BY <1>1, <1>2 DEF Cycle
  <1> QED
    BY <1>3 DEF S

\* On a cycle the recursive definition of a path has a solution.
LEMMA PathExists ==
  ASSUME NEW I, IsFiniteSet(I), NEW nx, NEW t \in I, NEW e, Cycle(I, nx)
  PROVE  \E f : IsPath(f, I, nx, t, e)
  <1> DEFINE Step(f, b) == IF b = t THEN e[b] ELSE e[b] \o f[nx[b]]
             Solved(f, D) == \A b \in D : f[b] = Step(f, b)
             Tailed(D) == t \in D /\ \A b \in D : b = t \/ nx[b] \in D
             N == {n \in Nat : n < Cardinality(I) =>
                     \E D \in SUBSET I : \E f : /\ Tailed(D) /\ Solved(f, D)
                                                /\ Cardinality(D) = n + 1}
  <1>0. Cardinality(I) \in Nat
    BY FS_CardinalityType
  <1>1. 0 \in N
    <2> DEFINE f == [b \in {t} |-> e[b]]
    <2>1. Tailed({t}) /\ Solved(f, {t})
      OBVIOUS
    <2>2. Cardinality({t}) = 0 + 1
      <3>1. \A x : Cardinality({x}) = 1
        BY FS_Singleton
      <3> QED
        BY <3>1
    <2> HIDE DEF f, Tailed, Solved
    <2> QED
      BY <2>1, <2>2
  <1>2. ASSUME NEW n \in Nat, n \in N PROVE n + 1 \in N
    <2> SUFFICES ASSUME n + 1 < Cardinality(I)
                 PROVE  \E D \in SUBSET I : \E f : /\ Tailed(D) /\ Solved(f, D)
                                                   /\ Cardinality(D) = (n + 1) + 1
      OBVIOUS
    <2>1. n < Cardinality(I)
      BY <1>0
    <2>2. PICK D, f : D \in SUBSET I /\ Tailed(D) /\ Solved(f, D) /\ Cardinality(D) = n + 1
      BY <1>2, <2>1
    <2>3. PICK a \in I \ D : nx[a] \in D
      <3> DEFINE R == I \ D
      <3>1. R # {}
        BY <2>2
      <3>2. R # I
        BY <2>2
      <3>3. R \in SUBSET I
        OBVIOUS
      <3>4. PICK a \in R : nx[a] \notin R
        <4> HIDE DEF R
        <4> QED
          BY <3>1, <3>2, <3>3 DEF Cycle
      <3>5. nx[a] \in I
        BY DEF Cycle
      <3> QED
        BY <3>4, <3>5
    <2> DEFINE E == D \cup {a}
               g == [b \in E |-> IF b = a THEN e[a] \o f[nx[a]] ELSE f[b]]
    <2>4. Tailed(E) /\ E \in SUBSET I
      BY <2>2, <2>3
    <2>5. Solved(g, E)
      <3>1. ASSUME NEW b \in D PROVE g[b] = Step(g, b)
        <4>1. b # a /\ f[b] = Step(f, b) /\ (b = t \/ nx[b] \in D)
          BY <2>2, <2>3
        <4>2. b # t => nx[b] # a /\ g[nx[b]] = f[nx[b]]
          BY <2>3, <4>1
        <4> QED
          BY <4>1, <4>2
      <3>2. g[a] = Step(g, a)
        <4>1. a # t /\ nx[a] # a /\ nx[a] \in E
          BY <2>2, <2>3
        <4> QED
          BY <4>1
      <3> HIDE DEF g
      <3> QED
        BY <3>1, <3>2
    <2>6. Cardinality(E) = (n + 1) + 1
      <3>1. IsFiniteSet(D)
        BY <2>2, FS_Subset
      <3> QED
        BY <2>2, <2>3, <3>1, FS_AddElement
    <2> HIDE DEF g, E, Solved, Tailed
    <2> QED
      BY <2>4, <2>5, <2>6
  <1> HIDE DEF N
  <1>3. Nat \subseteq N
    BY <1>1, <1>2, Induction
  <1>4. PICK f : Solved(f, I)
    <2>1. Cardinality(I) # 0
      BY FS_EmptySet
    <2>2. Cardinality(I) - 1 \in Nat /\ Cardinality(I) - 1 < Cardinality(I)
          /\ (Cardinality(I) - 1) + 1 = Cardinality(I)
      BY <1>0, <2>1
    <2>3. Cardinality(I) - 1 \in N
      BY <1>3, <2>2
    <2>4. PICK D, f : D \in SUBSET I /\ Solved(f, D) /\ Cardinality(D) = Cardinality(I)
      BY <2>2, <2>3 DEF N
    <2>5. D = I
      BY <2>4, FS_Subset
    <2> HIDE DEF Solved
    <2> QED
      BY <2>4, <2>5
  <1> DEFINE h == [b \in I |-> f[b]]
  <1>5. ASSUME NEW b \in I PROVE h[b] = Step(h, b)
    <2>1. nx[b] \in I
      BY DEF Cycle
    <2> QED
      BY <1>4, <2>1
  <1>6. IsPath(h, I, nx, t, e)
    BY <1>5 DEF IsPath
  <1> QED
    BY <1>6

\* There is only one.
LEMMA PathUnique ==
  ASSUME NEW I, NEW nx, NEW t \in I, NEW e, Cycle(I, nx),
         NEW f, IsPath(f, I, nx, t, e), NEW g, IsPath(g, I, nx, t, e)
  PROVE  f = g
  <1> DEFINE P == {b \in I : f[b] = g[b]}
  <1>1. t \in P
    BY DEF IsPath
  <1>2. ASSUME NEW b \in I, b # t, nx[b] \in P PROVE b \in P
    BY <1>2, ZenonT(30) DEF IsPath
  <1>3. I \subseteq P
    <2> HIDE DEF P
    <2> QED
      BY <1>1, <1>2, PathInduction
  <1>4. \A b \in I : f[b] = g[b]
    BY <1>3
  <1>5. f = [b \in I |-> f[b]] /\ g = [b \in I |-> g[b]]
    <2>1. f = [b \in I |-> IF b = t THEN e[b] ELSE e[b] \o f[nx[b]]]
      BY DEF IsPath
    <2>2. g = [b \in I |-> IF b = t THEN e[b] ELSE e[b] \o g[nx[b]]]
      BY DEF IsPath
    <2>3. DOMAIN f = I /\ DOMAIN g = I
      BY <2>1, <2>2
    <2>4. f = [b \in DOMAIN f |-> f[b]] /\ g = [b \in DOMAIN g |-> g[b]]
      BY <2>1, <2>2
    <2> QED
      BY <2>3, <2>4
  <1> QED
    BY <1>4, <1>5

\* What the path from a block is: its elements alone at the end, else those
\* and the path from the next block.
LEMMA PathIs ==
  ASSUME NEW I, IsFiniteSet(I), NEW nx, NEW t \in I, NEW e, Cycle(I, nx)
  PROVE  /\ IsPath(Path(I, nx, t, e), I, nx, t, e)
         /\ Path(I, nx, t, e)[t] = e[t]
         /\ \A b \in I : b # t => Path(I, nx, t, e)[b] = e[b] \o Path(I, nx, t, e)[nx[b]]
  <1>1. IsPath(Path(I, nx, t, e), I, nx, t, e)
    BY PathExists DEF Path
  <1> QED
    BY <1>1 DEF IsPath

\* A path of sequences of values is a sequence of values.
LEMMA PathTyped ==
  ASSUME NEW I, IsFiniteSet(I), NEW nx, NEW t \in I, NEW V, NEW e \in [I -> Seq(V)],
         Cycle(I, nx)
  PROVE  Path(I, nx, t, e) \in [I -> Seq(V)]
  <1> DEFINE f == Path(I, nx, t, e)
             P == {b \in I : f[b] \in Seq(V)}
  <1>1. /\ f[t] = e[t]
        /\ \A b \in I : b # t => f[b] = e[b] \o f[nx[b]]
        /\ f = [b \in I |-> IF b = t THEN e[b] ELSE e[b] \o f[nx[b]]]
    <2>1. IsPath(f, I, nx, t, e)
      BY PathIs
    <2> HIDE DEF f
    <2> QED
      BY <2>1 DEF IsPath
  <1> HIDE DEF f
  <1>2. t \in P
    BY <1>1
  <1>3. ASSUME NEW b \in I, b # t, nx[b] \in P PROVE b \in P
    <2>1. f[b] = e[b] \o f[nx[b]] /\ e[b] \in Seq(V) /\ f[nx[b]] \in Seq(V)
      BY <1>1, <1>3
    <2>2. f[b] \in Seq(V)
      BY <2>1, ConcatProperties
    <2> QED
      BY <2>2
  <1>4. I \subseteq P
    <2> HIDE DEF P
    <2> QED
      BY <1>2, <1>3, PathInduction
  <1>5. \A b \in I : f[b] \in Seq(V)
    BY <1>4
  <1> QED
    BY <1>1, <1>5 DEF f

\* On what both have in common up to t, two paths to t agree.
LEMMA SamePaths ==
  ASSUME NEW I1, IsFiniteSet(I1), NEW nx1, Cycle(I1, nx1), NEW e1,
         NEW I2, IsFiniteSet(I2), NEW nx2, Cycle(I2, nx2), NEW e2,
         NEW U \in SUBSET I1, U \subseteq I2, NEW t \in U,
         \A b \in U \ {t} : nx1[b] \in U /\ nx2[b] = nx1[b],
         \A b \in U : e1[b] = e2[b]
  PROVE  \A b \in U : Path(I1, nx1, t, e1)[b] = Path(I2, nx2, t, e2)[b]
  <1> DEFINE f1 == Path(I1, nx1, t, e1)
             f2 == Path(I2, nx2, t, e2)
             P == {b \in I1 : b \in U => f1[b] = f2[b]}
  <1>1. /\ f1[t] = e1[t] /\ f2[t] = e2[t]
        /\ \A b \in I1 : b # t => f1[b] = e1[b] \o f1[nx1[b]]
        /\ \A b \in I2 : b # t => f2[b] = e2[b] \o f2[nx2[b]]
    <2>1. t \in I1 /\ t \in I2
      OBVIOUS
    <2>2. IsPath(f1, I1, nx1, t, e1) /\ IsPath(f2, I2, nx2, t, e2)
      BY <2>1, PathIs
    <2> HIDE DEF f1, f2
    <2> QED
      BY <2>1, <2>2 DEF IsPath
  <1> HIDE DEF f1, f2
  <1>2. t \in P
    BY <1>1
  <1>3. ASSUME NEW b \in I1, b # t, nx1[b] \in P PROVE b \in P
    <2> SUFFICES ASSUME b \in U PROVE f1[b] = f2[b]
      OBVIOUS
    <2>1. nx1[b] \in U /\ nx2[b] = nx1[b] /\ e1[b] = e2[b] /\ b \in I2
      BY <1>3
    <2>2. f1[nx1[b]] = f2[nx1[b]]
      BY <1>3, <2>1
    <2> QED
      BY <1>1, <1>3, <2>1, <2>2, ZenonT(30)
  <1>4. I1 \subseteq P
    <2> HIDE DEF P
    <2> QED
      BY <1>2, <1>3, PathInduction
  <1> QED
    BY <1>4 DEF f1, f2

LEMMA ConcatAppend ==
  ASSUME NEW V, NEW s \in Seq(V), NEW r \in Seq(V), NEW v \in V
  PROVE  s \o Append(r, v) = Append(s \o r, v)
  <1>1. <<v>> \in Seq(V) /\ s \o r \in Seq(V)
    BY ConcatProperties
  <1>2. Append(r, v) = r \o <<v>> /\ Append(s \o r, v) = (s \o r) \o <<v>>
    BY <1>1, AppendIsConcat
  <1>3. (s \o r) \o <<v>> = s \o (r \o <<v>>)
    BY <1>1, ConcatAssociative
  <1> QED
    BY <1>2, <1>3

\* What is appended at the end of a path is appended to all that lead there.
AppendedEnd(I, V, nx1, t1, e1, nx2, t2, e2, v, U) ==
  /\ IsFiniteSet(I) /\ Cycle(I, nx1) /\ Cycle(I, nx2)
  /\ e1 \in [I -> Seq(V)] /\ v \in V /\ U \subseteq I /\ t1 \in U /\ t2 \in I
  /\ \A b \in U \ {t1} : b # t2 /\ nx1[b] \in U /\ nx2[b] = nx1[b] /\ e1[b] = e2[b]
  /\ Path(I, nx2, t2, e2)[t1] = Append(Path(I, nx1, t1, e1)[t1], v)

\* An element appended at the end of the path, or a block with one element
\* put after the end, is appended to the path from every block before it.
LEMMA AppendedPaths ==
  ASSUME NEW I, NEW V, NEW nx1, NEW t1, NEW e1, NEW nx2, NEW t2, NEW e2, NEW v, NEW U,
         AppendedEnd(I, V, nx1, t1, e1, nx2, t2, e2, v, U)
  PROVE  \A b \in U : Path(I, nx2, t2, e2)[b] = Append(Path(I, nx1, t1, e1)[b], v)
  <1> USE DEF AppendedEnd
  <1> DEFINE f1 == Path(I, nx1, t1, e1)
             f2 == Path(I, nx2, t2, e2)
             P == {b \in I : b \in U => f2[b] = Append(f1[b], v)}
  <1>1. /\ \A b \in I : b # t1 => f1[b] = e1[b] \o f1[nx1[b]]
        /\ \A b \in I : b # t2 => f2[b] = e2[b] \o f2[nx2[b]]
        /\ f1 \in [I -> Seq(V)]
    <2>1. t1 \in I
      OBVIOUS
    <2>2. IsPath(f1, I, nx1, t1, e1) /\ IsPath(f2, I, nx2, t2, e2)
      BY <2>1, PathIs
    <2>3. f1 \in [I -> Seq(V)]
      BY <2>1, PathTyped
    <2> HIDE DEF f1, f2
    <2> QED
      BY <2>1, <2>2, <2>3 DEF IsPath
  <1>2. f2[t1] = Append(f1[t1], v)
    OBVIOUS
  <1> HIDE DEF f1, f2
  <1>3. t1 \in P
    BY <1>2
  <1>4. ASSUME NEW b \in I, b # t1, nx1[b] \in P PROVE b \in P
    <2> SUFFICES ASSUME b \in U PROVE f2[b] = Append(f1[b], v)
      OBVIOUS
    <2>1. f2[nx1[b]] = Append(f1[nx1[b]], v)
      BY <1>4
    <2>2. f2[b] = e1[b] \o Append(f1[nx1[b]], v) /\ f1[b] = e1[b] \o f1[nx1[b]]
      BY <1>1, <1>4, <2>1, ZenonT(30)
    <2>3. e1[b] \in Seq(V) /\ f1[nx1[b]] \in Seq(V)
      BY <1>1, <1>4
    <2> QED
      BY <2>2, <2>3, ConcatAppend, SMTT(20)
  <1>5. I \subseteq P
    <2> HIDE DEF P
    <2> QED
      BY <1>3, <1>4, PathInduction
  <1> QED
    BY <1>5 DEF f1, f2

-----------------------------------------------------------------------------
(* The elements of a ring d of n slots, from f up to t.                     *)

Ring(d, n, f, t) == [i \in 1 .. (t + n - f) % n |-> d[(f + i - 1) % n]]

\* How many they are, and the slot of the i-th.
RingCount(n, f, t) == IF f <= t THEN t - f ELSE t + n - f
RingSlot(n, f, i) == IF f + i - 1 < n THEN f + i - 1 ELSE f + i - 1 - n

LEMMA WrapIs ==
  ASSUME NEW n \in Nat \ {0}, NEW x \in 0 .. 2 * n - 1
  PROVE  x % n = IF x < n THEN x ELSE x - n
  OBVIOUS

IsRing(d, n, f, t, V) ==
  n \in Nat \ {0, 1} /\ f \in 0 .. n - 1 /\ t \in 0 .. n - 1 /\ d \in [0 .. n - 1 -> V]

LEMMA RingIs ==
  ASSUME NEW n, NEW f, NEW t, NEW V, NEW d, IsRing(d, n, f, t, V)
  PROVE  /\ RingCount(n, f, t) \in 0 .. n - 1 /\ (RingCount(n, f, t) = 0 <=> f = t)
         /\ Ring(d, n, f, t) \in Seq(V) /\ Len(Ring(d, n, f, t)) = RingCount(n, f, t)
         /\ \A i \in 1 .. RingCount(n, f, t) : /\ RingSlot(n, f, i) \in 0 .. n - 1
                                              /\ Ring(d, n, f, t)[i] = d[RingSlot(n, f, i)]
  <1> DEFINE r == Ring(d, n, f, t)
             m == RingCount(n, f, t)
  <1> USE DEF IsRing
  <1>1. (t + n - f) % n = m
    <2> DEFINE x == t + n - f
    <2>1. x \in 0 .. 2 * n - 1
      OBVIOUS
    <2>2. x % n = IF x < n THEN x ELSE x - n
      <3> HIDE DEF x
      <3> QED
        BY <2>1, WrapIs
    <2> QED
      BY <2>2 DEF RingCount
  <1>2. m \in 0 .. n - 1 /\ (m = 0 <=> f = t)
    BY DEF RingCount
  <1>3. ASSUME NEW i \in 1 .. m
        PROVE  /\ (f + i - 1) % n = RingSlot(n, f, i)
               /\ RingSlot(n, f, i) \in 0 .. n - 1
    <2> DEFINE x == f + i - 1
    <2>0. i \in 1 .. n - 1
      <3> HIDE DEF m
      <3> QED
        BY <1>2
    <2>1. x \in 0 .. 2 * n - 1
      BY <2>0
    <2>2. x % n = IF x < n THEN x ELSE x - n
      <3> HIDE DEF x
      <3> QED
        BY <2>1, WrapIs
    <2> QED
      BY <2>0, <2>2 DEF RingSlot
  <1>4. r = [i \in 1 .. m |-> d[(f + i - 1) % n]]
    BY <1>1 DEF Ring
  <1> HIDE DEF r, m
  <1>5. r \in [1 .. m -> V] /\ \A i \in 1 .. m : r[i] = d[RingSlot(n, f, i)]
    BY <1>3, <1>4
  <1>6. r \in Seq(V) /\ Len(r) = m
    BY <1>2, <1>5
  <1> QED
    BY <1>2, <1>3, <1>5, <1>6 DEF r, m

\* Two sequences are one if they agree.
LEMMA SameSeq ==
  ASSUME NEW V, NEW r \in Seq(V), NEW s \in Seq(V), Len(r) = Len(s),
         \A i \in 1 .. Len(r) : r[i] = s[i]
  PROVE  r = s
  OBVIOUS

\* The slot after i.
Round(n, i) == IF i + 1 = n THEN 0 ELSE i + 1

\* The slot at the tail, once published, is the last element.
LEMMA RingAppended ==
  ASSUME NEW n, NEW f, NEW t, NEW V, NEW d, IsRing(d, n, f, t, V), Round(n, t) # f
  PROVE  Ring(d, n, f, Round(n, t)) = Append(Ring(d, n, f, t), d[t])
  <1> USE DEF IsRing
  <1>0. PICK u \in 0 .. n - 1 : u = Round(n, t) /\ u = (IF t + 1 = n THEN 0 ELSE t + 1) /\ u # f
    BY DEF Round
  <1> DEFINE r == Ring(d, n, f, t)
             s == Ring(d, n, f, u)
             m == RingCount(n, f, t)
  <1>1. /\ m \in 0 .. n - 1 /\ r \in Seq(V) /\ Len(r) = m
        /\ \A i \in 1 .. m : r[i] = d[RingSlot(n, f, i)]
    <2>1. IsRing(d, n, f, t, V)
      BY DEF IsRing
    <2> QED
      BY <2>1, RingIs
  <1>2. /\ s \in Seq(V) /\ Len(s) = RingCount(n, f, u)
        /\ \A i \in 1 .. RingCount(n, f, u) : s[i] = d[RingSlot(n, f, i)]
    <2>1. IsRing(d, n, f, u, V)
      BY DEF IsRing
    <2> QED
      BY <2>1, RingIs
  <1>3. RingCount(n, f, u) = m + 1 /\ RingSlot(n, f, m + 1) = t
    BY <1>0 DEF RingCount, RingSlot
  <1>4. d[t] \in V
    OBVIOUS
  <1> HIDE DEF r, s, m
  <1>5. /\ Append(r, d[t]) \in Seq(V) /\ Len(Append(r, d[t])) = m + 1
        /\ \A i \in 1 .. m : Append(r, d[t])[i] = r[i]
        /\ Append(r, d[t])[m + 1] = d[t]
    BY <1>1, <1>4, AppendProperties
  <1>6. ASSUME NEW i \in 1 .. m + 1 PROVE s[i] = Append(r, d[t])[i]
    <2>0. s[i] = d[RingSlot(n, f, i)]
      BY <1>2, <1>3
    <2>1. CASE i = m + 1
      BY <1>3, <1>5, <2>0, <2>1
    <2>2. CASE i \in 1 .. m
      BY <1>1, <1>5, <2>0, <2>2
    <2> QED
      BY <1>1, <2>1, <2>2
  <1>7. s = Append(r, d[t])
    BY <1>1, <1>2, <1>3, <1>5, <1>6, SameSeq
  <1> QED
    BY <1>0, <1>7 DEF r, s

\* A write to the slot at the tail shows in no element.
LEMMA RingWritten ==
  ASSUME NEW n, NEW f, NEW t, NEW V, NEW d, IsRing(d, n, f, t, V), NEW v \in V
  PROVE  Ring([d EXCEPT ![t] = v], n, f, t) = Ring(d, n, f, t)
  <1> DEFINE e == [d EXCEPT ![t] = v]
             r == Ring(d, n, f, t)
             s == Ring(e, n, f, t)
             m == RingCount(n, f, t)
  <1> USE DEF IsRing
  <1>0. e \in [0 .. n - 1 -> V] /\ \A i \in 0 .. n - 1 : i # t => e[i] = d[i]
    OBVIOUS
  <1> HIDE DEF e
  <1>1. /\ m \in 0 .. n - 1 /\ r \in Seq(V) /\ Len(r) = m
        /\ \A i \in 1 .. m : RingSlot(n, f, i) \in 0 .. n - 1 /\ r[i] = d[RingSlot(n, f, i)]
    <2>1. IsRing(d, n, f, t, V)
      BY DEF IsRing
    <2> QED
      BY <2>1, RingIs
  <1>2. /\ s \in Seq(V) /\ Len(s) = m
        /\ \A i \in 1 .. m : s[i] = e[RingSlot(n, f, i)]
    <2>1. IsRing(e, n, f, t, V)
      BY <1>0 DEF IsRing
    <2> QED
      BY <2>1, RingIs
  <1>3. \A i \in 1 .. m : RingSlot(n, f, i) # t
    BY DEF RingSlot, RingCount
  <1> HIDE DEF r, s, m
  <1>4. \A i \in 1 .. m : s[i] = r[i]
    BY <1>0, <1>1, <1>2, <1>3
  <1>5. s = r
    BY <1>1, <1>2, <1>4, SameSeq
  <1> QED
    BY <1>5 DEF r, s, e

\* The slot at the front is the first element.
LEMMA RingHead ==
  ASSUME NEW n, NEW f, NEW t, NEW V, NEW d, IsRing(d, n, f, t, V), f # t
  PROVE  Ring(d, n, f, t) # <<>> /\ Head(Ring(d, n, f, t)) = d[f]
  <1> DEFINE r == Ring(d, n, f, t)
             m == RingCount(n, f, t)
  <1>1. /\ m \in Nat \ {0} /\ r \in Seq(V) /\ Len(r) = m
        /\ \A i \in 1 .. m : r[i] = d[RingSlot(n, f, i)]
    <2>1. /\ m \in 0 .. n - 1 /\ (m = 0 <=> f = t) /\ r \in Seq(V) /\ Len(r) = m
          /\ \A i \in 1 .. m : r[i] = d[RingSlot(n, f, i)]
      BY RingIs
    <2>2. n - 1 \in Nat
      BY DEF IsRing
    <2> HIDE DEF m, r
    <2> QED
      BY <2>1, <2>2
  <1>2. RingSlot(n, f, 1) = f
    BY DEF RingSlot, IsRing
  <1> HIDE DEF r, m
  <1>3. 1 \in 1 .. m
    BY <1>1
  <1>4. r[1] = d[f]
    BY <1>1, <1>2, <1>3
  <1>5. r # <<>> /\ Head(r) = r[1]
    BY <1>1
  <1> QED
    BY <1>4, <1>5 DEF r

Freed(d, n, f, t, V, e) ==
  /\ IsRing(d, n, f, t, V) /\ f # t
  /\ e \in [0 .. n - 1 -> V] /\ \A i \in 0 .. n - 1 : i # f => e[i] = d[i]

\* Once the front has moved and its slot is cleared, the first element is gone.
LEMMA RingPopped ==
  ASSUME NEW n, NEW f, NEW t, NEW V, NEW d, NEW e, Freed(d, n, f, t, V, e)
  PROVE  Ring(e, n, Round(n, f), t) = Tail(Ring(d, n, f, t))
  <1>0. /\ n \in Nat \ {0, 1} /\ f \in 0 .. n - 1 /\ t \in 0 .. n - 1 /\ f # t
        /\ d \in [0 .. n - 1 -> V] /\ IsRing(d, n, f, t, V)
        /\ e \in [0 .. n - 1 -> V] /\ \A i \in 0 .. n - 1 : i # f => e[i] = d[i]
    BY DEF Freed, IsRing
  <1>a. PICK u \in 0 .. n - 1 : u = Round(n, f) /\ u = (IF f + 1 = n THEN 0 ELSE f + 1)
    BY <1>0 DEF Round
  <1> DEFINE r == Ring(d, n, f, t)
             s == Ring(e, n, u, t)
             m == RingCount(n, f, t)
  <1>1. /\ m \in Nat \ {0} /\ r \in Seq(V) /\ Len(r) = m
        /\ \A i \in 1 .. m : RingSlot(n, f, i) \in 0 .. n - 1 /\ r[i] = d[RingSlot(n, f, i)]
    <2>1. /\ m \in 0 .. n - 1 /\ (m = 0 <=> f = t) /\ r \in Seq(V) /\ Len(r) = m
          /\ \A i \in 1 .. m : RingSlot(n, f, i) \in 0 .. n - 1 /\ r[i] = d[RingSlot(n, f, i)]
      BY <1>0, RingIs
    <2> HIDE DEF m, r
    <2> QED
      BY <1>0, <2>1
  <1>2. /\ s \in Seq(V) /\ Len(s) = RingCount(n, u, t)
        /\ \A i \in 1 .. RingCount(n, u, t) : s[i] = e[RingSlot(n, u, i)]
    <2>1. IsRing(e, n, u, t, V)
      BY <1>0, <1>a DEF IsRing
    <2> QED
      BY <2>1, RingIs
  <1>3. RingCount(n, u, t) = m - 1
    BY <1>0, <1>a DEF RingCount
  <1>4. \A i \in 1 .. m - 1 : /\ RingSlot(n, u, i) = RingSlot(n, f, i + 1)
                              /\ RingSlot(n, u, i) # f
    BY <1>0, <1>a DEF RingSlot, RingCount
  <1> HIDE DEF r, s, m
  <1>7. /\ Tail(r) \in Seq(V) /\ Len(Tail(r)) = m - 1
        /\ \A i \in 1 .. m - 1 : Tail(r)[i] = r[i + 1]
    BY <1>1
  <1>8. ASSUME NEW i \in 1 .. m - 1 PROVE s[i] = Tail(r)[i]
    <2> DEFINE k == RingSlot(n, f, i + 1)
    <2>1. i + 1 \in 1 .. m
      BY <1>1
    <2>2. r[i + 1] = d[k] /\ k \in 0 .. n - 1
      BY <1>1, <2>1
    <2>3. RingSlot(n, u, i) = k /\ k # f
      BY <1>4
    <2>4. s[i] = e[k]
      BY <1>2, <1>3, <2>3
    <2>5. Tail(r)[i] = r[i + 1]
      BY <1>7
    <2> HIDE DEF k
    <2> QED
      BY <1>0, <2>2, <2>3, <2>4, <2>5
  <1>9. s = Tail(r)
    <2>1. s \in Seq(V) /\ Tail(r) \in Seq(V) /\ Len(s) = m - 1 /\ Len(Tail(r)) = m - 1
      BY <1>2, <1>3, <1>7
    <2> QED
      BY <1>8, <2>1, SameSeq
  <1> QED
    BY <1>a, <1>9 DEF r, s

\* A ring whose tail is right behind its front holds all its slots but one.
LEMMA RingFull ==
  ASSUME NEW n, NEW f, NEW t, NEW V, NEW d, IsRing(d, n, f, t, V), f = Round(n, t)
  PROVE  Len(Ring(d, n, f, t)) = n - 1
  <1>1. Len(Ring(d, n, f, t)) = RingCount(n, f, t)
    BY RingIs
  <1> QED
    BY <1>1 DEF RingCount, Round, IsRing

-----------------------------------------------------------------------------
(* The queue as paths: from each block on, the elements up to the tail.     *)

Elem == Values \cup {Nil}
Nexts == [b \in Ids |-> blocks[b].next]
Elems == [b \in Ids |-> Elements(b)]
OneCycle == Cycle(Ids, Nexts)
Queue == Path(Ids, Nexts, tailBlock, Elems)

LEMMA IdsFinite ==
  ASSUME Types
  PROVE  IsFiniteSet(Ids) /\ DOMAIN blocks = Ids /\ Cardinality(Ids) = Len(blocks)
  <1>1. Len(blocks) \in Nat /\ DOMAIN blocks = 1 .. Len(blocks)
    BY DEF Types
  <1>2. IsFiniteSet(1 .. Len(blocks)) /\ Cardinality(1 .. Len(blocks)) = Len(blocks)
    <2>1. PICK n \in Nat : n = Len(blocks)
      BY <1>1
    <2>2. IsFiniteSet(1 .. n) /\ Cardinality(1 .. n) = IF 1 > n THEN 0 ELSE n - 1 + 1
      BY FS_Interval
    <2> QED
      BY <2>1, <2>2
  <1> QED
    BY <1>1, <1>2 DEF Ids

LEMMA ElementsIs ==
  ASSUME Types, NEW b \in Ids
  PROVE  /\ Elements(b) = Ring(blocks[b].data, Size(b), blocks[b].front, blocks[b].tail)
         /\ IsRing(blocks[b].data, Size(b), blocks[b].front, blocks[b].tail, Elem)
         /\ Elements(b) \in Seq(Elem)
         /\ Elements(b) = <<>> <=> Empty(b)
  <1>1. Elements(b) = Ring(blocks[b].data, Size(b), blocks[b].front, blocks[b].tail)
    BY DEF Elements, Ring
  <1>2. IsRing(blocks[b].data, Size(b), blocks[b].front, blocks[b].tail, Elem)
    BY BlockFacts DEF IsRing, Elem
  <1>3. /\ Elements(b) \in Seq(Elem) 
        /\ Len(Elements(b)) = 0 <=> blocks[b].front = blocks[b].tail
    BY <1>1, <1>2, RingIs
  <1>4. Elements(b) = <<>> <=> Len(Elements(b)) = 0
    BY <1>3, EmptySeq
  <1> QED
    BY <1>1, <1>2, <1>3, <1>4 DEF Empty

\* Contents is the path from the front block to the tail block.
LEMMA QueueIs ==
  ASSUME Types, OneCycle
  PROVE  /\ IsPath(Queue, Ids, Nexts, tailBlock, Elems)
         /\ Contents = Queue[frontBlock]
         /\ Elems \in [Ids -> Seq(Elem)] /\ Queue \in [Ids -> Seq(Elem)]
         /\ Contents \in Seq(Elem)
         /\ Queue[tailBlock] = Elements(tailBlock)
         /\ \A b \in Ids : b # tailBlock => Queue[b] = Elements(b) \o Queue[blocks[b].next]
  <1>1. /\ IsFiniteSet(Ids) /\ DOMAIN blocks = Ids
        /\ frontBlock \in Ids /\ tailBlock \in Ids
        /\ \A b \in Ids : blocks[b].next \in Ids
    BY IdsFinite, BlockFacts
  <1>2. Elems \in [Ids -> Seq(Elem)]
    BY ElementsIs DEF Elems
  <1>3. IsPath(Queue, Ids, Nexts, tailBlock, Elems)
    BY <1>1, PathIs DEF Queue, OneCycle
  <1>4. Queue \in [Ids -> Seq(Elem)]
    BY <1>1, <1>2, PathTyped DEF Queue, OneCycle
  <1>5. Contents = Queue[frontBlock]
    <2>1. ASSUME NEW f
          PROVE  IsPath(f, Ids, Nexts, tailBlock, Elems) <=>
                   f = [b \in DOMAIN blocks |->
                          IF b = tailBlock THEN Elements(b) ELSE Elements(b) \o f[blocks[b].next]]
      BY <1>1 DEF IsPath, Nexts, Elems
    <2>2. Contents = (CHOOSE f : IsPath(f, Ids, Nexts, tailBlock, Elems))[frontBlock]
      BY <2>1, ZenonT(30) DEF Contents
    <2> QED
      BY <2>2 DEF Queue, Path
  <1>6. /\ Queue[tailBlock] = Elements(tailBlock)
        /\ \A b \in Ids : b # tailBlock => Queue[b] = Elements(b) \o Queue[blocks[b].next]
    <2>1. ASSUME NEW b \in Ids
          PROVE  Queue[b] = IF b = tailBlock THEN Elements(b) ELSE Elements(b) \o Queue[blocks[b].next]
      BY <1>1, <1>3 DEF IsPath, Nexts, Elems
    <2> QED
      BY <1>1, <2>1
  <1>7. Contents \in Seq(Elem)
    BY <1>1, <1>4, <1>5
  <1> QED
    BY <1>2, <1>3, <1>4, <1>5, <1>6, <1>7

LEMMA HeadConcat ==
  ASSUME NEW V, NEW s \in Seq(V), s # <<>>, NEW r \in Seq(V)
  PROVE  /\ s \o r # <<>> /\ Head(s \o r) = Head(s) /\ Tail(s \o r) = Tail(s) \o r
         /\ Tail(s) \in Seq(V)
  <1>1. /\ s \o r \in Seq(V) /\ Len(s \o r) = Len(s) + Len(r)
        /\ \A i \in 1 .. Len(s) + Len(r) : (s \o r)[i] = IF i <= Len(s) THEN s[i] ELSE r[i - Len(s)]
    BY ConcatProperties
  <1>2. Len(s) \in Nat \ {0} /\ Len(r) \in Nat
    BY EmptySeq
  <1>3. s \o r # <<>>
    BY <1>1, <1>2
  <1>4. Head(s \o r) = (s \o r)[1] /\ Head(s) = s[1]
    OBVIOUS
  <1>5. (s \o r)[1] = s[1]
    <2>1. 1 \in 1 .. Len(s) + Len(r) /\ 1 <= Len(s)
      BY <1>2
    <2> QED
      BY <1>1, <2>1
  <1>6. /\ Tail(s) \in Seq(V) /\ Len(Tail(s)) = Len(s) - 1
        /\ \A i \in 1 .. Len(s) - 1 : Tail(s)[i] = s[i + 1]
    BY <1>2
  <1>7. Tail(s \o r) = Tail(s) \o r
    <2>1. /\ Tail(s \o r) \in Seq(V) /\ Len(Tail(s \o r)) = Len(s) + Len(r) - 1
          /\ \A i \in 1 .. Len(s) + Len(r) - 1 : Tail(s \o r)[i] = (s \o r)[i + 1]
      BY <1>1, <1>2, <1>3
    <2>2. /\ Tail(s) \o r \in Seq(V) /\ Len(Tail(s) \o r) = Len(Tail(s)) + Len(r)
          /\ \A i \in 1 .. Len(Tail(s)) + Len(r) :
               (Tail(s) \o r)[i] = IF i <= Len(Tail(s)) THEN Tail(s)[i] ELSE r[i - Len(Tail(s))]
      BY <1>6, ConcatProperties
    <2>3. ASSUME NEW i \in 1 .. Len(s) + Len(r) - 1
          PROVE  Tail(s \o r)[i] = (Tail(s) \o r)[i]
      <3>1. i + 1 \in 1 .. Len(s) + Len(r) /\ i \in 1 .. Len(Tail(s)) + Len(r)
        BY <1>2, <1>6
      <3>2. Tail(s \o r)[i] = IF i + 1 <= Len(s) THEN s[i + 1] ELSE r[(i + 1) - Len(s)]
        BY <1>1, <2>1, <3>1
      <3>3. (Tail(s) \o r)[i] = IF i <= Len(Tail(s)) THEN Tail(s)[i] ELSE r[i - Len(Tail(s))]
        BY <2>2, <3>1
      <3>4. i + 1 <= Len(s) <=> i <= Len(Tail(s))
        BY <1>2, <1>6
      <3>5. (i + 1) - Len(s) = i - Len(Tail(s))
        BY <1>2, <1>6
      <3>6. i <= Len(Tail(s)) => Tail(s)[i] = s[i + 1]
        <4>1. i <= Len(Tail(s)) => i \in 1 .. Len(s) - 1
          BY <1>2, <1>6
        <4> QED
          BY <1>6, <4>1
      <3> QED
        BY <3>2, <3>3, <3>4, <3>5, <3>6
    <2>4. Len(Tail(s \o r)) = Len(Tail(s) \o r)
      BY <1>2, <1>6, <2>1, <2>2
    <2>5. \A i \in 1 .. Len(Tail(s \o r)) : Tail(s \o r)[i] = (Tail(s) \o r)[i]
      BY <2>1, <2>3
    <2> QED
      BY <2>1, <2>2, <2>4, <2>5, SameSeq
  <1> QED
    BY <1>3, <1>4, <1>5, <1>6, <1>7

LEMMA FrontOfElements ==
  ASSUME Types, NEW b \in Ids, ~Empty(b)
  PROVE  Elements(b) # <<>> /\ Head(Elements(b)) = FrontElement(b)
  BY ElementsIs, RingHead DEF Empty, FrontElement

\* The first element is the one the consumer looks for.
LEMMA HeadIs ==
  ASSUME Inv, OneCycle
  PROVE  /\ ~Empty(frontBlock) =>
              Contents # <<>> /\ Head(Contents) = FrontElement(frontBlock)
         /\ Empty(frontBlock) /\ frontBlock # tailBlock =>
              Contents # <<>> /\ Head(Contents) = FrontElement(NextFrontBlock)
         /\ Empty(frontBlock) /\ frontBlock = tailBlock => Contents = <<>>
  <1>0. Types /\ Chained
    BY DEF Inv
  <1>1. /\ frontBlock \in Ids /\ tailBlock \in Ids /\ NextFrontBlock \in Ids
        /\ frontBlock # tailBlock => ~Empty(NextFrontBlock)
    BY <1>0, BlockFacts, NextBlocks
  <1>2. /\ Contents = Queue[frontBlock] /\ Queue \in [Ids -> Seq(Elem)]
        /\ Queue[tailBlock] = Elements(tailBlock)
        /\ \A b \in Ids : b # tailBlock => Queue[b] = Elements(b) \o Queue[blocks[b].next]
        /\ \A b \in Ids : blocks[b].next \in Ids
    BY <1>0, QueueIs, BlockFacts
  <1>3. ASSUME NEW b \in Ids, ~Empty(b)
        PROVE  Queue[b] # <<>> /\ Head(Queue[b]) = FrontElement(b)
    <2>1. Elements(b) \in Seq(Elem) /\ Elements(b) # <<>> /\ Head(Elements(b)) = FrontElement(b)
      BY <1>0, <1>3, ElementsIs, FrontOfElements
    <2>2. CASE b = tailBlock
      BY <1>2, <2>1, <2>2
    <2>3. CASE b # tailBlock
      <3> DEFINE r == Queue[blocks[b].next]
      <3>1. Queue[b] = Elements(b) \o r /\ r \in Seq(Elem)
        BY <1>2, <2>3
      <3> HIDE DEF r
      <3> QED
        BY <2>1, <3>1, HeadConcat
    <2> QED
      BY <2>2, <2>3
  <1>4. ~Empty(frontBlock) => Contents # <<>> /\ Head(Contents) = FrontElement(frontBlock)
    BY <1>1, <1>2, <1>3
  <1>5. ASSUME Empty(frontBlock)
        PROVE  Elements(frontBlock) = <<>>
    BY <1>0, <1>1, <1>5, ElementsIs
  <1>6. ASSUME Empty(frontBlock), frontBlock # tailBlock
        PROVE  Contents = Queue[NextFrontBlock]
    <2>1. Contents = Elements(frontBlock) \o Queue[NextFrontBlock]
      BY <1>1, <1>2, <1>6 DEF NextFrontBlock
    <2>2. Queue[NextFrontBlock] \in Seq(Elem)
      BY <1>1, <1>2
    <2> QED
      BY <1>5, <1>6, <2>1, <2>2, ConcatEmptySeq
  <1> QED
    BY <1>1, <1>2, <1>3, <1>4, <1>5, <1>6

Full(b) == After(b, blocks[b].tail) = blocks[b].front

LEMMA AfterRound ==
  ASSUME Types, NEW b \in Ids
  PROVE  /\ After(b, blocks[b].tail) = Round(Size(b), blocks[b].tail)
         /\ After(b, blocks[b].front) = Round(Size(b), blocks[b].front)
  BY AfterFacts DEF Round

LEMMA FullElements ==
  ASSUME Types, NEW b \in Ids, Full(b)
  PROVE  Len(Elements(b)) = Size(b) - 1
  BY AfterRound, ElementsIs, RingFull DEF Full

LEMMA CycleKept ==
  ASSUME ShapeKept, OneCycle
  PROVE  OneCycle' /\ Nexts' = Nexts
  <1>1. Ids' = Ids /\ \A b \in Ids : blocks'[b].next = blocks[b].next
    BY DEF ShapeKept
  <1>2. Nexts' = Nexts
    BY <1>1 DEF Nexts
  <1> QED
    BY <1>1, <1>2 DEF OneCycle

\* No element is written over, none is freed: the same elements.
LEMMA ElementsKept ==
  ASSUME ShapeKept, NEW b \in Ids, blocks'[b].front = blocks[b].front,
         blocks'[b].tail = blocks[b].tail, blocks'[b].data = blocks[b].data
  PROVE  Elements(b)' = Elements(b)
  BY DEF ShapeKept, Elements

QueueFacts ==
  /\ Contents = Queue[frontBlock] /\ Queue[tailBlock] = Elements(tailBlock)
  /\ Elems \in [Ids -> Seq(Elem)] /\ IsFiniteSet(Ids)
  /\ \A b \in Ids : b # tailBlock => Queue[b] = Elements(b) \o Queue[blocks[b].next]

LEMMA QueueNow == Types /\ OneCycle => QueueFacts
  BY QueueIs, IdsFinite DEF QueueFacts

LEMMA QueueThen ==
  ASSUME Types', OneCycle'
  PROVE  /\ Contents' = Queue'[frontBlock'] /\ Queue'[tailBlock'] = Elements(tailBlock)'
         /\ Elems' \in [Ids' -> Seq(Elem)] /\ IsFiniteSet(Ids')
         /\ \A b \in Ids' : b # tailBlock' => Queue'[b] = Elements(b)' \o Queue'[blocks'[b].next]
  <1>1. Types' /\ OneCycle' => QueueFacts'
    BY QueueNow, PTL
  <1>2. Elem' = Elem
    BY DEF Elem
  <1> QED
    BY <1>1, <1>2 DEF QueueFacts

\* The blocks in use are the ones the queue is made of.
LEMMA UsedBlocks ==
  ASSUME Types, NEW U \in SUBSET Ids, Chain(U)
  PROVE  /\ frontBlock \in U /\ tailBlock \in U
         /\ \A b \in U \ {tailBlock} : Nexts[b] \in U
         /\ \A b \in U : b \in Ids
  BY DEF Chain, Nexts

\* The queue is the same when its blocks in use have the same elements.
LEMMA ContentsKept ==
  ASSUME Inv, Inv', OneCycle, OneCycle', UNCHANGED <<frontBlock, tailBlock>>, Ids \subseteq Ids',
         \A b \in Ids \ {tailBlock} : blocks'[b].next = blocks[b].next,
         \A b \in Ids : Elements(b)' = Elements(b) \/ (Empty(b) /\ b # tailBlock /\ b # frontBlock)
  PROVE  Contents' = Contents
  <1>0. Types /\ Types' /\ IsFiniteSet(Ids) /\ IsFiniteSet(Ids')
    BY IdsFinite, QueueThen DEF Inv
  <1>1. PICK U \in SUBSET Ids : Chain(U)
    BY DEF Inv, Chained
  <1>2. /\ frontBlock \in U /\ tailBlock \in U
        /\ \A b \in U \ {tailBlock} : Nexts[b] \in U
        /\ \A b \in U : b \in Ids
    BY <1>0, <1>1, UsedBlocks
  <1>3. \A b \in U \ {tailBlock} : Nexts'[b] = Nexts[b]
    BY <1>2 DEF Nexts
  <1>4. \A b \in U : Elems'[b] = Elems[b]
    <2>1. \A b \in U : ~Empty(b) \/ b = frontBlock
      BY <1>1 DEF Chain
    <2> QED
      BY <1>2, <2>1 DEF Elems
  <1>5. \A b \in U : Path(Ids, Nexts, tailBlock, Elems)[b] = Path(Ids', Nexts', tailBlock, Elems')[b]
    <2>1. Cycle(Ids, Nexts) /\ Cycle(Ids', Nexts')
      BY DEF OneCycle
    <2>2. U \subseteq Ids' /\ \A b \in U \ {tailBlock} : Nexts[b] \in U /\ Nexts'[b] = Nexts[b]
      BY <1>2, <1>3
    <2> QED
      BY <1>0, <1>2, <1>4, <2>1, <2>2, SamePaths
  <1>6. Queue'[frontBlock] = Queue[frontBlock]
    BY <1>2, <1>5 DEF Queue
  <1> QED
    BY <1>0, <1>6, QueueIs, QueueThen

\* An element published in the tail block is the last of the queue.
LEMMA TailAppended ==
  ASSUME Inv, Inv', OneCycle, OneCycle', ShapeKept, UNCHANGED <<frontBlock, tailBlock>>,
         Elements(tailBlock)' = Append(Elements(tailBlock), pval),
         \A b \in Ids \ {tailBlock} : Elements(b)' = Elements(b)
  PROVE  Contents' = Append(Contents, pval)
  <1>0. Types /\ Types' /\ IsFiniteSet(Ids) /\ Ids' = Ids /\ Nexts' = Nexts /\ pval \in Elem
    BY IdsFinite, CycleKept DEF Inv, ShapeKept, Types, TypeOK, Elem
  <1>1. PICK U \in SUBSET Ids : Chain(U)
    BY DEF Inv, Chained
  <1>2. /\ frontBlock \in U /\ tailBlock \in U
        /\ \A b \in U \ {tailBlock} : Nexts[b] \in U
        /\ \A b \in U : b \in Ids
    BY <1>0, <1>1, UsedBlocks
  <1>3. Elems \in [Ids -> Seq(Elem)] /\ Queue[tailBlock] = Elements(tailBlock)
    BY <1>0, QueueIs
  <1>4. Queue'[tailBlock] = Append(Queue[tailBlock], pval)
    BY <1>0, <1>3, QueueThen
  <1>5. \A b \in U \ {tailBlock} : b # tailBlock /\ Nexts[b] \in U /\ Nexts'[b] = Nexts[b]
                                   /\ Elems[b] = Elems'[b]
    BY <1>0, <1>2 DEF Elems
  <1>6. \A b \in U : Path(Ids, Nexts', tailBlock, Elems')[b]
                       = Append(Path(Ids, Nexts, tailBlock, Elems)[b], pval)
    <2>1. Cycle(Ids, Nexts) /\ Cycle(Ids, Nexts')
      BY <1>0 DEF OneCycle
    <2>2. Path(Ids, Nexts', tailBlock, Elems')[tailBlock]
            = Append(Path(Ids, Nexts, tailBlock, Elems)[tailBlock], pval)
      BY <1>0, <1>4 DEF Queue
    <2>3. AppendedEnd(Ids, Elem, Nexts, tailBlock, Elems, Nexts', tailBlock, Elems', pval, U)
      BY <1>0, <1>2, <1>3, <1>5, <2>1, <2>2 DEF AppendedEnd
    <2> QED
      BY <2>3, AppendedPaths
  <1>7. Queue'[frontBlock] = Append(Queue[frontBlock], pval)
    BY <1>0, <1>2, <1>6 DEF Queue
  <1> QED
    BY <1>0, <1>7, QueueIs, QueueThen

\* A block of one element, moved on to, makes that the last of the queue.
LEMMA BlockAppended ==
  ASSUME Inv, Inv', OneCycle, OneCycle', UNCHANGED <<blocks, frontBlock>>,
         ppc = "advanceTail", tailBlock' = NextTailBlock, Elements(NextTailBlock) = <<pval>>
  PROVE  Contents' = Append(Contents, pval)
  <1>0. /\ Types /\ Types' /\ IsFiniteSet(Ids) /\ Ids' = Ids /\ Nexts' = Nexts /\ Elems' = Elems
        /\ pval \in Elem
    BY IdsFinite DEF Inv, Ids, Nexts, Elems, Elements, Size, Types, TypeOK, Elem
  <1>1. PICK U \in SUBSET Ids : Chain(U)
    BY DEF Inv, Chained
  <1>2. /\ frontBlock \in U /\ tailBlock \in U
        /\ \A b \in U \ {tailBlock} : Nexts[b] \in U
        /\ \A b \in U : b \in Ids
    BY <1>0, <1>1, UsedBlocks
  <1>3. NextTailBlock \notin U /\ NextTailBlock \in Ids
    BY <1>0, <1>1, NextBlocks DEF Inv, Chain
  <1>4. /\ Elems \in [Ids -> Seq(Elem)] /\ Queue[tailBlock] = Elements(tailBlock)
        /\ Elements(tailBlock) \in Seq(Elem)
    BY <1>0, <1>2, QueueIs, ElementsIs
  <1>5. Queue'[tailBlock] = Append(Queue[tailBlock], pval)
    <2>1. Queue'[tailBlock] = Elements(tailBlock) \o Queue'[NextTailBlock]
      <3>1. \A b \in Ids : b # NextTailBlock =>
              Queue'[b] = Elements(b)' \o Queue'[blocks[b].next]
        BY <1>0, QueueThen
      <3>3. Elems'[tailBlock] = Elems[tailBlock]
        BY <1>0
      <3> QED
        BY <1>0, <1>2, <1>3, <3>1, <3>3 DEF Elems, NextTailBlock
    <2>2. Queue'[NextTailBlock] = <<pval>>
      BY <1>0, <1>3, QueueThen DEF Elems
    <2> QED
      BY <1>0, <1>4, <2>1, <2>2, AppendIsConcat
  <1>6. \A b \in U \ {tailBlock} : b # NextTailBlock /\ Nexts[b] \in U /\ Nexts'[b] = Nexts[b]
                                   /\ Elems[b] = Elems'[b]
    BY <1>0, <1>2, <1>3
  <1>7. \A b \in U : Path(Ids, Nexts', NextTailBlock, Elems')[b]
                       = Append(Path(Ids, Nexts, tailBlock, Elems)[b], pval)
    <2>1. Cycle(Ids, Nexts) /\ Cycle(Ids, Nexts')
      BY <1>0 DEF OneCycle
    <2>2. Path(Ids, Nexts', NextTailBlock, Elems')[tailBlock]
            = Append(Path(Ids, Nexts, tailBlock, Elems)[tailBlock], pval)
      BY <1>0, <1>5 DEF Queue
    <2>3. AppendedEnd(Ids, Elem, Nexts, tailBlock, Elems, Nexts', NextTailBlock, Elems', pval, U)
      BY <1>0, <1>2, <1>3, <1>4, <1>6, <2>1, <2>2 DEF AppendedEnd
    <2> QED
      BY <2>3, AppendedPaths
  <1>8. Queue'[frontBlock] = Append(Queue[frontBlock], pval)
    BY <1>0, <1>2, <1>7 DEF Queue
  <1> QED
    BY <1>0, <1>8, QueueIs, QueueThen

\* An element freed in the front block was the first of the queue.
LEMMA HeadPopped ==
  ASSUME Inv, Inv', OneCycle, OneCycle', ShapeKept, UNCHANGED <<frontBlock, tailBlock>>,
         ~Empty(frontBlock), Elements(frontBlock)' = Tail(Elements(frontBlock)),
         \A b \in Ids \ {frontBlock} : Elements(b)' = Elements(b)
  PROVE  Contents' = Tail(Contents)
  <1>0. Types /\ Types' /\ IsFiniteSet(Ids) /\ Ids' = Ids /\ Nexts' = Nexts
    BY IdsFinite, CycleKept DEF Inv, ShapeKept
  <1>1. PICK U \in SUBSET Ids : Chain(U)
    BY DEF Inv, Chained
  <1>2. /\ frontBlock \in Ids /\ tailBlock \in Ids /\ NextFrontBlock \in Ids
        /\ \A b \in Ids : blocks'[b].next = blocks[b].next
    BY <1>0, BlockFacts, NextBlocks DEF Inv, ShapeKept
  <1>3. CASE frontBlock = tailBlock
    BY <1>0, <1>3, QueueIs, QueueThen
  <1>4. CASE frontBlock # tailBlock
    <2> DEFINE W == U \ {frontBlock}
    <2>1. /\ W \in SUBSET Ids /\ tailBlock \in W /\ NextFrontBlock \in W
          /\ \A b \in W \ {tailBlock} : Nexts[b] \in W /\ Nexts'[b] = Nexts[b]
          /\ \A b \in W : Elems[b] = Elems'[b]
      BY <1>0, <1>1, <1>4 DEF Chain, Nexts, Elems, NextFrontBlock
    <2>2. Cycle(Ids, Nexts) /\ Cycle(Ids, Nexts')
      BY <1>0 DEF OneCycle
    <2> HIDE DEF W
    <2>3. \A b \in W : Path(Ids, Nexts, tailBlock, Elems)[b] = Path(Ids, Nexts', tailBlock, Elems')[b]
      <3>1. W \subseteq Ids
        BY <2>1
      <3> QED
        BY <1>0, <2>1, <2>2, <3>1, SamePaths
    <2>4. Queue'[NextFrontBlock] = Queue[NextFrontBlock]
      BY <1>0, <2>1, <2>3 DEF Queue
    <2>5. Contents = Elements(frontBlock) \o Queue[NextFrontBlock]
      BY <1>0, <1>2, <1>4, QueueIs DEF NextFrontBlock
    <2>6. Contents' = Tail(Elements(frontBlock)) \o Queue[NextFrontBlock]
      BY <1>0, <1>2, <1>4, <2>4, QueueThen DEF NextFrontBlock
    <2>7. Queue[NextFrontBlock] \in Seq(Elem)
      BY <1>0, <1>2, QueueIs
    <2>8. Elements(frontBlock) \in Seq(Elem) /\ Elements(frontBlock) # <<>>
      BY <1>0, <1>2, ElementsIs
    <2> QED
      BY <2>5, <2>6, <2>7, <2>8, HeadConcat
  <1> QED
    BY <1>3, <1>4

\* Leaving an empty front block takes nothing from the queue.
LEMMA FrontAdvanced ==
  ASSUME Inv, Inv', OneCycle, OneCycle', UNCHANGED <<blocks, tailBlock>>,
         Empty(frontBlock), frontBlock # tailBlock, frontBlock' = NextFrontBlock
  PROVE  Contents' = Contents
  <1>1. Ids' = Ids /\ Nexts' = Nexts /\ Elems' = Elems
    BY DEF Ids, Nexts, Elems, Elements, Size
  <1>2. Queue' = Queue
    BY <1>1 DEF Queue
  <1>3. /\ frontBlock \in Ids /\ NextFrontBlock \in Ids /\ Elements(frontBlock) = <<>>
    BY BlockFacts, NextBlocks, ElementsIs DEF Inv
  <1>4. Contents = Elements(frontBlock) \o Queue[NextFrontBlock] /\ Queue[NextFrontBlock] \in Seq(Elem)
    BY <1>3, QueueIs DEF Inv, NextFrontBlock
  <1>5. Contents = Queue[NextFrontBlock]
    BY <1>3, <1>4, ConcatEmptySeq
  <1> QED
    BY <1>2, <1>5, QueueThen DEF Inv

-----------------------------------------------------------------------------
(* What is known of the elements and of the calls in progress.             *)

\* What the threads hold is what they wrote and what they read.
Holding ==
  /\ ppc = "publish" => blocks[tailBlock].data[blocks[tailBlock].tail] = pval
  /\ ppc = "publishNext" => blocks[NextTailBlock].data[blocks[NextTailBlock].tail] = pval
  /\ ppc = "advanceTail" => Elements(NextTailBlock) = <<pval>>
  /\ cpc = "pop" => cval = FrontElement(frontBlock)
  /\ cpc = "idle" => cop = "none"

\* A consumer that found elements at its call is not on its way to say Nil.
Answering ==
  /\ cpc = "readTail" /\ ~emptyAtCall => ~Empty(frontBlock) \/ frontBlock # tailBlock
  /\ cpc = "readTailBlock" /\ ~emptyAtCall => frontBlock # tailBlock

\* The producer only leaves full blocks behind.
FullAtTail == {"tailFull", "readNextFront", "writeNext", "publishNext", "link", "advanceTail"}
Filled ==
  /\ \A b \in Ids \ {frontBlock, tailBlock} :
       Empty(b) \/ Full(b) \/ (ppc = "advanceTail" /\ b = NextTailBlock)
  /\ ppc \in FullAtTail /\ tailBlock # frontBlock => Full(tailBlock)

\* The blocks are as many and as large as the constructor made them.
Sized ==
  /\ \A b \in Ids : Size(b) >= InitialBlockSize(maxSize)
  /\ largestBlockSize >= InitialBlockSize(maxSize)
  /\ Len(blocks) >= InitialBlockCount(maxSize)

\* A call that finds no room was begun when there was none.
Refused ==
  /\ ppc = "readFront" /\ ~fullAtCall => Len(Contents) < maxSize
  /\ ppc = "tailFull" /\ NextTailBlock = frontBlock => fullAtCall
  /\ ppc = "link" => fullAtCall

Order == OneCycle /\ Holding /\ Answering /\ Filled /\ Sized /\ Refused

-----------------------------------------------------------------------------
(* Steps that move no element: they write to the threads' own copies only. *)

Quiet ==
  /\ ShapeKept /\ FrontKept /\ TailKept /\ DataKept
  /\ UNCHANGED <<made, frontBlock, tailBlock, largestBlockSize>>

\* A step that moves no element leaves the queue as it is.
LEMMA QuietKeeps ==
  ASSUME Inv, Inv', OneCycle, Quiet
  PROVE  /\ OneCycle' /\ Contents' = Contents /\ NextTailBlock' = NextTailBlock
         /\ Ids' = Ids
         /\ frontBlock \in Ids /\ tailBlock \in Ids /\ NextTailBlock \in Ids
         /\ \A b \in Ids : /\ Elements(b)' = Elements(b) /\ FrontElement(b)' = FrontElement(b)
                           /\ blocks'[b].data[blocks'[b].tail] = blocks[b].data[blocks[b].tail]
                           /\ Empty(b)' <=> Empty(b)
                           /\ Full(b)' <=> Full(b)
  <1> USE DEF Quiet
  <1>1. OneCycle'
    BY CycleKept
  <1>2. \A b \in Ids : Elements(b)' = Elements(b)
    BY ElementsKept DEF FrontKept, TailKept, DataKept
  <1>3. Ids' = Ids /\ \A b \in Ids : blocks'[b].next = blocks[b].next /\ Size(b)' = Size(b)
    BY DEF ShapeKept
  <1>4. Contents' = Contents
    BY <1>1, <1>2, <1>3, ContentsKept
  <1>5. frontBlock \in Ids /\ tailBlock \in Ids /\ NextTailBlock \in Ids
    BY BlockFacts, NextBlocks DEF Inv
  <1>6. NextTailBlock' = NextTailBlock
    BY <1>3, <1>5 DEF NextTailBlock
  <1>7. ASSUME NEW b \in Ids
        PROVE  /\ FrontElement(b)' = FrontElement(b)
               /\ blocks'[b].data[blocks'[b].tail] = blocks[b].data[blocks[b].tail]
               /\ Empty(b)' <=> Empty(b)
               /\ Full(b)' <=> Full(b)
    BY <1>3 DEF FrontKept, TailKept, DataKept, FrontElement, Empty, Full, After
  <1> QED
    BY <1>1, <1>2, <1>3, <1>4, <1>5, <1>6, <1>7

LEMMA SizedKept ==
  ASSUME Sized, ShapeKept, UNCHANGED <<made, largestBlockSize>>
  PROVE  Sized'
  BY DEF Sized, ShapeKept, maxSize, InitialBlockSize, InitialBlockCount, OneBlock, MAX_BLOCK_SIZE

\* A step of the consumer that moves no element.
LEMMA QuietConsumer ==
  ASSUME Inv, Inv', Order, Quiet, UNCHANGED producerVars, Holding', Answering'
  PROVE  Order' /\ Contents' = Contents
  <1>1. /\ OneCycle' /\ Contents' = Contents /\ NextTailBlock' = NextTailBlock /\ Ids' = Ids
        /\ frontBlock \in Ids /\ tailBlock \in Ids /\ NextTailBlock \in Ids
        /\ \A b \in Ids : (Empty(b)' <=> Empty(b)) /\ (Full(b)' <=> Full(b))
    BY QuietKeeps DEF Order
  <1>2. Sized'
    BY SizedKept DEF Order, Quiet
  <1>3. Filled'
    BY <1>1 DEF Order, Filled, Quiet, producerVars
  <1>4. Refused'
    BY <1>1 DEF Order, Refused, Quiet, producerVars, maxSize
  <1> QED
    BY <1>1, <1>2, <1>3, <1>4 DEF Order

\* A step of the producer that moves no element.
LEMMA QuietProducer ==
  ASSUME Inv, Inv', Order, Quiet, UNCHANGED consumerVars,
         ppc' \notin {"publish", "publishNext", "advanceTail"}, ppc # "advanceTail",
         ppc' \in FullAtTail => ppc \in FullAtTail \/ Full(tailBlock),
         Refused'
  PROVE  Order' /\ Contents' = Contents
  <1>1. /\ OneCycle' /\ Contents' = Contents /\ NextTailBlock' = NextTailBlock /\ Ids' = Ids
        /\ frontBlock \in Ids /\ tailBlock \in Ids /\ NextTailBlock \in Ids
        /\ \A b \in Ids : /\ Elements(b)' = Elements(b) /\ FrontElement(b)' = FrontElement(b)
                          /\ blocks'[b].data[blocks'[b].tail] = blocks[b].data[blocks[b].tail]
                          /\ Empty(b)' <=> Empty(b)
                          /\ Full(b)' <=> Full(b)
    BY QuietKeeps DEF Order
  <1>2. Sized'
    BY SizedKept DEF Order, Quiet
  <1>3. Filled'
    BY <1>1 DEF Order, Filled, Quiet
  <1>4. Holding'
    BY <1>1 DEF Order, Holding, Quiet, consumerVars
  <1>5. Answering'
    BY <1>1 DEF Order, Answering, Quiet, consumerVars
  <1> QED
    BY <1>1, <1>2, <1>3, <1>4, <1>5 DEF Order

LEMMA BlocksSame ==
  ASSUME UNCHANGED <<blocks, made, frontBlock, tailBlock, largestBlockSize>>
  PROVE  Quiet
  BY DEF Quiet, ShapeKept, FrontKept, TailKept, DataKept, Ids, Size

LEMMA ConsumerCallOrders ==
  ASSUME Inv, Inv', Order, NEW op \in {"peek", "dequeue"}, ConsumerCall(op)
  PROVE  Order' /\ Contents' = Contents
  <1>1. /\ UNCHANGED <<blocks, made, frontBlock, tailBlock, largestBlockSize, producerVars>>
        /\ cpc' \in {"take", "readTail"} /\ emptyAtCall' = (Contents = <<>>)
    BY DEF ConsumerCall
  <1>2. Quiet
    BY <1>1, BlocksSame
  <1>3. /\ \A b \in Ids : Empty(b)' <=> Empty(b)
        /\ \A b \in Ids : Elements(b)' = Elements(b)
        /\ NextTailBlock' = NextTailBlock
        /\ frontBlock \in Ids /\ tailBlock \in Ids /\ NextTailBlock \in Ids
        /\ \A b \in Ids : blocks'[b].data[blocks'[b].tail] = blocks[b].data[blocks[b].tail]
    BY <1>2, QuietKeeps DEF Order
  <1>4. Holding'
    BY <1>1, <1>3 DEF Order, Holding, producerVars
  <1>5. Answering'
    BY <1>1, <1>3, HeadIs DEF Order, Answering
  <1> QED
    BY <1>1, <1>2, <1>4, <1>5, QuietConsumer

LEMMA RefreshTailOrders ==
  ASSUME Inv, Inv', Order, NEW otherwise \in {"readTailBlock", "readNextTail"},
         RefreshTail(otherwise), cpc = "readTail" \/ otherwise = "readNextTail"
  PROVE  Order' /\ Contents' = Contents
  <1>1. /\ UNCHANGED <<made, frontBlock, tailBlock, largestBlockSize, producerVars>>
        /\ emptyAtCall' = emptyAtCall
        /\ cpc' = IF Empty(frontBlock) THEN otherwise ELSE "take"
    BY DEF RefreshTail, ConsumerGoto, Empty
  <1>2. Quiet
    <2>1. frontBlock \in Ids
      BY BlockFacts DEF Inv
    <2> QED
      BY <1>1, <2>1, LocalTailSet DEF Inv, RefreshTail, Quiet
  <1>3. /\ \A b \in Ids : Empty(b)' <=> Empty(b)
        /\ \A b \in Ids : Elements(b)' = Elements(b)
        /\ NextTailBlock' = NextTailBlock
        /\ frontBlock \in Ids /\ tailBlock \in Ids /\ NextTailBlock \in Ids
        /\ \A b \in Ids : blocks'[b].data[blocks'[b].tail] = blocks[b].data[blocks[b].tail]
    BY <1>2, QuietKeeps DEF Order
  <1>4. Holding'
    BY <1>1, <1>3 DEF Order, Holding, producerVars
  <1>5. Answering'
    BY <1>1, <1>3 DEF Order, Answering
  <1> QED
    BY <1>1, <1>2, <1>4, <1>5, QuietConsumer

LEMMA ReadTailBlockOrders ==
  ASSUME Inv, Inv', Order, ReadTailBlock
  PROVE  Order' /\ Contents' = Contents
  <1>1. /\ UNCHANGED <<blocks, made, frontBlock, tailBlock, largestBlockSize, producerVars>>
        /\ cpc' \in {"idle", "recheckTail"} /\ (cpc' = "idle" => cop' = "none")
    BY DEF ReadTailBlock, Return, ConsumerGoto
  <1>2. Quiet
    BY <1>1, BlocksSame
  <1>3. /\ \A b \in Ids : Elements(b)' = Elements(b)
        /\ NextTailBlock' = NextTailBlock
        /\ frontBlock \in Ids /\ tailBlock \in Ids /\ NextTailBlock \in Ids
        /\ \A b \in Ids : blocks'[b].data[blocks'[b].tail] = blocks[b].data[blocks[b].tail]
    BY <1>2, QuietKeeps DEF Order
  <1>4. Holding'
    BY <1>1, <1>3 DEF Order, Holding, producerVars
  <1>5. Answering'
    BY <1>1 DEF Answering
  <1> QED
    BY <1>1, <1>2, <1>4, <1>5, QuietConsumer

LEMMA ReadNextTailOrders ==
  ASSUME Inv, Inv', Order, ReadNextTail
  PROVE  Order' /\ Contents' = Contents
  <1>1. /\ UNCHANGED <<made, frontBlock, tailBlock, largestBlockSize, producerVars>>
        /\ cpc' \in {"peekNext", "advanceFront"}
    BY DEF ReadNextTail, ConsumerGoto
  <1>2. Quiet
    <2>1. CASE UNCHANGED blocks
      BY <1>1, <2>1, BlocksSame
    <2>2. CASE blocks' = [blocks EXCEPT ![NextFrontBlock].localTail = blocks[NextFrontBlock].tail]
      <3>1. NextFrontBlock \in Ids
        BY NextBlocks DEF Inv
      <3> QED
        BY <1>1, <2>2, <3>1, LocalTailSet DEF Inv, Quiet
    <2> QED
      BY <2>1, <2>2 DEF ReadNextTail
  <1>3. /\ \A b \in Ids : Elements(b)' = Elements(b)
        /\ NextTailBlock' = NextTailBlock
        /\ frontBlock \in Ids /\ tailBlock \in Ids /\ NextTailBlock \in Ids
        /\ \A b \in Ids : blocks'[b].data[blocks'[b].tail] = blocks[b].data[blocks[b].tail]
    BY <1>2, QuietKeeps DEF Order
  <1>4. Holding'
    BY <1>1, <1>3 DEF Order, Holding, producerVars
  <1>5. Answering'
    BY <1>1 DEF Answering
  <1> QED
    BY <1>1, <1>2, <1>4, <1>5, QuietConsumer

LEMMA TakeOrders ==
  ASSUME Inv, Inv', Order, PeekNext \/ TakeElement
  PROVE  Order' /\ Contents' = Contents
  <1>1. /\ UNCHANGED <<blocks, made, frontBlock, tailBlock, largestBlockSize, producerVars>>
        /\ \/ cpc' = "idle" /\ cop' = "none"
           \/ cpc' = "pop" /\ cval' = FrontElement(frontBlock)
    BY DEF PeekNext, TakeElement, Return
  <1>2. Quiet
    BY <1>1, BlocksSame
  <1>3. /\ \A b \in Ids : Elements(b)' = Elements(b) /\ FrontElement(b)' = FrontElement(b)
        /\ NextTailBlock' = NextTailBlock
        /\ frontBlock \in Ids /\ tailBlock \in Ids /\ NextTailBlock \in Ids
        /\ \A b \in Ids : blocks'[b].data[blocks'[b].tail] = blocks[b].data[blocks[b].tail]
    BY <1>2, QuietKeeps DEF Order
  <1>4. Holding'
    BY <1>1, <1>3 DEF Order, Holding, producerVars
  <1>5. Answering'
    BY <1>1 DEF Answering
  <1> QED
    BY <1>1, <1>2, <1>4, <1>5, QuietConsumer

LEMMA EnqueueCallOrders ==
  ASSUME Inv, Inv', Order, NEW mode \in {"CanAlloc", "CannotAlloc"}, EnqueueCall(mode)
  PROVE  Order' /\ Contents' = Contents
  <1>1. /\ UNCHANGED <<blocks, made, frontBlock, tailBlock, largestBlockSize, consumerVars>>
        /\ ppc = "idle" /\ ppc' \in {"write", "readFront"}
        /\ fullAtCall' = (Len(Contents) >= maxSize)
    BY DEF EnqueueCall
  <1>2. Quiet
    BY <1>1, BlocksSame
  <1>3. Refused'
    <2>1. Contents' = Contents /\ Len(Contents) \in Nat /\ maxSize \in Nat /\ maxSize' = maxSize
      BY <1>1, <1>2, QuietKeeps, QueueIs, LenProperties, SpscAssumption
         DEF Order, Inv, Types, TypeOK, maxSize
    <2>2. PICK k \in Nat, m \in Nat : k = Len(Contents) /\ m = maxSize
      BY <2>1
    <2>3. ~fullAtCall' => k < m
      <3>1. ~fullAtCall' => ~(Len(Contents) >= maxSize)
        BY <1>1
      <3> QED
        BY <2>2, <3>1
    <2> QED
      BY <1>1, <2>1, <2>2, <2>3 DEF Refused
  <1> QED
    BY <1>1, <1>2, <1>3, QuietProducer DEF FullAtTail

LEMMA TailFullOrders ==
  ASSUME Inv, Inv', Order, TailFull
  PROVE  Order' /\ Contents' = Contents
  <1>1. /\ UNCHANGED <<blocks, made, frontBlock, tailBlock, largestBlockSize, consumerVars>>
        /\ ppc = "tailFull" /\ ppc' \in {"idle", "link", "readNextFront"}
        /\ ppc' = "link" => NextTailBlock = frontBlock /\ fullAtCall' = fullAtCall
    BY DEF TailFull, EnqueueDone, ProducerGoto
  <1>2. Quiet
    BY <1>1, BlocksSame
  <1>3. Refused'
    BY <1>1 DEF Order, Refused
  <1> QED
    BY <1>1, <1>2, <1>3, QuietProducer DEF FullAtTail

LEMMA ReadNextFrontOrders ==
  ASSUME Inv, Inv', Order, ReadNextFront
  PROVE  Order' /\ Contents' = Contents
  <1>1. /\ UNCHANGED <<made, frontBlock, tailBlock, largestBlockSize, consumerVars>>
        /\ ppc = "readNextFront" /\ ppc' = "writeNext"
    BY DEF ReadNextFront, ProducerGoto
  <1>2. Quiet
    <2>1. NextTailBlock \in Ids
      BY NextBlocks DEF Inv
    <2> QED
      BY <1>1, <2>1, LocalFrontSet DEF Inv, ReadNextFront, Quiet
  <1>3. Refused'
    BY <1>1 DEF Refused
  <1> QED
    BY <1>1, <1>2, <1>3, QuietProducer DEF FullAtTail

-----------------------------------------------------------------------------
(* Steps of the producer that write or publish.                            *)

LEMMA WriteElementOrders ==
  ASSUME Inv, Inv', Order, WriteElement
  PROVE  Order' /\ Contents' = Contents
  <1>1. /\ UNCHANGED <<made, frontBlock, tailBlock, largestBlockSize, consumerVars, pval>>
        /\ ppc = "write" /\ ppc' = "publish"
    BY DEF WriteElement, ProducerGoto
  <1>2. /\ Types /\ OneCycle /\ frontBlock \in Ids /\ tailBlock \in Ids
        /\ pval \in Elem
    BY BlockFacts DEF Inv, Order, Types, TypeOK, Elem
  <1>3. /\ ShapeKept /\ FrontKept /\ TailKept
        /\ \A b \in Ids : blocks'[b].data =
             IF b = tailBlock THEN [blocks[b].data EXCEPT ![blocks[b].tail] = pval]
             ELSE blocks[b].data
    BY <1>2, ElementWritten, ZenonT(30) DEF WriteElement
  <1>4. Ids' = Ids /\ \A b \in Ids : blocks'[b].next = blocks[b].next /\ Size(b)' = Size(b)
    BY <1>3 DEF ShapeKept
  <1>5. OneCycle'
    BY <1>2, <1>3, CycleKept
  <1>6. ASSUME NEW b \in Ids PROVE Elements(b)' = Elements(b)
    <2>1. CASE b # tailBlock
      BY <1>3, <2>1, ElementsKept DEF FrontKept, TailKept
    <2>2. CASE b = tailBlock
      <3>1. IsRing(blocks[b].data, Size(b), blocks[b].front, blocks[b].tail, Elem)
        BY <1>2, ElementsIs
      <3>2. Ring([blocks[b].data EXCEPT ![blocks[b].tail] = pval], Size(b), blocks[b].front, blocks[b].tail)
            = Ring(blocks[b].data, Size(b), blocks[b].front, blocks[b].tail)
        BY <1>2, <3>1, RingWritten
      <3>3. Elements(b)' = Ring(blocks'[b].data, Size(b)', blocks'[b].front, blocks'[b].tail)
        BY DEF Elements, Ring
      <3> QED
        BY <1>2, <1>3, <1>4, <2>2, <3>2, <3>3, ElementsIs DEF FrontKept, TailKept
    <2> QED
      BY <2>1, <2>2
  <1>7. Contents' = Contents
    BY <1>1, <1>2, <1>4, <1>5, <1>6, ContentsKept
  <1>8. \A b \in Ids : /\ Empty(b)' <=> Empty(b)
                       /\ Full(b)' <=> Full(b)
    BY <1>3, <1>4 DEF FrontKept, TailKept, Empty, Full, After
  <1>9. Filled'
    BY <1>1, <1>2, <1>4, <1>8 DEF Order, Filled, FullAtTail
  <1>10. Answering'
    BY <1>1, <1>2, <1>8 DEF Order, Answering, consumerVars
  <1>11. Holding'
    <2>1. blocks'[tailBlock].data[blocks'[tailBlock].tail] = pval
      <3>1. blocks[tailBlock].data \in [0 .. Size(tailBlock) - 1 -> Elem]
            /\ blocks[tailBlock].tail \in 0 .. Size(tailBlock) - 1
        BY <1>2, BlockFacts DEF Elem
      <3> QED
        BY <1>2, <1>3, <3>1 DEF TailKept
    <2>2. cpc = "pop" => FrontElement(frontBlock)' = FrontElement(frontBlock)
      <3>1. cpc = "pop" => blocks[frontBlock].front # blocks[frontBlock].tail
        BY <1>2, KnownIsThere DEF Inv, Consuming, Empty
      <3>2. /\ blocks[frontBlock].data \in [0 .. Size(frontBlock) - 1 -> Elem]
            /\ blocks[frontBlock].front \in 0 .. Size(frontBlock) - 1
        BY <1>2, BlockFacts DEF Elem
      <3> QED
        BY <1>1, <1>2, <1>3, <3>1, <3>2, ZenonT(30) DEF FrontElement, FrontKept
    <2> QED
      BY <1>1, <2>1, <2>2 DEF Order, Holding, consumerVars
  <1>12. Sized'
    BY <1>1, <1>3, SizedKept DEF Order
  <1>13. Refused'
    BY <1>1 DEF Refused
  <1> QED
    BY <1>5, <1>7, <1>9, <1>10, <1>11, <1>12, <1>13 DEF Order

LEMMA PublishTailOrders ==
  ASSUME Inv, Inv', Order, PublishTail
  PROVE  Order' /\ Contents' = Append(Contents, pval)
  <1>1. /\ UNCHANGED <<made, frontBlock, tailBlock, largestBlockSize, consumerVars>>
        /\ ppc = "publish" /\ ppc' = "idle"
    BY DEF PublishTail, EnqueueDone
  <1>2. /\ Types /\ OneCycle /\ frontBlock \in Ids /\ tailBlock \in Ids
        /\ pval \in Elem
    BY BlockFacts DEF Inv, Order, Types, TypeOK, Elem
  <1>3. /\ ShapeKept /\ FrontKept /\ DataKept
        /\ \A b \in Ids : blocks'[b].tail =
             IF b = tailBlock THEN After(tailBlock, blocks[tailBlock].tail)
             ELSE blocks[b].tail
    BY <1>2, TailAdvanced DEF PublishTail
  <1>4. Ids' = Ids /\ \A b \in Ids : blocks'[b].next = blocks[b].next /\ Size(b)' = Size(b)
    BY <1>3 DEF ShapeKept
  <1>5. OneCycle'
    BY <1>2, <1>3, CycleKept
  <1>6. After(tailBlock, blocks[tailBlock].tail) # blocks[tailBlock].front
    <2> DEFINE n == Size(tailBlock)
               lf == blocks[tailBlock].localFront
               f == blocks[tailBlock].front
               lt == blocks[tailBlock].localTail
               t == blocks[tailBlock].tail
               u == After(tailBlock, t)
    <2>1. u # lf /\ Cyclic(lf, f, t) /\ Cyclic(f, lt, t)
      BY <1>1, <1>2 DEF Inv, Producing, Rings
    <2>2. /\ n \in Nat \ {0, 1} /\ lf \in 0 .. n - 1 /\ f \in 0 .. n - 1
          /\ lt \in 0 .. n - 1 /\ t \in 0 .. n - 1
      BY <1>2, BlockFacts
    <2>3. u = IF t + 1 = n THEN 0 ELSE t + 1
      BY <1>2, AfterFacts
    <2> HIDE DEF n, lf, f, lt, t, u
    <2>4. u # f
      BY <2>1, <2>2, <2>3, RoomAhead
    <2> QED
      BY <2>4 DEF f, t, u
  <1>7. \A b \in Ids \ {tailBlock} : Elements(b)' = Elements(b)
    BY <1>3, ElementsKept DEF FrontKept, DataKept
  <1>8. Elements(tailBlock)' = Append(Elements(tailBlock), pval)
    <2> DEFINE n == Size(tailBlock)
               f == blocks[tailBlock].front
               t == blocks[tailBlock].tail
               d == blocks[tailBlock].data
    <2>1. IsRing(d, n, f, t, Elem) /\ Elements(tailBlock) = Ring(d, n, f, t)
      BY <1>2, ElementsIs
    <2>2. Round(n, t) = After(tailBlock, t) /\ Round(n, t) # f
      BY <1>2, <1>6, AfterRound
    <2>3. d[t] = pval
      BY <1>1 DEF Order, Holding
    <2>4. Elements(tailBlock)' = Ring(d, n, f, Round(n, t))
      <3>1. Elements(tailBlock)' = Ring(blocks'[tailBlock].data, Size(tailBlock)',
                                        blocks'[tailBlock].front, blocks'[tailBlock].tail)
        BY <1>1 DEF Elements, Ring, Size
      <3>2. Size(tailBlock)' = Size(tailBlock)
        BY <1>1, <1>2, <1>4
      <3>3. /\ blocks'[tailBlock].data = d /\ blocks'[tailBlock].front = f
            /\ blocks'[tailBlock].tail = Round(n, t)
        BY <1>2, <1>3, <2>2 DEF FrontKept, DataKept
      <3> QED
        BY <3>1, <3>2, <3>3
    <2> HIDE DEF n, f, t, d
    <2>5. Ring(d, n, f, Round(n, t)) = Append(Ring(d, n, f, t), d[t])
      BY <2>1, <2>2, RingAppended
    <2> QED
      BY <2>1, <2>3, <2>4, <2>5
  <1>9. Contents' = Append(Contents, pval)
    BY <1>1, <1>2, <1>3, <1>5, <1>7, <1>8, TailAppended
  <1>10. /\ \A b \in Ids \ {tailBlock} : /\ Empty(b)' <=> Empty(b)
                                         /\ Full(b)' <=> Full(b)
         /\ ~Empty(tailBlock)'
    BY <1>1, <1>2, <1>3, <1>4, <1>6 DEF FrontKept, Empty, Full, After
  <1>11. Filled'
    BY <1>1, <1>2, <1>4, <1>10 DEF Order, Filled, FullAtTail
  <1>12. Answering'
    BY <1>1, <1>2, <1>10 DEF Order, Answering, consumerVars
  <1>13. Holding'
    <2>1. FrontElement(frontBlock)' = FrontElement(frontBlock)
      BY <1>1, <1>2, <1>3 DEF FrontElement, FrontKept, DataKept
    <2> QED
      BY <1>1, <2>1 DEF Order, Holding, consumerVars
  <1>14. Sized'
    BY <1>1, <1>3, SizedKept DEF Order
  <1>15. Refused'
    BY <1>1 DEF Refused
  <1> QED
    BY <1>5, <1>9, <1>11, <1>12, <1>13, <1>14, <1>15 DEF Order

LEMMA WriteNextOrders ==
  ASSUME Inv, Inv', Order, WriteNext
  PROVE  Order' /\ Contents' = Contents
  <1>1. /\ UNCHANGED <<made, frontBlock, tailBlock, largestBlockSize, consumerVars, pval>>
        /\ ppc = "writeNext" /\ ppc' = "publishNext"
    BY DEF WriteNext, ProducerGoto
  <1>2. /\ Types /\ OneCycle /\ frontBlock \in Ids /\ tailBlock \in Ids /\ NextTailBlock \in Ids
        /\ pval \in Elem /\ NextTailBlock # frontBlock /\ NextTailBlock # tailBlock
        /\ Empty(NextTailBlock)
    BY <1>1, BlockFacts, NextBlocks DEF Inv, Order, Types, TypeOK, Elem
  <1>3. /\ ShapeKept /\ FrontKept /\ TailKept
        /\ \A b \in Ids : blocks'[b].data =
             IF b = NextTailBlock THEN [blocks[b].data EXCEPT ![blocks[b].tail] = pval]
             ELSE blocks[b].data
    <2>1. PICK c \in Ids : c = NextTailBlock
      BY <1>2
    <2>2. blocks' = [blocks EXCEPT ![c].data[blocks[c].tail] = pval]
      BY <2>1 DEF WriteNext
    <2>3. /\ ShapeKept /\ FrontKept /\ TailKept
          /\ \A b \in Ids : blocks'[b].data =
               IF b = c THEN [blocks[c].data EXCEPT ![blocks[c].tail] = pval] ELSE blocks[b].data
      BY <1>2, <2>2, ElementWritten
    <2> QED
      BY <2>1, <2>3
  <1>4. Ids' = Ids /\ \A b \in Ids : blocks'[b].next = blocks[b].next /\ Size(b)' = Size(b)
    BY <1>3 DEF ShapeKept
  <1>5. OneCycle' /\ NextTailBlock' = NextTailBlock
    BY <1>1, <1>2, <1>3, <1>4, CycleKept DEF NextTailBlock
  <1>6. \A b \in Ids \ {NextTailBlock} : Elements(b)' = Elements(b)
    BY <1>3, ElementsKept DEF FrontKept, TailKept
  <1>7. Contents' = Contents
    BY <1>1, <1>2, <1>4, <1>5, <1>6, ContentsKept
  <1>8. \A b \in Ids : /\ Empty(b)' <=> Empty(b)
                       /\ Full(b)' <=> Full(b)
    BY <1>3, <1>4 DEF FrontKept, TailKept, Empty, Full, After
  <1>9. Filled'
    BY <1>1, <1>2, <1>4, <1>8 DEF Order, Filled, FullAtTail
  <1>10. Answering'
    BY <1>1, <1>2, <1>8 DEF Order, Answering, consumerVars
  <1>11. Holding'
    <2>1. blocks'[NextTailBlock].data[blocks'[NextTailBlock].tail] = pval
      <3>1. blocks[NextTailBlock].data \in [0 .. Size(NextTailBlock) - 1 -> Elem]
            /\ blocks[NextTailBlock].tail \in 0 .. Size(NextTailBlock) - 1
        BY <1>2, BlockFacts DEF Elem
      <3> QED
        BY <1>2, <1>3, <3>1 DEF TailKept
    <2>2. FrontElement(frontBlock)' = FrontElement(frontBlock)
      BY <1>1, <1>2, <1>3 DEF FrontElement, FrontKept
    <2> QED
      BY <1>1, <1>5, <2>1, <2>2 DEF Order, Holding, consumerVars
  <1>12. Sized'
    BY <1>1, <1>3, SizedKept DEF Order
  <1>13. Refused'
    BY <1>1 DEF Refused
  <1> QED
    BY <1>5, <1>7, <1>9, <1>10, <1>11, <1>12, <1>13 DEF Order

\* The first element of a block that was empty.
LEMMA FirstElement ==
  ASSUME NEW n, NEW t, NEW d, NEW V, IsRing(d, n, t, t, V)
  PROVE  Ring(d, n, t, Round(n, t)) = <<d[t]>>
  <1>1. Round(n, t) # t
    BY DEF IsRing, Round
  <1>2. Ring(d, n, t, Round(n, t)) = Append(Ring(d, n, t, t), d[t])
    BY <1>1, RingAppended
  <1>3. Ring(d, n, t, t) = <<>>
    <2>1. Ring(d, n, t, t) \in Seq(V) /\ Len(Ring(d, n, t, t)) = 0
      BY RingIs
    <2> QED
      BY <2>1, EmptySeq
  <1> QED
    BY <1>2, <1>3

LEMMA PublishNextOrders ==
  ASSUME Inv, Inv', Order, PublishNext
  PROVE  Order' /\ Contents' = Contents
  <1>1. /\ UNCHANGED <<made, frontBlock, tailBlock, largestBlockSize, consumerVars, pval>>
        /\ ppc = "publishNext" /\ ppc' = "advanceTail"
    BY DEF PublishNext, ProducerGoto
  <1>2. /\ Types /\ OneCycle /\ frontBlock \in Ids /\ tailBlock \in Ids /\ NextTailBlock \in Ids
        /\ pval \in Elem /\ NextTailBlock # frontBlock /\ NextTailBlock # tailBlock
        /\ Empty(NextTailBlock)
    BY <1>1, BlockFacts, NextBlocks DEF Inv, Order, Types, TypeOK, Elem
  <1>3. /\ ShapeKept /\ FrontKept /\ DataKept
        /\ \A b \in Ids : blocks'[b].tail =
             IF b = NextTailBlock THEN After(NextTailBlock, blocks[NextTailBlock].tail)
             ELSE blocks[b].tail
    BY <1>2, TailAdvanced DEF PublishNext
  <1>4. Ids' = Ids /\ \A b \in Ids : blocks'[b].next = blocks[b].next /\ Size(b)' = Size(b)
    BY <1>3 DEF ShapeKept
  <1>5. OneCycle' /\ NextTailBlock' = NextTailBlock
    BY <1>1, <1>2, <1>3, <1>4, CycleKept DEF NextTailBlock
  <1>6. \A b \in Ids \ {NextTailBlock} : Elements(b)' = Elements(b)
    BY <1>3, ElementsKept DEF FrontKept, DataKept
  <1>7. Contents' = Contents
    BY <1>1, <1>2, <1>4, <1>5, <1>6, ContentsKept
  <1>8. PICK c \in Ids : c = NextTailBlock
    BY <1>2
  <1>9. Elements(c)' = <<pval>>
    <2> DEFINE n == Size(c)
               t == blocks[c].tail
               d == blocks[c].data
    <2>1. IsRing(d, n, t, t, Elem) /\ Round(n, t) = After(c, t) /\ d[t] = pval
      BY <1>1, <1>2, <1>8, ElementsIs, AfterRound DEF Empty, Order, Holding
    <2>2. Elements(c)' = Ring(blocks'[c].data, Size(c)', blocks'[c].front, blocks'[c].tail)
      BY DEF Elements, Ring
    <2>3. /\ Size(c)' = n /\ blocks'[c].data = d /\ blocks'[c].front = t
          /\ blocks'[c].tail = Round(n, t)
      BY <1>2, <1>3, <1>4, <1>8, <2>1 DEF FrontKept, DataKept, Empty
    <2> HIDE DEF n, t, d
    <2>4. Ring(d, n, t, Round(n, t)) = <<d[t]>>
      BY <2>1, FirstElement
    <2> QED
      BY <2>1, <2>2, <2>3, <2>4
  <1>10. \A b \in Ids \ {NextTailBlock} : /\ Empty(b)' <=> Empty(b)
                                          /\ Full(b)' <=> Full(b)
    BY <1>3, <1>4 DEF FrontKept, Empty, Full, After
  <1>11. Filled'
    BY <1>1, <1>2, <1>4, <1>5, <1>10 DEF Order, Filled, FullAtTail
  <1>12. Answering'
    BY <1>1, <1>2, <1>10 DEF Order, Answering, consumerVars
  <1>13. Holding'
    <2>1. FrontElement(frontBlock)' = FrontElement(frontBlock)
      BY <1>1, <1>2, <1>3 DEF FrontElement, FrontKept, DataKept
    <2>2. Elements(NextTailBlock)' = <<pval>>
      BY <1>5, <1>8, <1>9
    <2> QED
      BY <1>1, <2>1, <2>2 DEF Order, Holding, consumerVars
  <1>14. Sized'
    BY <1>1, <1>3, SizedKept DEF Order
  <1>15. Refused'
    BY <1>1 DEF Refused
  <1> QED
    BY <1>5, <1>7, <1>11, <1>12, <1>13, <1>14, <1>15 DEF Order

LEMMA AdvanceTailOrders ==
  ASSUME Inv, Inv', Order, AdvanceTail
  PROVE  Order' /\ Contents' = Append(Contents, pval)
  <1>1. /\ UNCHANGED <<blocks, made, frontBlock, largestBlockSize, consumerVars>>
        /\ ppc = "advanceTail" /\ ppc' = "idle" /\ tailBlock' = NextTailBlock
    BY DEF AdvanceTail, EnqueueDone
  <1>2. /\ Types /\ OneCycle /\ frontBlock \in Ids /\ tailBlock \in Ids /\ NextTailBlock \in Ids
        /\ NextTailBlock # frontBlock /\ NextTailBlock # tailBlock
    BY <1>1, BlockFacts, NextBlocks DEF Inv, Order
  <1>3. ShapeKept /\ Ids' = Ids
    BY <1>1 DEF ShapeKept, Ids, Size
  <1>4. OneCycle'
    BY <1>2, <1>3, CycleKept
  <1>5. Contents' = Append(Contents, pval)
    BY <1>1, <1>2, <1>4, BlockAppended DEF Order, Holding
  <1>6. \A b \in Ids : /\ Empty(b)' <=> Empty(b)
                       /\ Full(b)' <=> Full(b)
                       /\ FrontElement(b)' = FrontElement(b)
    BY <1>1 DEF Empty, Full, After, Size, FrontElement
  <1>7. Filled'
    <2>1. tailBlock # frontBlock => Full(tailBlock)
      BY <1>1 DEF Order, Filled, FullAtTail
    <2>2. ASSUME NEW b \in Ids' \ {frontBlock', tailBlock'} PROVE Empty(b)' \/ Full(b)'
      <3>1. b \in Ids /\ b # frontBlock /\ b # NextTailBlock
        BY <1>1, <1>3
      <3>2. b # tailBlock => Empty(b) \/ Full(b)
        BY <3>1 DEF Order, Filled
      <3> QED
        BY <1>6, <2>1, <3>1, <3>2
    <2> QED
      BY <1>1, <2>2 DEF Filled, FullAtTail
  <1>8. Answering'
    BY <1>1, <1>2 DEF Answering
  <1>9. Holding'
    BY <1>1, <1>2, <1>6 DEF Order, Holding, consumerVars
  <1>10. Sized'
    BY <1>1, <1>3, SizedKept DEF Order
  <1>11. Refused'
    BY <1>1 DEF Refused
  <1> QED
    BY <1>4, <1>5, <1>7, <1>8, <1>9, <1>10, <1>11 DEF Order

\* A block put in after one of the cycle leaves a cycle.
LEMMA CycleGrows ==
  ASSUME NEW I, NEW nx, Cycle(I, nx), NEW t \in I, NEW c, c \notin I, NEW my,
         my \in [I \cup {c} -> I \cup {c}],
         my[t] = c, my[c] = nx[t], \A b \in I \ {t} : my[b] = nx[b]
  PROVE  Cycle(I \cup {c}, my)
  <1> SUFFICES ASSUME NEW S \in SUBSET (I \cup {c}), S # {}, \A b \in S : my[b] \in S
               PROVE  S = I \cup {c}
    BY DEF Cycle
  <1> DEFINE T == S \ {c}
  <1>0. nx \in [I -> I]
    BY DEF Cycle
  <1>1. T # {}
    <2>1. c \in S => nx[t] \in S /\ nx[t] # c
      BY <1>0
    <2> QED
      BY <2>1
  <1>2. \A b \in T : nx[b] \in T
    <2>1. ASSUME NEW b \in T PROVE nx[b] \in T
      <3>1. b \in I /\ nx[b] \in I
        BY <1>0
      <3>2. CASE b = t
        BY <3>1, <3>2
      <3>3. CASE b # t
        BY <3>1, <3>3
      <3> QED
        BY <3>2, <3>3
    <2> QED
      BY <2>1
  <1>3. T = I
    <2>1. T \in SUBSET I
      OBVIOUS
    <2> HIDE DEF T
    <2> QED
      BY <1>1, <1>2, <2>1 DEF Cycle
  <1>4. c \in S
    BY <1>3
  <1> QED
    BY <1>3, <1>4

LEMMA LinkNewBlockOrders ==
  ASSUME Inv, Inv', Order, LinkNewBlock
  PROVE  Order' /\ Contents' = Contents
  <1>1. /\ UNCHANGED <<made, frontBlock, tailBlock, consumerVars, pval>>
        /\ ppc = "link" /\ ppc' = "advanceTail" /\ largestBlockSize' = NewBlockSize
    BY DEF LinkNewBlock, ProducerGoto
  <1>2. /\ Types /\ OneCycle /\ frontBlock \in Ids /\ tailBlock \in Ids /\ NextTailBlock \in Ids
        /\ pval \in Elem /\ NewBlockSize \in Nat \ {0, 1}
    BY <1>1, BlockFacts, NextBlocks, NewSizeType DEF Inv, Order, Types, TypeOK, Elem
  <1>0. PICK L \in Nat : L = Len(blocks)
    BY <1>2, BlockFacts
  <1>00. PICK c \in Nat : c = L + 1
    BY <1>0
  <1>3. /\ Len(blocks') = L + 1 /\ Ids' = Ids \cup {c} /\ c \notin Ids
        /\ FrontKept /\ TailKept /\ DataKept
        /\ \A b \in Ids : /\ Size(b)' = Size(b)
                          /\ blocks'[b].next = IF b = tailBlock THEN c ELSE blocks[b].next
        /\ blocks'[c].front = 0 /\ blocks'[c].tail = 1 /\ blocks'[c].next = NextTailBlock
        /\ blocks'[c].data[0] = pval /\ Size(c)' = NewBlockSize
    <2>1. c = Len(blocks) + 1 /\ c \notin Ids
      BY <1>0, <1>00 DEF Ids
    <2>2. Size(c)' = Cardinality(DOMAIN blocks'[c].data)
      BY DEF Size
    <2> QED
      BY <1>0, <1>2, <2>1, <2>2, BlockLinked
  <1>4. OneCycle' /\ NextTailBlock' = c
    <2>1. /\ Nexts' \in [Ids \cup {c} -> Ids \cup {c}]
          /\ Nexts'[tailBlock] = c /\ Nexts'[c] = Nexts[tailBlock]
          /\ \A b \in Ids \ {tailBlock} : Nexts'[b] = Nexts[b]
      BY <1>2, <1>3, BlockFacts DEF Nexts, NextTailBlock
    <2>2. Cycle(Ids \cup {c}, Nexts')
      BY <1>2, <1>3, <2>1, CycleGrows DEF OneCycle
    <2>3. Cycle(Ids', Nexts')
      BY <1>3, <2>2
    <2> QED
      BY <1>1, <1>2, <1>3, <2>3 DEF OneCycle, NextTailBlock
  <1>5. \A b \in Ids : Elements(b)' = Elements(b)
    BY <1>3 DEF Elements, FrontKept, TailKept, DataKept
  <1>6. Contents' = Contents
    BY <1>1, <1>2, <1>3, <1>4, <1>5, ContentsKept
  <1>7. \A b \in Ids : /\ Empty(b)' <=> Empty(b)
                       /\ Full(b)' <=> Full(b)
                       /\ FrontElement(b)' = FrontElement(b)
    BY <1>3 DEF FrontKept, TailKept, DataKept, Empty, Full, After, FrontElement
  <1>8. Elements(c)' = <<pval>>
    <2> DEFINE n == Size(c)'
               d == blocks'[c].data
    <2>0. /\ IsRing(d, n, 0, 0, Elem) /\ Round(n, 0) = 1 /\ d[0] = pval
          /\ n \in Nat \ {0, 1}
      <3>1. Types' /\ c \in Ids'
        BY <1>3 DEF Inv
      <3>2. BlockTypeOK(c)'
        BY <1>3, <3>1 DEF Types, TypeOK, Ids
      <3>3. d \in [0 .. n - 1 -> Values \cup {Nil}] /\ n \in Nat \ {0, 1} /\ d[0] = pval
        BY <1>2, <1>3, <3>2 DEF BlockTypeOK
      <3> HIDE DEF n, d
      <3> QED
        BY <3>3 DEF IsRing, Round, Elem
    <2>1. Elements(c)' = Ring(d, n, 0, 1)
      BY <1>3 DEF Elements, Ring
    <2> HIDE DEF n, d
    <2>2. Ring(d, n, 0, Round(n, 0)) = <<d[0]>>
      BY <2>0, FirstElement
    <2> QED
      BY <2>0, <2>1, <2>2
  <1>9. Filled'
    <2>1. ASSUME NEW b \in Ids' \ {frontBlock', tailBlock'}
          PROVE  Empty(b)' \/ Full(b)' \/ b = c
      BY <1>1, <1>3, <1>7 DEF Order, Filled
    <2>2. tailBlock # frontBlock => Full(tailBlock)'
      BY <1>1, <1>2, <1>7 DEF Order, Filled, FullAtTail
    <2> QED
      BY <1>1, <1>4, <2>1, <2>2 DEF Filled
  <1>10. Answering'
    BY <1>1, <1>2, <1>7 DEF Order, Answering, consumerVars
  <1>11. Holding'
    <2>1. Elements(NextTailBlock)' = <<pval>>
      BY <1>4, <1>8
    <2> QED
      BY <1>1, <1>2, <1>7, <2>1 DEF Order, Holding, consumerVars
  <1>12. Sized'
    <2> DEFINE z == InitialBlockSize(maxSize)
               y == InitialBlockCount(maxSize)
    <2>1. z' = z /\ y' = y
      BY <1>1 DEF maxSize, InitialBlockSize, InitialBlockCount, OneBlock, MAX_BLOCK_SIZE
    <2>2. z \in Nat /\ y \in Nat
      BY InitialTypes DEF Inv, Types, TypeOK
    <2>3. (\A b \in Ids : Size(b) >= z) /\ largestBlockSize >= z /\ L >= y
      BY <1>0 DEF Order, Sized
    <2>4. NewBlockSize >= z /\ L + 1 >= y
      BY <2>2, <2>3 DEF NewBlockSize, Inv, Types
    <2>5. \A b \in Ids' : Size(b)' >= z
      BY <1>3, <2>3, <2>4
    <2> HIDE DEF z, y
    <2>6. Len(blocks') >= y /\ largestBlockSize' >= z
      BY <1>1, <1>3, <2>4
    <2> QED
      BY <2>1, <2>5, <2>6 DEF Sized, z, y
  <1>13. Refused'
    BY <1>1 DEF Refused
  <1> QED
    BY <1>4, <1>6, <1>9, <1>10, <1>11, <1>12, <1>13 DEF Order

-----------------------------------------------------------------------------
(* Steps of the consumer that free a slot or leave a block.                *)

LEMMA AdvanceFrontOrders ==
  ASSUME Inv, Inv', Order, AdvanceFront
  PROVE  Order' /\ Contents' = Contents
  <1>1. /\ UNCHANGED <<blocks, made, tailBlock, largestBlockSize, producerVars>>
        /\ cpc = "advanceFront" /\ cpc' = "take" /\ frontBlock' = NextFrontBlock
    BY DEF AdvanceFront, ConsumerGoto
  <1>2. /\ Types /\ OneCycle /\ frontBlock \in Ids /\ tailBlock \in Ids /\ NextFrontBlock \in Ids
        /\ frontBlock # tailBlock /\ Empty(frontBlock) /\ NextTailBlock # NextFrontBlock
        /\ NextTailBlock \in Ids
    BY <1>1, BlockFacts, NextBlocks DEF Inv, Order, Consuming
  <1>3. ShapeKept /\ Ids' = Ids
    BY <1>1 DEF ShapeKept, Ids, Size
  <1>4. OneCycle'
    BY <1>2, <1>3, CycleKept
  <1>5. Contents' = Contents
    BY <1>1, <1>2, <1>4, FrontAdvanced
  <1>6. /\ NextTailBlock' = NextTailBlock
        /\ \A b \in Ids : /\ Empty(b)' <=> Empty(b)
                          /\ Full(b)' <=> Full(b)
                          /\ Elements(b)' = Elements(b)
    BY <1>1 DEF Empty, Full, After, Size, NextTailBlock, Elements
  <1>7. Filled'
    BY <1>1, <1>2, <1>3, <1>6 DEF Order, Filled, producerVars
  <1>8. Answering'
    BY <1>1 DEF Answering
  <1>9. Holding'
    BY <1>1, <1>2, <1>6 DEF Order, Holding, producerVars
  <1>10. Sized'
    BY <1>1, <1>3, SizedKept DEF Order
  <1>11. Refused'
    BY <1>1, <1>2, <1>5, <1>6 DEF Order, Refused, producerVars, maxSize
  <1> QED
    BY <1>4, <1>5, <1>7, <1>8, <1>9, <1>10, <1>11 DEF Order

LEMMA PopElementOrders ==
  ASSUME Inv, Inv', Order, PopElement
  PROVE  /\ Order' /\ Contents # <<>> /\ cval = Head(Contents)
         /\ Contents' = Tail(Contents)
  <1>1. /\ UNCHANGED <<made, frontBlock, tailBlock, largestBlockSize, producerVars>>
        /\ cpc = "pop" /\ cpc' = "idle" /\ cop' = "none"
        /\ blocks' = [blocks EXCEPT
                        ![frontBlock].front = After(frontBlock, blocks[frontBlock].front),
                        ![frontBlock].data[blocks[frontBlock].front] = Nil]
    BY DEF PopElement, Return
  <1>2. /\ Types /\ OneCycle /\ frontBlock \in Ids /\ tailBlock \in Ids /\ NextTailBlock \in Ids
        /\ ~Empty(frontBlock)
        /\ ppc \in {"publishNext", "advanceTail"} => NextTailBlock # frontBlock
    BY <1>1, BlockFacts, NextBlocks, KnownIsThere DEF Inv, Order, Consuming
  <1>3. /\ ShapeKept /\ TailKept
        /\ \A b \in Ids :
              /\ blocks'[b].front =
                   IF b = frontBlock THEN After(frontBlock, blocks[frontBlock].front)
                   ELSE blocks[b].front
              /\ blocks'[b].data =
                   IF b = frontBlock
                   THEN [blocks[frontBlock].data EXCEPT ![blocks[frontBlock].front] = Nil]
                   ELSE blocks[b].data
    BY <1>1, <1>2, ElementPopped
  <1>4. Ids' = Ids /\ \A b \in Ids : blocks'[b].next = blocks[b].next /\ Size(b)' = Size(b)
    BY <1>3 DEF ShapeKept
  <1>5. OneCycle' /\ NextTailBlock' = NextTailBlock
    BY <1>1, <1>2, <1>3, <1>4, CycleKept DEF NextTailBlock
  <1>6. \A b \in Ids \ {frontBlock} : Elements(b)' = Elements(b)
    BY <1>3, ElementsKept DEF TailKept
  <1>7. Elements(frontBlock)' = Tail(Elements(frontBlock))
    <2>0. PICK c \in Ids : c = frontBlock
      BY <1>2
    <2> DEFINE n == Size(c)
               f == blocks[c].front
               t == blocks[c].tail
               d == blocks[c].data
    <2>1. /\ IsRing(d, n, f, t, Elem) /\ f # t /\ Round(n, f) = After(c, f) /\ Nil \in Elem
          /\ Elements(c) = Ring(d, n, f, t)
      BY <1>2, <2>0, ElementsIs, AfterRound DEF Empty, Elem
    <2>2. Elements(c)' = Ring(blocks'[c].data, Size(c)', blocks'[c].front, blocks'[c].tail)
      BY DEF Elements, Ring
    <2>3. /\ Size(c)' = n /\ blocks'[c].data = [d EXCEPT ![f] = Nil]
          /\ blocks'[c].front = Round(n, f) /\ blocks'[c].tail = t
      BY <1>3, <1>4, <2>0, <2>1 DEF TailKept
    <2> HIDE DEF n, f, t, d
    <2>4. PICK e \in [0 .. n - 1 -> Elem] : e = [d EXCEPT ![f] = Nil]
      BY <2>1 DEF IsRing
    <2>6. e \in [0 .. n - 1 -> Elem] /\ \A i \in 0 .. n - 1 : i # f => e[i] = d[i]
      BY <2>1, <2>4 DEF IsRing
    <2>7. Ring(e, n, Round(n, f), t) = Tail(Ring(d, n, f, t))
      <3>1. Freed(d, n, f, t, Elem, e)
        BY <2>1, <2>6 DEF Freed
      <3> QED
        BY <3>1, RingPopped
    <2>5. Elements(c)' = Tail(Elements(c))
      BY <2>1, <2>2, <2>3, <2>4, <2>7
    <2> QED
      BY <1>1, <2>0, <2>5
  <1>8. Contents' = Tail(Contents)
    BY <1>1, <1>2, <1>3, <1>5, <1>6, <1>7, HeadPopped
  <1>9. Contents # <<>> /\ cval = Head(Contents)
    BY <1>1, <1>2, HeadIs DEF Order, Holding
  <1>10. \A b \in Ids \ {frontBlock} : /\ Empty(b)' <=> Empty(b)
                                       /\ Full(b)' <=> Full(b)
    BY <1>3, <1>4 DEF TailKept, Empty, Full, After
  <1>11. Filled'
    BY <1>1, <1>2, <1>4, <1>5, <1>10 DEF Order, Filled, producerVars
  <1>12. Answering'
    BY <1>1 DEF Answering
  <1>13. Holding'
    <2>1. ppc = "publish" => blocks'[tailBlock].data[blocks'[tailBlock].tail] = pval
      <3> SUFFICES ASSUME ppc = "publish"
                   PROVE  blocks'[tailBlock].data[blocks'[tailBlock].tail] = pval
        OBVIOUS
      <3>1. blocks[tailBlock].data[blocks[tailBlock].tail] = pval
        BY DEF Order, Holding
      <3>2. CASE tailBlock # frontBlock
        BY <1>2, <1>3, <3>1, <3>2 DEF TailKept
      <3>3. CASE tailBlock = frontBlock
        <4>1. /\ blocks[tailBlock].front # blocks[tailBlock].tail
              /\ blocks[tailBlock].data \in [0 .. Size(tailBlock) - 1 -> Elem]
              /\ blocks[tailBlock].front \in 0 .. Size(tailBlock) - 1
              /\ blocks[tailBlock].tail \in 0 .. Size(tailBlock) - 1
          BY <1>2, <3>3, BlockFacts DEF Elem, Empty
        <4>2. /\ blocks'[tailBlock].tail = blocks[tailBlock].tail
              /\ blocks'[tailBlock].data
                   = [blocks[tailBlock].data EXCEPT ![blocks[tailBlock].front] = Nil]
          BY <1>2, <1>3, <3>3 DEF TailKept
        <4> QED
          BY <3>1, <4>1, <4>2
      <3> QED
        BY <3>2, <3>3
    <2>2. ppc = "publishNext" => blocks'[NextTailBlock].data[blocks'[NextTailBlock].tail] = pval
      BY <1>2, <1>3 DEF Order, Holding, TailKept
    <2>3. ppc = "advanceTail" => Elements(NextTailBlock)' = <<pval>>
      <3>1. ppc = "advanceTail" => Elements(NextTailBlock) = <<pval>> /\ NextTailBlock # frontBlock
        BY <1>2 DEF Order, Holding
      <3>2. PICK c \in Ids : c = NextTailBlock
        BY <1>2
      <3>3. ppc = "advanceTail" => Elements(c)' = <<pval>>
        BY <1>6, <3>1, <3>2
      <3> QED
        BY <1>5, <3>2, <3>3
    <2> QED
      BY <1>1, <1>5, <2>1, <2>2, <2>3 DEF Holding, producerVars
  <1>14. Sized'
    BY <1>1, <1>3, SizedKept DEF Order
  <1>15. Refused'
    <2>1. Contents \in Seq(Elem) /\ maxSize \in Nat
      BY <1>2, QueueIs, SpscAssumption DEF Types, TypeOK, maxSize
    <2>2. Len(Contents) < maxSize => Len(Contents') < maxSize
      <3>1. Len(Contents) \in Nat /\ Len(Contents') = Len(Contents) - 1
        BY <1>8, <1>9, <2>1, HeadTailProperties
      <3> HIDE DEF Contents
      <3> QED
        BY <2>1, <3>1
    <2> QED
      BY <1>1, <1>5, <2>2 DEF Order, Refused, producerVars, maxSize
  <1> QED
    BY <1>5, <1>8, <1>9, <1>11, <1>12, <1>13, <1>14, <1>15 DEF Order

-----------------------------------------------------------------------------
(* How much is in the queue when no room is found.                         *)

\* Each of D has m elements or more.
AtLeast(I, nx, t, V, e, D, m) ==
  /\ IsFiniteSet(I) /\ Cycle(I, nx) /\ t \in I /\ e \in [I -> Seq(V)]
  /\ D \in SUBSET I /\ m \in Nat /\ \A b \in D : Len(e[b]) >= m

\* Going round from the block after t to t, all of D is met.
LEMMA LongPath ==
  ASSUME NEW I, NEW nx, NEW t, NEW V, NEW e, NEW D, NEW m, AtLeast(I, nx, t, V, e, D, m)
  PROVE  Len(Path(I, nx, t, e)[nx[t]]) >= Cardinality(D) * m
  <1>0. /\ IsFiniteSet(I) /\ Cycle(I, nx) /\ t \in I /\ e \in [I -> Seq(V)]
        /\ D \in SUBSET I /\ m \in Nat /\ \A b \in D : Len(e[b]) >= m
    BY DEF AtLeast
  <1> DEFINE f == Path(I, nx, t, e)
             Met(b, C) == /\ b \in C /\ t \in C /\ (\A c \in C \ {t} : nx[c] \in C)
                          /\ Len(f[b]) >= Cardinality(C \cap D) * m
             P == {b \in I : \E C \in SUBSET I : Met(b, C)}
  <1>1. /\ f[t] = e[t]
        /\ \A b \in I : b # t => f[b] = e[b] \o f[nx[b]]
        /\ f \in [I -> Seq(V)] /\ nx \in [I -> I]
    <2>1. IsPath(f, I, nx, t, e) /\ f \in [I -> Seq(V)]
      BY <1>0, PathIs, PathTyped
    <2> HIDE DEF f
    <2> QED
      BY <1>0, <2>1 DEF IsPath, Cycle
  <1> HIDE DEF f
  <1>2. \A b \in I : Len(f[b]) \in Nat /\ Len(e[b]) \in Nat
    BY <1>0, <1>1
  <1>3. ASSUME NEW C \in SUBSET I PROVE IsFiniteSet(C \cap D) /\ Cardinality(C \cap D) \in Nat
    BY <1>0, FS_Subset, FS_CardinalityType
  <1>4. t \in P
    <2>1. Len(f[t]) >= Cardinality({t} \cap D) * m
      <3>1. CASE t \in D
        <4>1. {t} \cap D = {t}
          BY <3>1
        <4>2. Cardinality({t}) = 1
          BY FS_Singleton
        <4> QED
          BY <1>0, <1>1, <3>1, <4>1, <4>2, OneMore
      <3>2. CASE t \notin D
        <4>1. {t} \cap D = {}
          BY <3>2
        <4>2. Cardinality({t} \cap D) * m = 0
          BY <1>0, <4>1, FS_EmptySet, OneMore
        <4> QED
          BY <1>0, <1>2, <4>2
      <3> QED
        BY <3>1, <3>2
    <2>2. {t} \in SUBSET I /\ Met(t, {t})
      BY <1>0, <2>1
    <2> QED
      BY <1>0, <2>2
  <1>5. ASSUME NEW b \in I, b # t, nx[b] \in P PROVE b \in P
    <2>1. PICK C \in SUBSET I : Met(nx[b], C)
      BY <1>5
    <2>2. PICK C2 \in SUBSET I : C2 = C \cup {b}
      BY <2>1
    <2>3. b \in C2 /\ t \in C2 /\ \A c \in C2 \ {t} : nx[c] \in C2
      BY <2>1, <2>2
    <2>4. Len(f[b]) = Len(e[b]) + Len(f[nx[b]])
      <3>1. f[b] = e[b] \o f[nx[b]] /\ e[b] \in Seq(V) /\ f[nx[b]] \in Seq(V)
        BY <1>0, <1>1, <1>5
      <3> QED
        BY <3>1, ConcatProperties
    <2>5. PICK k \in Nat : k = Cardinality(C \cap D)
      BY <1>3
    <2>6. Len(f[b]) >= Cardinality(C2 \cap D) * m
      <3>1. /\ Len(f[b]) \in Nat /\ Len(e[b]) \in Nat /\ Len(f[nx[b]]) \in Nat
            /\ Len(f[nx[b]]) >= k * m /\ k * m \in Nat /\ (k + 1) * m = k * m + m
        BY <1>0, <1>1, <1>2, <2>1, <2>5, OneMore
      <3>2. CASE b \in D
        <4>1. C2 \cap D = (C \cap D) \cup {b}
          BY <2>2, <3>2
        <4>2. Cardinality(C2 \cap D) = IF b \in C \cap D THEN k ELSE k + 1
          BY <1>3, <2>5, <4>1, FS_AddElement
        <4>3. Len(e[b]) >= m
          BY <1>0, <3>2
        <4>4. Len(f[b]) >= (k + 1) * m /\ Len(f[b]) >= k * m
          BY <1>0, <2>4, <3>1, <4>3
        <4> QED
          BY <4>2, <4>4
      <3>3. CASE b \notin D
        <4>1. C2 \cap D = C \cap D
          BY <2>2, <3>3
        <4>2. Len(f[b]) >= k * m
          <5>1. PICK q \in Nat : q = k * m
            BY <3>1
          <5>2. Len(f[nx[b]]) >= q
            BY <3>1, <5>1
          <5>3. PICK u \in Nat, v \in Nat : u = Len(e[b]) /\ v = Len(f[nx[b]])
            BY <3>1
          <5>4. Len(f[b]) = u + v /\ v >= q
            BY <2>4, <5>2, <5>3
          <5>5. u + v >= q
            BY <5>4
          <5> QED
            BY <5>1, <5>4, <5>5
        <4> QED
          BY <2>5, <4>1, <4>2
      <3> QED
        BY <3>2, <3>3
    <2>7. Met(b, C2)
      BY <2>3, <2>6
    <2> QED
      BY <2>7
  <1>6. I \subseteq P
    <2> HIDE DEF P
    <2> QED
      BY <1>0, <1>4, <1>5, PathInduction
  <1>7. PICK C \in SUBSET I : Met(nx[t], C)
    <2>1. nx[t] \in P
      BY <1>0, <1>1, <1>6
    <2> QED
      BY <2>1
  <1>8. C = I
    <2>1. C # {} /\ \A c \in C : nx[c] \in C
      BY <1>7
    <2> QED
      BY <1>0, <2>1 DEF Cycle
  <1>9. C \cap D = D
    BY <1>0, <1>8
  <1> QED
    BY <1>7, <1>9 DEF f

\* The first blocks have room for maxSize elements, and one to spare if there
\* is more than one.
LEMMA InitialRoom ==
  ASSUME made \in Constructions
  PROVE  LET n == maxSize
             m == InitialBlockSize(n) - 1
             k == InitialBlockCount(n)
         IN  /\ n \in Nat /\ m \in Nat /\ k \in Nat \ {0}
             /\ k = 1 => m >= n
             /\ k > 1 => (k - 1) * m >= n
  <1> DEFINE n == maxSize
             z == InitialBlockSize(n)
             k == InitialBlockCount(n)
             w == MAX_BLOCK_SIZE
  <1>1. /\ n \in Nat \ {0} /\ w \in Nat \ {0, 1} /\ z \in Nat \ {0, 1} /\ k \in Nat \ {0}
        /\ CeilToPow2(n + 1) \in Nat /\ CeilToPow2(n + 1) >= n + 1
    BY InitialTypes, CeilIs, SpscAssumption DEF maxSize, MAX_BLOCK_SIZE
  <1>2. CASE OneBlock(n)
    <2>1. z = CeilToPow2(n + 1) /\ k = 1
      BY <1>2 DEF InitialBlockSize, InitialBlockCount
    <2> HIDE DEF n, z, k
    <2>2. z - 1 >= n
      BY <1>1, <2>1
    <2> QED
      BY <1>1, <2>1, <2>2 DEF n, z, k
  <1>3. CASE ~OneBlock(n)
    <2>1. z = w /\ k = (n + w * 2 - 3) \div (w - 1)
      BY <1>3 DEF InitialBlockSize, InitialBlockCount
    <2> HIDE DEF n, z, k, w
    <2>2. PICK a \in Nat, d \in Nat \ {0} : a = n + w * 2 - 3 /\ d = w - 1
      BY <1>1
    <2>3. d * k <= a /\ a < d * k + d
      BY <2>1, <2>2, Division
    <2>4. k * d = (k - 1) * d + d /\ d * k = k * d /\ (k - 1) * d \in Int
      BY <1>1
    <2>5. (k - 1) * d >= n
      BY <1>1, <2>2, <2>3, <2>4
    <2>6. k # 1
      <3>1. k = 1 => (k - 1) * d = 0
        OBVIOUS
      <3> QED
        BY <1>1, <2>5, <3>1
    <2>7. z - 1 = d
      BY <2>1, <2>2
    <2> QED
      BY <1>1, <2>5, <2>6, <2>7 DEF n, z, k
  <1> QED
    BY <1>2, <1>3

\* The producer finds the blocks full: the queue holds what it was made for.
LEMMA FullRound ==
  ASSUME Inv, OneCycle, Filled, Sized, ppc # "advanceTail",
         Full(tailBlock), NextTailBlock = frontBlock
  PROVE  Len(Contents) >= maxSize
  <1>1. /\ Types /\ frontBlock \in Ids /\ tailBlock \in Ids /\ Nexts[tailBlock] = frontBlock
        /\ IsFiniteSet(Ids) /\ Cardinality(Ids) = Len(blocks) /\ Len(blocks) \in Nat
        /\ Nexts \in [Ids -> Ids]
    BY BlockFacts, IdsFinite DEF Inv, Nexts, NextTailBlock
  <1> DEFINE n == maxSize
             m == InitialBlockSize(n) - 1
             k == InitialBlockCount(n)
  <1>2. /\ n \in Nat /\ m \in Nat /\ k \in Nat \ {0}
        /\ k = 1 => m >= n
        /\ k > 1 => (k - 1) * m >= n
    BY <1>1, InitialRoom DEF Types, TypeOK
  <1>3. Len(blocks) >= k /\ \A b \in Ids : Size(b) - 1 >= m /\ Size(b) \in Nat
    <2>1. Len(blocks) >= k /\ \A b \in Ids : Size(b) >= InitialBlockSize(n) /\ Size(b) \in Nat
      BY <1>1, BlockFacts DEF Sized
    <2>2. InitialBlockSize(n) \in Nat
      BY <1>1, InitialTypes DEF Types, TypeOK
    <2> HIDE DEF k
    <2> QED
      BY <2>1, <2>2
  <1> HIDE DEF n, m, k
  <1>4. \A b \in Ids : Full(b) => Len(Elements(b)) >= m
    <2>1. \A b \in Ids : Full(b) => Len(Elements(b)) = Size(b) - 1
      BY <1>1, FullElements
    <2> QED
      BY <1>3, <2>1
  <1>5. ASSUME NEW D \in SUBSET Ids, \A b \in D : Full(b)
        PROVE  Len(Contents) >= Cardinality(D) * m
    <2>1. Contents = Queue[frontBlock] /\ Elems \in [Ids -> Seq(Elem)]
      BY <1>1, QueueIs
    <2>2. AtLeast(Ids, Nexts, tailBlock, Elem, Elems, D, m)
      BY <1>1, <1>2, <1>4, <1>5, <2>1 DEF AtLeast, OneCycle, Elems
    <2>3. Len(Path(Ids, Nexts, tailBlock, Elems)[Nexts[tailBlock]]) >= Cardinality(D) * m
      BY <2>2, LongPath
    <2> QED
      BY <1>1, <2>1, <2>3 DEF Queue
  <1>6. Len(Contents) \in Nat
    BY <1>1, QueueIs, LenProperties
  <1>7. CASE frontBlock = tailBlock
    <2>1. Ids = {tailBlock}
      <3>1. {tailBlock} # {} /\ \A b \in {tailBlock} : Nexts[b] \in {tailBlock}
        BY <1>1, <1>7
      <3> QED
        BY <1>1, <3>1 DEF OneCycle, Cycle
    <2>2. Cardinality(Ids) = 1
      BY <2>1, FS_Singleton
    <2>3. Len(Contents) >= 1 * m
      BY <1>5, <2>1, <2>2
    <2>4. k = 1
      BY <1>1, <1>2, <1>3, <2>2
    <2>5. Len(Contents) >= m
      BY <1>2, <2>3, OneMore
    <2> QED
      BY <1>2, <1>6, <2>4, <2>5 DEF n
  <1>8. CASE frontBlock # tailBlock
    <2>1. \A b \in Ids : b # frontBlock => ~Empty(b)
      <3>1. PICK U \in SUBSET Ids : Chain(U)
        BY DEF Inv, Chained
      <3>2. U # {} /\ \A b \in U : Nexts[b] \in U
        BY <1>1, <3>1, UsedBlocks
      <3>3. U = Ids
        BY <3>2 DEF OneCycle, Cycle
      <3> QED
        BY <3>1, <3>3 DEF Chain
    <2>2. PICK D \in SUBSET Ids : D = Ids \ {frontBlock}
      OBVIOUS
    <2>3. \A b \in D : Full(b)
      BY <2>1, <2>2 DEF Filled
    <2>4. PICK c \in Nat : c = Cardinality(D) /\ c = Len(blocks) - 1
      <3>1. Cardinality(D) = Len(blocks) - 1
        <4>1. Cardinality(Ids \ {frontBlock}) = Cardinality(Ids) - 1
          BY <1>1, FS_RemoveElement
        <4> QED
          BY <1>1, <2>2, <4>1
      <3>2. Cardinality(D) \in Nat
        BY <1>1, FS_Subset, FS_CardinalityType
      <3> QED
        BY <3>1, <3>2
    <2>5. Len(Contents) >= c * m
      BY <1>5, <2>3, <2>4
    <2>6. c * m >= n
      <3>1. CASE k = 1
        <4>1. c >= 1
          <5>1. D # {}
            BY <1>1, <1>8, <2>2
          <5>2. c # 0
            BY <1>1, <2>4, <5>1, FS_EmptySet, FS_Subset
          <5> QED
            BY <5>2
        <4>2. 1 * m <= c * m /\ 1 * m = m /\ c * m \in Nat
          BY <1>2, <4>1, MulMonotone, OneMore
        <4> QED
          BY <1>2, <3>1, <4>2
      <3>2. CASE k > 1
        <4>1. k - 1 \in Int /\ k - 1 <= c
          BY <1>1, <1>2, <1>3, <2>4
        <4>2. (k - 1) * m <= c * m /\ c * m \in Int /\ (k - 1) * m \in Int
          BY <1>2, <4>1, MulMonotone
        <4> QED
          BY <1>2, <3>2, <4>2
      <3> QED
        BY <1>2, <3>1, <3>2
    <2>7. c * m \in Nat
      BY <1>2, OneMore
    <2> QED
      BY <1>2, <1>6, <2>5, <2>6, <2>7 DEF n
  <1> QED
    BY <1>7, <1>8

LEMMA ReadFrontOrders ==
  ASSUME Inv, Inv', Order, ReadFront
  PROVE  Order' /\ Contents' = Contents
  <1>1. /\ UNCHANGED <<made, frontBlock, tailBlock, largestBlockSize, consumerVars, fullAtCall>>
        /\ ppc = "readFront" /\ ppc' \in {"write", "tailFull"}
        /\ ppc' = "tailFull" => ~HasRoom(blocks[tailBlock].front)
        /\ blocks' = [blocks EXCEPT ![tailBlock].localFront = blocks[tailBlock].front]
    BY DEF ReadFront, ProducerGoto
  <1>2. Quiet
    <2>1. tailBlock \in Ids
      BY BlockFacts DEF Inv
    <2> QED
      BY <1>1, <2>1, LocalFrontSet DEF Inv, Quiet
  <1>3. ppc' = "tailFull" => Full(tailBlock)
    BY <1>1 DEF HasRoom, Full
  <1>4. Refused'
    <2>1. NextTailBlock' = NextTailBlock
      BY <1>2, QuietKeeps DEF Order
    <2>2. ASSUME ppc' = "tailFull", NextTailBlock = frontBlock PROVE fullAtCall
      <3>1. Len(Contents) >= maxSize
        BY <1>1, <1>3, <2>2, FullRound DEF Order
      <3>2. Len(Contents) \in Nat /\ maxSize \in Nat
        BY QueueIs, LenProperties, SpscAssumption DEF Order, Inv, Types, TypeOK, maxSize
      <3>3. ~(Len(Contents) < maxSize)
        <4> HIDE DEF Contents, maxSize
        <4> QED
          BY <3>1, <3>2
      <3> QED
        BY <1>1, <3>3 DEF Order, Refused
    <2> QED
      BY <1>1, <2>1, <2>2 DEF Refused
  <1> QED
    BY <1>1, <1>2, <1>3, <1>4, QuietProducer DEF FullAtTail

-----------------------------------------------------------------------------
(* The constructor.                                                        *)

-----------------------------------------------------------------------------
(* The queue as the constructor makes it.                                  *)

\* The blocks the constructor links in a ring are one cycle.
LEMMA RingCycle ==
  ASSUME NEW n \in Nat \ {0}, NEW nx, nx = [b \in 1 .. n |-> (b % n) + 1]
  PROVE  Cycle(1 .. n, nx)
  <1>1. \A b \in 1 .. n : nx[b] = IF b = n THEN 1 ELSE b + 1
    BY NextInRing
  <1>2. nx \in [1 .. n -> 1 .. n]
    BY <1>1
  <1>3. ASSUME NEW S \in SUBSET (1 .. n), S # {}, \A b \in S : nx[b] \in S
        PROVE  S = 1 .. n
    <2>1. PICK x \in S : x \in 1 .. n
      BY <1>3
    <2>2. n \in S
      <3> DEFINE N == {i \in Nat : x + i <= n => x + i \in S}
      <3>1. 0 \in N
        BY <2>1
      <3>2. ASSUME NEW i \in Nat, i \in N PROVE i + 1 \in N
        <4> SUFFICES ASSUME x + (i + 1) <= n PROVE x + (i + 1) \in S
          OBVIOUS
        <4>1. x + i \in S /\ x + i # n /\ x + i \in 1 .. n
          BY <2>1, <3>2
        <4>2. nx[x + i] = (x + i) + 1
          BY <1>1, <4>1
        <4>3. (x + i) + 1 = x + (i + 1)
          BY <2>1
        <4> QED
          BY <1>3, <4>1, <4>2, <4>3
      <3>3. Nat \subseteq N
        <4> HIDE DEF N
        <4> QED
          BY <3>1, <3>2, Induction
      <3>4. PICK i \in Nat : i = n - x /\ x + i = n
        BY <2>1
      <3>5. i \in N
        BY <3>3
      <3>6. x + i <= n
        BY <3>4
      <3> QED
        BY <3>4, <3>5, <3>6
    <2>3. 1 \in S
      BY <1>1, <1>3, <2>2
    <2>4. \A b \in 1 .. n : b \in S
      <3> DEFINE N == {i \in Nat : i + 1 <= n => i + 1 \in S}
      <3>1. 0 \in N
        BY <2>3
      <3>2. ASSUME NEW i \in Nat, i \in N PROVE i + 1 \in N
        <4> SUFFICES ASSUME (i + 1) + 1 <= n PROVE (i + 1) + 1 \in S
          OBVIOUS
        <4>1. i + 1 \in S /\ i + 1 # n /\ i + 1 \in 1 .. n
          BY <3>2
        <4>2. nx[i + 1] = (i + 1) + 1
          BY <1>1, <4>1
        <4> QED
          BY <1>3, <4>1, <4>2
      <3>3. Nat \subseteq N
        <4> HIDE DEF N
        <4> QED
          BY <3>1, <3>2, Induction
      <3>4. ASSUME NEW b \in 1 .. n PROVE b \in S
        <4>1. b - 1 \in Nat /\ (b - 1) + 1 = b /\ b <= n
          OBVIOUS
        <4> QED
          BY <3>3, <4>1
      <3> QED
        BY <3>4
    <2> QED
      BY <2>4
  <1> QED
    BY <1>2, <1>3 DEF Cycle

\* The constructor makes an empty queue in which every part holds.
LEMMA OrderInit ==
  ASSUME Init
  PROVE  Order /\ Contents = <<>>
  <1>1. /\ Inv
        /\ \A b \in Ids : blocks[b].front = 0 /\ blocks[b].tail = 0
        /\ \E n \in Nat \ {0} : /\ Ids = 1 .. n
                                /\ \A b \in Ids : blocks[b].next = (b % n) + 1
        /\ Len(blocks) = InitialBlockCount(maxSize)
        /\ \A b \in Ids : Size(b) = InitialBlockSize(maxSize)
        /\ largestBlockSize = InitialBlockSize(maxSize)
    BY InvInit, TypesInit
  <1>2. /\ ppc = "idle" /\ cpc = "idle" /\ cop = "none" /\ frontBlock = 1 /\ tailBlock = 1
        /\ made \in Constructions
    BY DEF Init
  <1>3. frontBlock \in Ids /\ tailBlock \in Ids
    BY <1>1, BlockFacts DEF Inv
  <1>4. OneCycle
    <2>1. PICK n \in Nat \ {0} : Ids = 1 .. n /\ \A b \in Ids : blocks[b].next = (b % n) + 1
      BY <1>1
    <2>2. Nexts = [b \in 1 .. n |-> (b % n) + 1]
      BY <2>1 DEF Nexts
    <2> QED
      BY <2>1, <2>2, RingCycle DEF OneCycle
  <1>5. Empty(frontBlock) /\ frontBlock = tailBlock /\ \A b \in Ids : Empty(b)
    BY <1>1, <1>2, <1>3 DEF Empty
  <1>6. Contents = <<>>
    BY <1>1, <1>4, <1>5, HeadIs
  <1>7. Holding /\ Answering /\ Filled /\ Refused
    BY <1>2, <1>5 DEF Holding, Answering, Filled, Refused, FullAtTail
  <1>8. Sized
    <2> DEFINE z == InitialBlockSize(maxSize)
               k == InitialBlockCount(maxSize)
    <2>1. z \in Nat /\ k \in Nat
      BY <1>2, InitialTypes
    <2>2. (\A b \in Ids : Size(b) = z) /\ largestBlockSize = z /\ Len(blocks) = k
      BY <1>1
    <2> HIDE DEF z, k
    <2>3. (\A b \in Ids : Size(b) >= z) /\ largestBlockSize >= z /\ Len(blocks) >= k
      BY <2>1, <2>2
    <2> QED
      BY <2>3 DEF Sized, z, k
  <1> QED
    BY <1>4, <1>6, <1>7, <1>8 DEF Order

-----------------------------------------------------------------------------
(* Each step is one of the FIFO queue's, or none.                          *)

Stutter == UNCHANGED fifo!fifoVars

LEMMA ProducerStutters ==
  ASSUME UNCHANGED <<made, pval, fullAtCall, consumerVars>>, Contents' = Contents,
         ppc # "idle", ppc' # "idle"
  PROVE  Stutter
  BY DEF Stutter, fifo!fifoVars, consumerVars, maxSize

LEMMA ConsumerStutters ==
  ASSUME UNCHANGED <<made, producerVars, cop, emptyAtCall, last, got>>, Contents' = Contents
  PROVE  Stutter
  BY DEF Stutter, fifo!fifoVars, producerVars, maxSize

\* The steps of the FIFO queue that calls and answers are.
LEMMA EnqueueBegins ==
  ASSUME Types, NEW mode \in {"CanAlloc", "CannotAlloc"}, EnqueueCall(mode), Contents' = Contents
  PROVE  fifo!EnqueueCall
  <1>1. /\ UNCHANGED <<made, consumerVars>> /\ ppc = "idle" /\ ppc' # "idle"
        /\ pval' = calls + 1 /\ calls < MaxEnqueues
        /\ fullAtCall' = (Len(Contents) >= maxSize)
    BY DEF EnqueueCall
  <1>2. pval' \in Values
    BY <1>1, SpscAssumption DEF Types, TypeOK, Values
  <1> QED
    BY <1>1, <1>2 DEF fifo!EnqueueCall, consumerVars, maxSize

LEMMA EnqueueEnds ==
  ASSUME UNCHANGED <<made, consumerVars>>, ppc # "idle",
         ppc' = "idle", pval' = Nil, fullAtCall' = FALSE,
         \/ Contents' = Append(Contents, pval)
         \/ fullAtCall = TRUE /\ Contents' = Contents
  PROVE  fifo!EnqueueReturn
  BY DEF fifo!EnqueueReturn, consumerVars, maxSize

LEMMA ConsumerBegins ==
  ASSUME Types, Holding, NEW op \in {"peek", "dequeue"}, ConsumerCall(op), Contents' = Contents
  PROVE  fifo!ConsumerCall
  <1>1. /\ UNCHANGED <<made, producerVars, last, got>> /\ cop = "none"
        /\ cop' = op /\ emptyAtCall' = (Contents = <<>>)
    BY DEF ConsumerCall, Holding
  <1> DEFINE c == [op |-> cop, empty |-> emptyAtCall, last |-> last, got |-> got]
             x == (Contents = <<>>)
             d == [op |-> op, empty |-> x, last |-> last, got |-> got]
  <1>2. c \in fifo!Consumers /\ c.op = cop /\ c.last = last /\ c.got = got
    BY DEF fifo!Consumers, Types, TypeOK
  <1>3. x \in BOOLEAN
    OBVIOUS
  <1>4. c' = d
    BY <1>1
  <1>5. [c EXCEPT !.op = op, !.empty = x] = d
    <2> DEFINE r == [c EXCEPT !.op = op, !.empty = x]
    <2> HIDE DEF c, x
    <2>1. /\ r \in fifo!Consumers
          /\ r.op = op /\ r.empty = x /\ r.last = c.last /\ r.got = c.got
      BY <1>2, <1>3 DEF fifo!Consumers
    <2> HIDE DEF r
    <2>2. r = [op |-> op, empty |-> x, last |-> c.last, got |-> c.got]
      BY <2>1 DEF fifo!Consumers
    <2>3. r = d
      BY <1>2, <2>2
    <2> QED
      BY <2>3 DEF r
  <1>6. c' = [c EXCEPT !.op = op, !.empty = x]
    BY <1>4, <1>5
  <1>7. UNCHANGED <<maxSize, [busy |-> ppc # "idle", val |-> pval, full |-> fullAtCall]>>
    BY <1>1 DEF producerVars, maxSize
  <1> QED
    BY <1>1, <1>6, <1>7 DEF fifo!ConsumerCall

LEMMA ConsumerEnds ==
  ASSUME UNCHANGED <<made, producerVars>>, NEW v, Return(v), cop # "none",
         \/ v = Nil /\ emptyAtCall = TRUE /\ Contents' = Contents
         \/ Contents # <<>> /\ v = Head(Contents) /\ cop = "peek" /\ Contents' = Contents
         \/ Contents # <<>> /\ v = Head(Contents) /\ cop = "dequeue" /\ Contents' = Tail(Contents)
  PROVE  fifo!FindNothing \/ fifo!Peek \/ fifo!Dequeue
  <1>1. /\ cop' = "none" /\ emptyAtCall' = FALSE /\ last' = cop /\ got' = v
    BY DEF Return
  <1>2. fifo!Answer(v)
    BY <1>1 DEF fifo!Answer
  <1>3. UNCHANGED <<maxSize, [busy |-> ppc # "idle", val |-> pval, full |-> fullAtCall]>>
    BY DEF producerVars, maxSize
  <1> QED
    BY <1>2, <1>3 DEF fifo!FindNothing, fifo!Peek, fifo!Dequeue

\* A step of the producer is an enqueue called or returning, or none.
LEMMA ProducerSimulates ==
  ASSUME Inv, Inv', Order, Producer
  PROVE  Order' /\ (fifo!EnqueueCall \/ fifo!EnqueueReturn \/ Stutter)
  <1>0. fullAtCall \in BOOLEAN
    BY DEF Inv, Types, TypeOK
  <1>1. ASSUME NEW mode \in {"CanAlloc", "CannotAlloc"}, EnqueueCall(mode)
        PROVE  Order' /\ fifo!EnqueueCall
    BY <1>1, EnqueueCallOrders, EnqueueBegins DEF Inv
  <1>2. CASE ReadFront
    <2>1. UNCHANGED <<made, pval, fullAtCall, consumerVars>> /\ ppc # "idle" /\ ppc' # "idle"
      BY <1>2 DEF ReadFront, ProducerGoto
    <2> QED
      BY <1>2, <2>1, ReadFrontOrders, ProducerStutters
  <1>3. CASE WriteElement
    <2>1. UNCHANGED <<made, pval, fullAtCall, consumerVars>> /\ ppc # "idle" /\ ppc' # "idle"
      BY <1>3 DEF WriteElement, ProducerGoto
    <2> QED
      BY <1>3, <2>1, WriteElementOrders, ProducerStutters
  <1>4. CASE PublishTail
    <2>1. /\ UNCHANGED <<made, consumerVars>> /\ ppc # "idle"
          /\ ppc' = "idle" /\ pval' = Nil /\ fullAtCall' = FALSE
      BY <1>4 DEF PublishTail, EnqueueDone
    <2> QED
      BY <1>4, <2>1, PublishTailOrders, EnqueueEnds
  <1>5. CASE TailFull
    <2>1. Order' /\ Contents' = Contents
      BY <1>5, TailFullOrders
    <2>2. /\ UNCHANGED <<made, consumerVars>> /\ ppc = "tailFull"
          /\ \/ UNCHANGED <<pval, fullAtCall>> /\ ppc' # "idle"
             \/ /\ NextTailBlock = frontBlock
                /\ ppc' = "idle" /\ pval' = Nil /\ fullAtCall' = FALSE
      BY <1>5 DEF TailFull, ProducerGoto, EnqueueDone
    <2>3. CASE UNCHANGED <<pval, fullAtCall>> /\ ppc' # "idle"
      BY <2>1, <2>2, <2>3, ProducerStutters
    <2>4. CASE /\ NextTailBlock = frontBlock
               /\ ppc' = "idle" /\ pval' = Nil /\ fullAtCall' = FALSE
      <3>1. fullAtCall = TRUE
        BY <1>0, <2>2, <2>4 DEF Order, Refused
      <3> QED
        BY <2>1, <2>2, <2>4, <3>1, EnqueueEnds
    <2> QED
      BY <2>2, <2>3, <2>4
  <1>6. CASE ReadNextFront
    <2>1. UNCHANGED <<made, pval, fullAtCall, consumerVars>> /\ ppc # "idle" /\ ppc' # "idle"
      BY <1>6 DEF ReadNextFront, ProducerGoto
    <2> QED
      BY <1>6, <2>1, ReadNextFrontOrders, ProducerStutters
  <1>7. CASE WriteNext
    <2>1. UNCHANGED <<made, pval, fullAtCall, consumerVars>> /\ ppc # "idle" /\ ppc' # "idle"
      BY <1>7 DEF WriteNext, ProducerGoto
    <2> QED
      BY <1>7, <2>1, WriteNextOrders, ProducerStutters
  <1>8. CASE PublishNext
    <2>1. UNCHANGED <<made, pval, fullAtCall, consumerVars>> /\ ppc # "idle" /\ ppc' # "idle"
      BY <1>8 DEF PublishNext, ProducerGoto
    <2> QED
      BY <1>8, <2>1, PublishNextOrders, ProducerStutters
  <1>9. CASE LinkNewBlock
    <2>1. UNCHANGED <<made, pval, fullAtCall, consumerVars>> /\ ppc # "idle" /\ ppc' # "idle"
      BY <1>9 DEF LinkNewBlock, ProducerGoto
    <2> QED
      BY <1>9, <2>1, LinkNewBlockOrders, ProducerStutters
  <1>10. CASE AdvanceTail
    <2>1. /\ UNCHANGED <<made, consumerVars>> /\ ppc # "idle"
          /\ ppc' = "idle" /\ pval' = Nil /\ fullAtCall' = FALSE
      BY <1>10 DEF AdvanceTail, EnqueueDone
    <2> QED
      BY <1>10, <2>1, AdvanceTailOrders, EnqueueEnds
  <1> QED
    BY <1>1, <1>2, <1>3, <1>4, <1>5, <1>6, <1>7, <1>8, <1>9, <1>10 DEF Producer

\* A step of the consumer is a call, an answer, or none.
Answered == fifo!FindNothing \/ fifo!Peek \/ fifo!Dequeue

\* A step of the consumer is a call, or an answer, or none.
LEMMA ConsumerSimulates ==
  ASSUME Inv, Inv', Order, Asked, Consumer
  PROVE  Order' /\ (fifo!ConsumerCall \/ Answered \/ Stutter)
  <1>0. emptyAtCall \in BOOLEAN /\ frontBlock \in Ids
    BY BlockFacts DEF Inv, Types, TypeOK
  <1>1. ASSUME NEW op \in {"peek", "dequeue"}, ConsumerCall(op)
        PROVE  Order' /\ fifo!ConsumerCall
    BY <1>1, ConsumerCallOrders, ConsumerBegins DEF Inv, Order
  <1>2. CASE ReadTail
    <2>1. RefreshTail("readTailBlock") /\ cpc = "readTail"
      BY <1>2 DEF ReadTail
    <2>2. Order' /\ Contents' = Contents
      BY <2>1, RefreshTailOrders
    <2>3. UNCHANGED <<made, producerVars, cop, emptyAtCall, last, got>>
      BY <2>1 DEF RefreshTail, ConsumerGoto
    <2> QED
      BY <2>2, <2>3, ConsumerStutters
  <1>3. CASE RecheckTail
    <2>1. RefreshTail("readNextTail")
      BY <1>3 DEF RecheckTail
    <2>2. Order' /\ Contents' = Contents
      BY <2>1, RefreshTailOrders
    <2>3. UNCHANGED <<made, producerVars, cop, emptyAtCall, last, got>>
      BY <2>1 DEF RefreshTail, ConsumerGoto
    <2> QED
      BY <2>2, <2>3, ConsumerStutters
  <1>4. CASE ReadTailBlock
    <2>1. Order' /\ Contents' = Contents
      BY <1>4, ReadTailBlockOrders
    <2>2. CASE frontBlock = tailBlock
      <3>1. /\ UNCHANGED <<made, producerVars>> /\ Return(Nil)
            /\ cop # "none" /\ emptyAtCall = TRUE
        BY <1>0, <1>4, <2>2 DEF ReadTailBlock, Asked, Order, Answering
      <3> QED
        BY <2>1, <3>1, ConsumerEnds DEF Answered
    <2>3. CASE frontBlock # tailBlock
      <3>1. UNCHANGED <<made, producerVars, cop, emptyAtCall, last, got>>
        BY <1>4, <2>3 DEF ReadTailBlock, ConsumerGoto
      <3> QED
        BY <2>1, <3>1, ConsumerStutters
    <2> QED
      BY <2>2, <2>3
  <1>5. CASE ReadNextTail
    <2>1. Order' /\ Contents' = Contents
      BY <1>5, ReadNextTailOrders
    <2>2. UNCHANGED <<made, producerVars, cop, emptyAtCall, last, got>>
      BY <1>5 DEF ReadNextTail, ConsumerGoto
    <2> QED
      BY <2>1, <2>2, ConsumerStutters
  <1>6. CASE AdvanceFront
    <2>1. Order' /\ Contents' = Contents
      BY <1>6, AdvanceFrontOrders
    <2>2. UNCHANGED <<made, producerVars, cop, emptyAtCall, last, got>>
      BY <1>6 DEF AdvanceFront, ConsumerGoto
    <2> QED
      BY <2>1, <2>2, ConsumerStutters
  <1>7. CASE PeekNext
    <2>1. Order' /\ Contents' = Contents
      BY <1>7, TakeOrders
    <2>2. /\ UNCHANGED <<made, producerVars>> /\ Return(FrontElement(NextFrontBlock))
          /\ cop = "peek" /\ cpc = "peekNext"
      BY <1>7 DEF PeekNext, Asked
    <2>3. Contents # <<>> /\ Head(Contents) = FrontElement(NextFrontBlock)
      BY <2>2, HeadIs DEF Inv, Order, Consuming
    <2> QED
      BY <2>1, <2>2, <2>3, ConsumerEnds DEF Answered
  <1>8. CASE TakeElement
    <2>1. Order' /\ Contents' = Contents
      BY <1>8, TakeOrders
    <2>2. CASE cop = "peek"
      <3>1. UNCHANGED <<made, producerVars>> /\ Return(FrontElement(frontBlock)) /\ cpc = "take"
        BY <1>8, <2>2 DEF TakeElement
      <3>2. Contents # <<>> /\ Head(Contents) = FrontElement(frontBlock)
        BY <1>0, <3>1, KnownIsThere, HeadIs DEF Inv, Order, Consuming
      <3> QED
        BY <2>1, <2>2, <3>1, <3>2, ConsumerEnds DEF Answered
    <2>3. CASE cop # "peek"
      <3>1. UNCHANGED <<made, producerVars, cop, emptyAtCall, last, got>>
        BY <1>8, <2>3 DEF TakeElement
      <3> QED
        BY <2>1, <3>1, ConsumerStutters
    <2> QED
      BY <2>2, <2>3
  <1>9. CASE PopElement
    <2>1. /\ Order' /\ Contents # <<>> /\ cval = Head(Contents)
          /\ Contents' = Tail(Contents)
      BY <1>9, PopElementOrders
    <2>2. UNCHANGED <<made, producerVars>> /\ Return(cval) /\ cop = "dequeue"
      BY <1>9 DEF PopElement, Asked
    <2> QED
      BY <2>1, <2>2, ConsumerEnds DEF Answered
  <1> QED
    BY <1>1, <1>2, <1>3, <1>4, <1>5, <1>6, <1>7, <1>8, <1>9 DEF Consumer

\* Every step keeps the parts of the invariant, and is one of the FIFO queue's
\* or leaves it alone.
LEMMA OrderStep ==
  ASSUME Inv, Inv', Order, Asked, [Next]_vars
  PROVE  Order' /\ [fifo!Next]_(fifo!fifoVars)
  <1>1. CASE Producer
    BY <1>1, ProducerSimulates DEF fifo!Next, Stutter
  <1>2. CASE Consumer
    BY <1>2, ConsumerSimulates DEF fifo!Next, Stutter, Answered
  <1>3. CASE UNCHANGED vars
    <2>1. UNCHANGED <<made, blocks, frontBlock, tailBlock, largestBlockSize>>
          /\ UNCHANGED producerVars /\ UNCHANGED consumerVars
      BY <1>3 DEF vars
    <2>2. Quiet
      BY <2>1, BlocksSame
    <2>3. /\ Contents' = Contents /\ NextTailBlock' = NextTailBlock
          /\ frontBlock \in Ids /\ tailBlock \in Ids /\ NextTailBlock \in Ids
          /\ \A b \in Ids : /\ Elements(b)' = Elements(b) /\ FrontElement(b)' = FrontElement(b)
                            /\ Empty(b)' <=> Empty(b)
      BY <2>2, QuietKeeps DEF Order
    <2>4. Holding' /\ Answering'
      BY <2>1, <2>3 DEF Order, Holding, Answering, producerVars, consumerVars
    <2>5. Order'
      BY <2>1, <2>2, <2>4, QuietConsumer
    <2>6. Stutter
      BY <2>1, <2>3 DEF Stutter, fifo!fifoVars, maxSize, producerVars, consumerVars
    <2> QED
      BY <2>5, <2>6 DEF Stutter
  <1> QED
    BY <1>1, <1>2, <1>3 DEF Next

\* The parts of the invariant hold in every reachable state.
LEMMA OrderInvariance == Spec => [](Inv /\ Asked /\ Order)
  <1>1. Init => Order
    BY OrderInit
  <1>2. Order /\ (Inv /\ Asked) /\ (Inv /\ Asked)' /\ [Next]_vars => Order'
    BY OrderStep
  <1> QED
    BY <1>1, <1>2, Invariance, PTL DEF Spec

\* The queue of blocks (inner_enqueue, try_dequeue and peek of
\* readerwriterqueue.h) implements the FIFO queue: whatever the sizes, however
\* the two threads interleave, no element is lost, duplicated or overtaken, an
\* empty answer is true at the call and a refusal too.
THEOREM QueueIsFifo == Spec => ImplementsFifo
  <1>1. Init => fifo!Init
    <2> SUFFICES ASSUME Init PROVE fifo!Init
      OBVIOUS
    <2>1. /\ Contents = <<>>
          /\ made \in Constructions
          /\ ppc = "idle" /\ pval = Nil /\ cop = "none"
          /\ fullAtCall = FALSE /\ emptyAtCall = FALSE /\ last = "none" /\ got = Nil
      BY OrderInit DEF Init
    <2>2. maxSize \in Nat \ {0}
      BY <2>1, SpscAssumption DEF maxSize
    <2> QED
      BY <2>1, <2>2 DEF fifo!Init
  <1>2. /\ Inv /\ Asked /\ Order /\ (Inv /\ Asked /\ Order)' /\ [Next]_vars
        => [fifo!Next]_(fifo!fifoVars)
    BY OrderStep
  <1> QED
    BY <1>1, <1>2, OrderInvariance, PTL DEF Spec, ImplementsFifo, fifo!FifoSpec

\* The promise of the constructor (readerwriterqueue.h, lines 76-79): no block is
\* allocated for an enqueue that began when the queue held fewer elements than
\* it was made for.
THEOREM NoneAllocatedEarly == Spec => NoEarlyAllocation
  <1>1. Inv /\ Inv' /\ Order /\ [Next]_vars
          => [Len(blocks') > Len(blocks) => fullAtCall]_blocks
    <2> SUFFICES ASSUME Inv, Inv', Order, [Next]_vars
                 PROVE  fullAtCall \/ DOMAIN blocks' = DOMAIN blocks
      <3>1. /\ Len(blocks) \in Nat /\ DOMAIN blocks = 1 .. Len(blocks)
            /\ Len(blocks') \in Nat /\ DOMAIN blocks' = 1 .. Len(blocks')
        BY LenProperties DEF Inv, Types
      <3>2. \A m, n \in Nat : 1 .. m = 1 .. n => ~(m > n)
        OBVIOUS
      <3>3. DOMAIN blocks' = DOMAIN blocks => ~(Len(blocks') > Len(blocks))
        BY <3>1, <3>2
      <3> QED
        BY <3>3
    <2>1. CASE LinkNewBlock
      BY <2>1 DEF Order, Refused, LinkNewBlock
    <2>2. CASE \/ ReadFront \/ WriteElement \/ PublishTail
               \/ ReadNextFront \/ WriteNext \/ PublishNext
      BY <2>2, Zenon DEF ReadFront, WriteElement, PublishTail, ReadNextFront, WriteNext, PublishNext
    <2>3. CASE ReadTail \/ RecheckTail \/ ReadNextTail \/ PopElement
      BY <2>3, Zenon DEF ReadTail, RecheckTail, RefreshTail, ReadNextTail, PopElement
    <2>4. CASE UNCHANGED blocks
      BY <2>4
    <2>5. \/ LinkNewBlock \/ ReadFront \/ WriteElement \/ PublishTail
          \/ ReadNextFront \/ WriteNext \/ PublishNext
          \/ ReadTail \/ RecheckTail \/ ReadNextTail \/ PopElement \/ UNCHANGED blocks
      BY DEF Next, Producer, Consumer, vars, EnqueueCall, TailFull, AdvanceTail, ConsumerCall,
             ReadTailBlock, AdvanceFront, PeekNext, TakeElement
    <2> QED
      BY <2>1, <2>2, <2>3, <2>4, <2>5
  <1> QED
    BY <1>1, OrderInvariance, PTL DEF Spec, NoEarlyAllocation
=============================================================================
