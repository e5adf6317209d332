---------------------------- MODULE SerialProofs ----------------------------
(***************************************************************************)
(* The two parts of the serial exchange that are specified by a module     *)
(* without buffers: the ring buffer of CommandQueue behaves as the         *)
(* sequence of Deque, and the line reader keeps its buffer in bounds and   *)
(* delivers lines and prompts as ByteLines says, for every capacity, every *)
(* set of commands and every byte.                                         *)
(***************************************************************************)
EXTENDS CommandQueue, LineReader, SequenceTheorems, FiniteSetTheorems, TLAPS

-----------------------------------------------------------------------------
(* The command queue.                                                      *)

USE QueueAssumption

(* An index that is at most one turn too far wraps once. *)
LEMMA Wrap ==
  ASSUME NEW x \in 0 .. 2 * QUEUE_CAPACITY - 1
  PROVE  x % QUEUE_CAPACITY = IF x < QUEUE_CAPACITY THEN x ELSE x - QUEUE_CAPACITY
BY SMTT(30)

(* The slot that is i positions behind slot h. *)
LEMMA Position ==
  ASSUME NEW h \in Slots, NEW i \in 0 .. QUEUE_CAPACITY
  PROVE  /\ (h + i) % QUEUE_CAPACITY \in Slots
         /\ (h + i) % QUEUE_CAPACITY
              = IF h + i < QUEUE_CAPACITY THEN h + i ELSE h + i - QUEUE_CAPACITY
<1>1. h + i \in 0 .. 2 * QUEUE_CAPACITY - 1
  BY DEF Slots
<1>. QED
  BY <1>1, Wrap DEF Slots

LEMMA AtHead ==
  ASSUME NEW h \in Slots
  PROVE  (h + 0) % QUEUE_CAPACITY = h
<1>1. h + 0 = h /\ h \in 0 .. 2 * QUEUE_CAPACITY - 1 /\ h < QUEUE_CAPACITY
  BY DEF Slots
<1>. QED
  BY <1>1, Wrap

(* Two positions of the queue have two slots. *)
LEMMA Distinct ==
  ASSUME NEW h \in Slots, NEW i \in 0 .. QUEUE_CAPACITY - 1,
         NEW j \in 0 .. QUEUE_CAPACITY - 1, i # j
  PROVE  (h + i) % QUEUE_CAPACITY # (h + j) % QUEUE_CAPACITY
<1>1. /\ i \in 0 .. QUEUE_CAPACITY /\ j \in 0 .. QUEUE_CAPACITY
  OBVIOUS
<1>2. /\ (h + i) % QUEUE_CAPACITY
              = IF h + i < QUEUE_CAPACITY THEN h + i ELSE h + i - QUEUE_CAPACITY
      /\ (h + j) % QUEUE_CAPACITY
              = IF h + j < QUEUE_CAPACITY THEN h + j ELSE h + j - QUEUE_CAPACITY
  BY <1>1, Position
<1>. QED
  BY <1>2 DEF Slots

LEMMA PushBackType ==
  ASSUME QueueType, NEW c \in Command, PushBack(c)
  PROVE  QueueType'
<1>1. CASE QueueFull
  BY <1>1 DEF PushBack, QueueType, queueVars
<1>2. CASE ~QueueFull
  <2>1. (head + count) % QUEUE_CAPACITY \in Slots
    BY Position DEF QueueType
  <2>. QED
    BY <1>2, <2>1 DEF PushBack, QueueType, QueueFull
<1>. QED
  BY <1>1, <1>2

LEMMA PushFrontType ==
  ASSUME QueueType, NEW c \in Command, PushFront(c)
  PROVE  QueueType'
<1>1. CASE QueueFull
  BY <1>1 DEF PushFront, QueueType, queueVars
<1>2. CASE ~QueueFull
  <2>1. (head + QUEUE_CAPACITY - 1) % QUEUE_CAPACITY \in Slots
    <3>1. QUEUE_CAPACITY - 1 \in 0 .. QUEUE_CAPACITY
      OBVIOUS
    <3>2. head + QUEUE_CAPACITY - 1 = head + (QUEUE_CAPACITY - 1)
      BY DEF QueueType, Slots
    <3>. QED
      BY <3>1, <3>2, Position DEF QueueType
  <2>. QED
    BY <1>2, <2>1 DEF PushFront, QueueType, QueueFull
<1>. QED
  BY <1>1, <1>2

LEMMA PopFrontType ==
  ASSUME QueueType, PopFront
  PROVE  QueueType'
<1>1. CASE count = 0
  BY <1>1 DEF PopFront, QueueType, queueVars
<1>2. CASE count # 0
  <2>1. (head + 1) % QUEUE_CAPACITY \in Slots
    <3>1. 1 \in 0 .. QUEUE_CAPACITY
      OBVIOUS
    <3>. QED
      BY <3>1, Position DEF QueueType
  <2>. QED
    BY <1>2, <2>1 DEF PopFront, QueueType
<1>. QED
  BY <1>1, <1>2

(* The indices stay inside the array and the count inside its capacity. *)
LEMMA QueueTypeStep == QueueType /\ [QueueNext]_queueVars => QueueType'
<1>. SUFFICES ASSUME QueueType, [QueueNext]_queueVars
              PROVE  QueueType'
  OBVIOUS
<1>1. ASSUME NEW c \in Command, PushBack(c) PROVE QueueType'
  BY <1>1, PushBackType
<1>2. ASSUME NEW c \in Command, PushFront(c) PROVE QueueType'
  BY <1>2, PushFrontType
<1>3. CASE PopFront
  BY <1>3, PopFrontType
<1>4. CASE ClearQueue
  BY <1>4 DEF ClearQueue, QueueType, Slots
<1>5. CASE UNCHANGED queueVars
  BY <1>5 DEF QueueType, queueVars
<1>. QED
  BY <1>1, <1>2, <1>3, <1>4, <1>5 DEF QueueNext

-----------------------------------------------------------------------------
Item == Command \cup {NoCommand}

(* A ring of n slots is a sequence of n commands. *)
LEMMA RingType ==
  ASSUME NEW slots \in [Slots -> Item], NEW h \in Slots, NEW n \in 0 .. QUEUE_CAPACITY
  PROVE  /\ Ring(slots, h, n) \in Seq(Item)
         /\ Len(Ring(slots, h, n)) = n
         /\ \A i \in 1 .. n : Ring(slots, h, n)[i] = slots[(h + (i - 1)) % QUEUE_CAPACITY]
<1>1. ASSUME NEW i \in 1 .. n
      PROVE  /\ h + i - 1 = h + (i - 1)
             /\ slots[(h + i - 1) % QUEUE_CAPACITY] \in Item
  <2>1. i - 1 \in 0 .. QUEUE_CAPACITY /\ h + i - 1 = h + (i - 1)
    BY DEF Slots
  <2>2. (h + (i - 1)) % QUEUE_CAPACITY \in Slots
    BY <2>1, Position
  <2>. QED
    BY <2>1, <2>2
<1>. QED
  BY <1>1 DEF Ring

LEMMA ContentsType ==
  QueueType => /\ Contents \in Seq(Item)
               /\ Len(Contents) = count
               /\ \A i \in 1 .. count : Contents[i] = items[(head + (i - 1)) % QUEUE_CAPACITY]
BY RingType DEF Contents, QueueType, Item

(* Storing behind the last command appends. *)
LEMMA RingAppend ==
  ASSUME NEW slots \in [Slots -> Item], NEW h \in Slots,
         NEW n \in 0 .. QUEUE_CAPACITY - 1, NEW c \in Command
  PROVE  Ring([slots EXCEPT ![(h + n) % QUEUE_CAPACITY] = c], h, n + 1)
           = Append(Ring(slots, h, n), c)
<1>. DEFINE new  == [slots EXCEPT ![(h + n) % QUEUE_CAPACITY] = c]
            left == Ring(new, h, n + 1)
            old  == Ring(slots, h, n)
<1>1. n \in 0 .. QUEUE_CAPACITY /\ n + 1 \in 0 .. QUEUE_CAPACITY /\ c \in Item
  BY DEF Item
<1>2. (h + n) % QUEUE_CAPACITY \in Slots
  BY <1>1, Position
<1>3. new \in [Slots -> Item]
  BY <1>1, <1>2
<1>4. /\ left \in Seq(Item) /\ Len(left) = n + 1
      /\ \A i \in 1 .. n + 1 : left[i] = new[(h + (i - 1)) % QUEUE_CAPACITY]
  <2>. HIDE DEF new
  <2>. QED
    BY <1>1, <1>3, RingType
<1>5. /\ old \in Seq(Item) /\ Len(old) = n
      /\ \A i \in 1 .. n : old[i] = slots[(h + (i - 1)) % QUEUE_CAPACITY]
  BY <1>1, RingType
<1>6. /\ Append(old, c) \in Seq(Item) /\ Len(Append(old, c)) = n + 1
      /\ \A i \in 1 .. n : Append(old, c)[i] = old[i]
      /\ Append(old, c)[n + 1] = c
  <2>. HIDE DEF old
  <2>. QED
    BY <1>1, <1>5
<1>7. ASSUME NEW i \in 1 .. n + 1
      PROVE  left[i] = Append(old, c)[i]
  <2>1. CASE i = n + 1
    <3>1. new[(h + n) % QUEUE_CAPACITY] = c
      BY <1>2
    <3>2. left[i] = new[(h + n) % QUEUE_CAPACITY]
      <4>. HIDE DEF left, new
      <4>. QED
        BY <1>4, <2>1
    <3>. QED
      BY <3>1, <3>2, <1>6, <2>1
  <2>2. CASE i # n + 1
    <3>1. i \in 1 .. n /\ i - 1 \in 0 .. QUEUE_CAPACITY - 1 /\ i - 1 # n
          /\ i - 1 \in 0 .. QUEUE_CAPACITY
      BY <2>2
    <3>2. (h + (i - 1)) % QUEUE_CAPACITY # (h + n) % QUEUE_CAPACITY
      BY <3>1, Distinct
    <3>3. (h + (i - 1)) % QUEUE_CAPACITY \in Slots
      BY <3>1, Position
    <3>4. new[(h + (i - 1)) % QUEUE_CAPACITY] = slots[(h + (i - 1)) % QUEUE_CAPACITY]
      BY <3>2, <3>3
    <3>5. left[i] = new[(h + (i - 1)) % QUEUE_CAPACITY]
      <4>. HIDE DEF left, new
      <4>. QED
        BY <1>4
    <3>6. Append(old, c)[i] = slots[(h + (i - 1)) % QUEUE_CAPACITY]
      <4>. HIDE DEF old
      <4>. QED
        BY <1>5, <1>6, <3>1
    <3>. QED
      BY <3>4, <3>5, <3>6
  <2>. QED
    BY <2>1, <2>2
<1>. QED
  <2>. HIDE DEF left, old, new
  <2>1. left = Append(old, c)
    BY <1>1, <1>4, <1>6, <1>7, SeqEqual
  <2>. QED
    BY <2>1 DEF left, old, new

(* One slot further on is the next position. *)
LEMMA Shift ==
  ASSUME NEW h \in Slots, NEW k \in 0 .. QUEUE_CAPACITY - 1
  PROVE  /\ (h + 1) % QUEUE_CAPACITY \in Slots
         /\ (((h + 1) % QUEUE_CAPACITY) + k) % QUEUE_CAPACITY = (h + (k + 1)) % QUEUE_CAPACITY
<1>1. 1 \in 0 .. QUEUE_CAPACITY /\ k \in 0 .. QUEUE_CAPACITY /\ k + 1 \in 0 .. QUEUE_CAPACITY
  OBVIOUS
<1>. DEFINE g == (h + 1) % QUEUE_CAPACITY
<1>2. g \in Slots /\ g = IF h + 1 < QUEUE_CAPACITY THEN h + 1 ELSE h + 1 - QUEUE_CAPACITY
  BY <1>1, Position
<1>3. (h + (k + 1)) % QUEUE_CAPACITY
        = IF h + (k + 1) < QUEUE_CAPACITY THEN h + (k + 1) ELSE h + (k + 1) - QUEUE_CAPACITY
  BY <1>1, Position
<1>. HIDE DEF g
<1>4. (g + k) % QUEUE_CAPACITY
        = IF g + k < QUEUE_CAPACITY THEN g + k ELSE g + k - QUEUE_CAPACITY
  BY <1>1, <1>2, Position
<1>5. (g + k) % QUEUE_CAPACITY = (h + (k + 1)) % QUEUE_CAPACITY
  BY <1>2, <1>3, <1>4 DEF Slots
<1>. QED
  BY <1>2, <1>5 DEF g

(* One slot back, and forth again. *)
LEMMA Back ==
  ASSUME NEW h \in Slots
  PROVE  /\ (h + QUEUE_CAPACITY - 1) % QUEUE_CAPACITY \in Slots
         /\ (((h + QUEUE_CAPACITY - 1) % QUEUE_CAPACITY) + 1) % QUEUE_CAPACITY = h
<1>1. /\ QUEUE_CAPACITY - 1 \in 0 .. QUEUE_CAPACITY /\ 1 \in 0 .. QUEUE_CAPACITY
      /\ h + QUEUE_CAPACITY - 1 = h + (QUEUE_CAPACITY - 1)
  BY DEF Slots
<1>. DEFINE g == (h + (QUEUE_CAPACITY - 1)) % QUEUE_CAPACITY
<1>2. g \in Slots /\ g = IF h + (QUEUE_CAPACITY - 1) < QUEUE_CAPACITY
                         THEN h + (QUEUE_CAPACITY - 1)
                         ELSE h + (QUEUE_CAPACITY - 1) - QUEUE_CAPACITY
  BY <1>1, Position
<1>. HIDE DEF g
<1>3. (g + 1) % QUEUE_CAPACITY = IF g + 1 < QUEUE_CAPACITY THEN g + 1 ELSE g + 1 - QUEUE_CAPACITY
  BY <1>1, <1>2, Position
<1>4. (g + 1) % QUEUE_CAPACITY = h
  BY <1>2, <1>3 DEF Slots
<1>. QED
  BY <1>1, <1>2, <1>4 DEF g

(* Giving up the first slot drops the first command. *)
LEMMA RingTail ==
  ASSUME NEW slots \in [Slots -> Item], NEW h \in Slots, NEW n \in 1 .. QUEUE_CAPACITY
  PROVE  Ring(slots, (h + 1) % QUEUE_CAPACITY, n - 1) = Tail(Ring(slots, h, n))
<1>. DEFINE g    == (h + 1) % QUEUE_CAPACITY
            left == Ring(slots, g, n - 1)
            old  == Ring(slots, h, n)
<1>0. n - 1 \in 0 .. QUEUE_CAPACITY /\ n \in 0 .. QUEUE_CAPACITY /\ 0 \in 0 .. QUEUE_CAPACITY - 1
  OBVIOUS
<1>1. g \in Slots
  BY <1>0, Shift
<1>2. /\ left \in Seq(Item) /\ Len(left) = n - 1
      /\ \A i \in 1 .. n - 1 : left[i] = slots[(g + (i - 1)) % QUEUE_CAPACITY]
  <2>. HIDE DEF g
  <2>. QED
    BY <1>0, <1>1, RingType
<1>3. /\ old \in Seq(Item) /\ Len(old) = n
      /\ \A i \in 1 .. n : old[i] = slots[(h + (i - 1)) % QUEUE_CAPACITY]
  BY <1>0, RingType
<1>4. /\ Tail(old) \in Seq(Item) /\ Len(Tail(old)) = n - 1
      /\ \A i \in 1 .. n - 1 : Tail(old)[i] = old[i + 1]
  <2>. HIDE DEF old
  <2>1. old # <<>>
    BY <1>3
  <2>. QED
    BY <1>3, <2>1, HeadTailProperties
<1>5. ASSUME NEW i \in 1 .. n - 1
      PROVE  left[i] = Tail(old)[i]
  <2>1. i - 1 \in 0 .. QUEUE_CAPACITY - 1 /\ i + 1 \in 1 .. n /\ (i - 1) + 1 = (i + 1) - 1
    OBVIOUS
  <2>2. (g + (i - 1)) % QUEUE_CAPACITY = (h + ((i - 1) + 1)) % QUEUE_CAPACITY
    BY <2>1, Shift
  <2>3. left[i] = slots[(g + (i - 1)) % QUEUE_CAPACITY]
    <3>. HIDE DEF g, left
    <3>. QED
      BY <1>2
  <2>4. Tail(old)[i] = slots[(h + ((i + 1) - 1)) % QUEUE_CAPACITY]
    <3>. HIDE DEF old
    <3>. QED
      BY <1>3, <1>4, <2>1
  <2>. QED
    BY <2>1, <2>2, <2>3, <2>4
<1>. QED
  <2>. HIDE DEF left, old
  <2>1. left = Tail(old)
    BY <1>2, <1>4, <1>5, SeqEqual
  <2>. QED
    BY <2>1 DEF left, old

(* Storing one slot before the first command puts it in front. *)
LEMMA RingPrepend ==
  ASSUME NEW slots \in [Slots -> Item], NEW h \in Slots,
         NEW n \in 0 .. QUEUE_CAPACITY - 1, NEW c \in Command
  PROVE  LET g == (h + QUEUE_CAPACITY - 1) % QUEUE_CAPACITY
         IN  Ring([slots EXCEPT ![g] = c], g, n + 1) = <<c>> \o Ring(slots, h, n)
<1>. DEFINE g    == (h + QUEUE_CAPACITY - 1) % QUEUE_CAPACITY
            new  == [slots EXCEPT ![g] = c]
            left == Ring(new, g, n + 1)
            old  == Ring(slots, h, n)
<1>0. n \in 0 .. QUEUE_CAPACITY /\ n + 1 \in 0 .. QUEUE_CAPACITY /\ c \in Item
  BY DEF Item
<1>1. g \in Slots /\ (g + 1) % QUEUE_CAPACITY = h
  BY Back
<1>2. new \in [Slots -> Item] /\ new[g] = c /\ \A s \in Slots : s # g => new[s] = slots[s]
  <2>. HIDE DEF g
  <2>. QED
    BY <1>0, <1>1
<1>. HIDE DEF g, new
<1>3. /\ left \in Seq(Item) /\ Len(left) = n + 1
      /\ \A i \in 1 .. n + 1 : left[i] = new[(g + (i - 1)) % QUEUE_CAPACITY]
  BY <1>0, <1>1, <1>2, RingType
<1>4. /\ old \in Seq(Item) /\ Len(old) = n
      /\ \A i \in 1 .. n : old[i] = slots[(h + (i - 1)) % QUEUE_CAPACITY]
  BY <1>0, RingType
<1>. HIDE DEF left, old
<1>5. /\ <<c>> \o old \in Seq(Item) /\ Len(<<c>> \o old) = n + 1
      /\ (<<c>> \o old)[1] = c
      /\ \A i \in 2 .. n + 1 : (<<c>> \o old)[i] = old[i - 1]
  <2>1. <<c>> \in Seq(Item) /\ Len(<<c>>) = 1 /\ <<c>>[1] = c
    BY <1>0
  <2>2. /\ <<c>> \o old \in Seq(Item)
        /\ Len(<<c>> \o old) = 1 + n
        /\ \A i \in 1 .. 1 + n : (<<c>> \o old)[i] = IF i <= 1 THEN <<c>>[i] ELSE old[i - 1]
    BY <1>4, <2>1, ConcatProperties
  <2>. QED
    BY <2>1, <2>2
<1>6. ASSUME NEW i \in 1 .. n + 1
      PROVE  left[i] = (<<c>> \o old)[i]
  <2>1. CASE i = 1
    <3>1. g + (i - 1) = g + 0 /\ 0 \in 0 .. QUEUE_CAPACITY
      BY <2>1
    <3>2. (g + 0) % QUEUE_CAPACITY = g
      BY <1>1, AtHead
    <3>3. left[i] = new[(g + (i - 1)) % QUEUE_CAPACITY]
      BY <1>3
    <3>4. new[(g + (i - 1)) % QUEUE_CAPACITY] = new[g]
      BY <3>1, <3>2
    <3>. QED
      BY <1>2, <1>5, <2>1, <3>3, <3>4
  <2>2. CASE i # 1
    <3>1. i - 1 \in 1 .. n /\ i - 2 \in 0 .. QUEUE_CAPACITY - 1 /\ (i - 2) + 1 = i - 1
          /\ i \in 2 .. n + 1 /\ (i - 1) - 1 = i - 2
          /\ i - 1 \in 0 .. QUEUE_CAPACITY - 1 /\ i - 1 # 0 /\ 0 \in 0 .. QUEUE_CAPACITY - 1
          /\ i - 1 \in 0 .. QUEUE_CAPACITY /\ 0 \in 0 .. QUEUE_CAPACITY
      BY <2>2
    <3>2. (((g + 1) % QUEUE_CAPACITY) + (i - 2)) % QUEUE_CAPACITY
            = (g + ((i - 2) + 1)) % QUEUE_CAPACITY
      BY <1>1, <3>1, Shift
    <3>3. (g + (i - 1)) % QUEUE_CAPACITY = (h + (i - 2)) % QUEUE_CAPACITY
      BY <1>1, <3>1, <3>2
    <3>4. (g + (i - 1)) % QUEUE_CAPACITY # (g + 0) % QUEUE_CAPACITY
      BY <1>1, <3>1, Distinct
    <3>5. (g + 0) % QUEUE_CAPACITY = g
      BY <1>1, AtHead
    <3>6. (g + (i - 1)) % QUEUE_CAPACITY \in Slots
      BY <1>1, <3>1, Position
    <3>7. left[i] = slots[(g + (i - 1)) % QUEUE_CAPACITY]
      <4>1. left[i] = new[(g + (i - 1)) % QUEUE_CAPACITY]
        BY <1>3
      <4>2. (g + (i - 1)) % QUEUE_CAPACITY # g
        BY <3>4, <3>5
      <4>. QED
        BY <1>2, <3>6, <4>1, <4>2
    <3>8. (<<c>> \o old)[i] = slots[(h + (i - 2)) % QUEUE_CAPACITY]
      BY <1>4, <1>5, <3>1
    <3>. QED
      BY <3>3, <3>7, <3>8
  <2>. QED
    BY <2>1, <2>2
<1>7. left = <<c>> \o old
  BY <1>0, <1>3, <1>5, <1>6, SeqEqual
<1>. QED
  BY <1>7 DEF left, old, new, g

-----------------------------------------------------------------------------
LEMMA InitSequenced == QueueInit => Sequenced!Init
<1>. SUFFICES ASSUME QueueInit PROVE Contents = <<>>
  BY DEF Sequenced!Init
<1>1. QueueType
  BY DEF QueueInit, QueueType, Slots
<1>2. Contents \in Seq(Item) /\ Len(Contents) = 0
  BY <1>1, ContentsType DEF QueueInit
<1>. QED
  BY <1>2, EmptySeq

LEMMA PushBackSequenced ==
  ASSUME QueueType, NEW c \in Command, PushBack(c)
  PROVE  Sequenced!Append_(c)
<1>0. Len(Contents) = count /\ count \in 0 .. QUEUE_CAPACITY
  BY ContentsType DEF QueueType
<1>1. CASE QueueFull
  <2>1. ~(Len(Contents) < QUEUE_CAPACITY)
    BY <1>0, <1>1 DEF QueueFull
  <2>2. Contents' = Contents
    BY <1>1 DEF PushBack, Contents, queueVars
  <2>. QED
    BY <2>1, <2>2 DEF Sequenced!Append_
<1>2. CASE ~QueueFull
  <2>1. Len(Contents) < QUEUE_CAPACITY /\ count \in 0 .. QUEUE_CAPACITY - 1
    BY <1>0, <1>2 DEF QueueFull
  <2>2. items \in [Slots -> Item] /\ head \in Slots
    BY DEF QueueType, Item
  <2>3. Contents' = Ring([items EXCEPT ![(head + count) % QUEUE_CAPACITY] = c], head, count + 1)
    BY <1>2 DEF PushBack, Contents
  <2>4. Contents' = Append(Contents, c)
    BY <2>1, <2>2, <2>3, RingAppend DEF Contents
  <2>. QED
    BY <2>1, <2>4 DEF Sequenced!Append_
<1>. QED
  BY <1>1, <1>2

LEMMA PushFrontSequenced ==
  ASSUME QueueType, NEW c \in Command, PushFront(c)
  PROVE  Sequenced!Prepend(c)
<1>0. Len(Contents) = count /\ count \in 0 .. QUEUE_CAPACITY
  BY ContentsType DEF QueueType
<1>1. CASE QueueFull
  <2>1. ~(Len(Contents) < QUEUE_CAPACITY)
    BY <1>0, <1>1 DEF QueueFull
  <2>2. Contents' = Contents
    BY <1>1 DEF PushFront, Contents, queueVars
  <2>. QED
    BY <2>1, <2>2 DEF Sequenced!Prepend
<1>2. CASE ~QueueFull
  <2>1. Len(Contents) < QUEUE_CAPACITY /\ count \in 0 .. QUEUE_CAPACITY - 1
    BY <1>0, <1>2 DEF QueueFull
  <2>2. items \in [Slots -> Item] /\ head \in Slots
    BY DEF QueueType, Item
  <2>. DEFINE g == (head + QUEUE_CAPACITY - 1) % QUEUE_CAPACITY
  <2>3. Contents' = Ring([items EXCEPT ![g] = c], g, count + 1)
    BY <1>2 DEF PushFront, Contents
  <2>4. Contents' = <<c>> \o Contents
    BY <2>1, <2>2, <2>3, RingPrepend DEF Contents
  <2>. QED
    BY <2>1, <2>4 DEF Sequenced!Prepend
<1>. QED
  BY <1>1, <1>2

LEMMA PopFrontSequenced ==
  ASSUME QueueType, PopFront
  PROVE  Sequenced!Take
<1>0. Contents \in Seq(Item) /\ Len(Contents) = count /\ count \in 0 .. QUEUE_CAPACITY
  BY ContentsType DEF QueueType
<1>1. CASE count = 0
  <2>1. Contents = <<>>
    BY <1>0, <1>1, EmptySeq
  <2>2. Contents' = Contents
    BY <1>1 DEF PopFront, Contents, queueVars
  <2>. QED
    BY <2>1, <2>2 DEF Sequenced!Take
<1>2. CASE count # 0
  <2>1. Contents # <<>> /\ count \in 1 .. QUEUE_CAPACITY
    BY <1>0, <1>2
  <2>2. items \in [Slots -> Item] /\ head \in Slots
    BY DEF QueueType, Item
  <2>3. Contents' = Ring(items, (head + 1) % QUEUE_CAPACITY, count - 1)
    BY <1>2 DEF PopFront, Contents
  <2>4. Contents' = Tail(Contents)
    BY <2>1, <2>2, <2>3, RingTail DEF Contents
  <2>. QED
    BY <2>1, <2>4 DEF Sequenced!Take
<1>. QED
  BY <1>1, <1>2

LEMMA ClearSequenced ==
  ASSUME QueueType, ClearQueue
  PROVE  Sequenced!Empty
<1>1. items \in [Slots -> Item] /\ 0 \in Slots /\ 0 \in 0 .. QUEUE_CAPACITY
  BY DEF QueueType, Item, Slots
<1>2. Ring(items, 0, 0) \in Seq(Item) /\ Len(Ring(items, 0, 0)) = 0
  BY <1>1, RingType
<1>3. Ring(items, 0, 0) = <<>>
  BY <1>2, EmptySeq
<1>4. Contents' = Ring(items, 0, 0)
  BY DEF ClearQueue, Contents
<1>. QED
  BY <1>3, <1>4 DEF Sequenced!Empty

(* Every call on the ring is the same call on the sequence. *)
LEMMA NextSequenced == QueueType /\ [QueueNext]_queueVars => [Sequenced!Next]_Contents
<1>. SUFFICES ASSUME QueueType, [QueueNext]_queueVars
              PROVE  [Sequenced!Next]_Contents
  OBVIOUS
<1>1. ASSUME NEW c \in Command, PushBack(c) PROVE Sequenced!Next
  BY <1>1, PushBackSequenced DEF Sequenced!Next
<1>2. ASSUME NEW c \in Command, PushFront(c) PROVE Sequenced!Next
  BY <1>2, PushFrontSequenced DEF Sequenced!Next
<1>3. CASE PopFront
  BY <1>3, PopFrontSequenced DEF Sequenced!Next
<1>4. CASE ClearQueue
  BY <1>4, ClearSequenced DEF Sequenced!Next
<1>5. CASE UNCHANGED queueVars
  BY <1>5 DEF queueVars, Contents
<1>. QED
  BY <1>1, <1>2, <1>3, <1>4, <1>5 DEF QueueNext

(* The ring buffer of mmwave_command_queue.h hands its commands out as a   *)
(* bounded sequence does, whatever its capacity and however often the      *)
(* front and the back wrap around.                                         *)
THEOREM QueueImplementsSequence == QueueSpec => RingIsSequence
<1>1. QueueInit => QueueType
  BY DEF QueueInit, QueueType, Slots
<1>2. QueueType /\ [QueueNext]_queueVars => QueueType'
  BY QueueTypeStep
<1>3. QueueInit => Sequenced!Init
  BY InitSequenced
<1>4. QueueType /\ [QueueNext]_queueVars => [Sequenced!Next]_Contents
  BY NextSequenced
<1>. QED
  BY <1>1, <1>2, <1>3, <1>4, PTL DEF QueueSpec, RingIsSequence, Sequenced!Spec

HIDE QueueAssumption

-----------------------------------------------------------------------------
(* The line reader.                                                        *)

USE ReaderAssumption

Char == {Stored(b) : b \in Byte}

(* Trimming leaves a line that is not longer, nothing of an empty one. *)
LEMMA TrimmedType ==
  ASSUME NEW l \in Seq(Char)
  PROVE  /\ Lines!Trimmed(l) \in Seq(Char)
         /\ Len(Lines!Trimmed(l)) <= Len(l)
<1>. DEFINE kept == {n \in 1 .. Len(l) : \E k \in n .. Len(l) : l[k] # Lines!Blank}
            end  == Cardinality(kept)
<1>1. end \in 0 .. Len(l)
  <2>1. Len(l) \in Nat /\ kept \subseteq 1 .. Len(l)
    OBVIOUS
  <2>2. IsFiniteSet(1 .. Len(l)) /\ Cardinality(1 .. Len(l)) = Len(l)
    <3>1. 1 \in Int /\ Len(l) \in Int
      BY <2>1
    <3>2. /\ IsFiniteSet(1 .. Len(l))
          /\ Cardinality(1 .. Len(l)) = IF 1 > Len(l) THEN 0 ELSE Len(l) - 1 + 1
      BY <3>1, FS_Interval, Zenon
    <3>. QED
      BY <2>1, <3>2
  <2>. HIDE DEF kept
  <2>3. IsFiniteSet(kept) /\ Cardinality(kept) <= Len(l)
    BY <2>1, <2>2, FS_Subset
  <2>4. Cardinality(kept) \in Nat
    BY <2>3, FS_CardinalityType
  <2>. QED
    BY <2>1, <2>3, <2>4
<1>2. Lines!Trimmed(l) = SubSeq(l, 1, end)
  BY Zenon DEF Lines!Trimmed, Lines!Cardinality, Cardinality
<1>. HIDE DEF end
<1>3. \A i \in 1 .. end : l[i] \in Char
  BY <1>1
<1>4. 1 \in Int /\ end \in Int /\ Len(l) \in Nat
  BY <1>1
<1>5. SubSeq(l, 1, end) \in Seq(Char)
  BY <1>1
<1>6. Len(SubSeq(l, 1, end)) <= Len(l)
  BY <1>1
<1>. QED
  BY <1>2, <1>5, <1>6

(* A line with a byte more. *)
LEMMA Appended ==
  ASSUME NEW l \in Seq(Char), NEW b \in Char
  PROVE  /\ Append(l, b) \in Seq(Char)
         /\ Len(Append(l, b)) = Len(l) + 1
         /\ Append(l, b)[Len(l) + 1] = b
         /\ \A i \in 1 .. Len(l) : Append(l, b)[i] = l[i]
         /\ <<b>> \in Seq(Char) /\ Len(<<b>>) = 1 /\ <<b>>[1] = b
OBVIOUS

(* All the buffer can hold: nothing after a line, else what it held. *)
LEMMA OpenFits ==
  ASSUME ReaderType, BufferHoldsLine
  PROVE  /\ Open \in Seq(Char) /\ Len(Open) \in Nat /\ Len(Open) <= MaxLine
         /\ since \in Seq(Char) /\ Len(since) \in Nat
         /\ MaxLine \in Nat /\ MaxLine >= 1
         /\ ~discarding => since = Open
         /\ discarding => /\ Open = buf /\ Len(since) > MaxLine
                          /\ Len(buf) <= Len(since)
                          /\ \A i \in 1 .. Len(buf) :
                                buf[i] = since[Len(since) - Len(buf) + i]
  BY DEF ReaderType, BufferHoldsLine, Open, MaxLine, Char

(* The last bytes of a sequence, as a discarded line's buffer holds them. *)
Suffix(l, t) ==
  /\ Len(l) <= Len(t)
  /\ \A i \in 1 .. Len(l) : l[i] = t[Len(t) - Len(l) + i]

(* A byte more keeps the buffer the end of the text, and starts it anew. *)
LEMMA SuffixGrows ==
  ASSUME NEW l \in Seq(Char), NEW t \in Seq(Char), NEW b \in Char, Suffix(l, t)
  PROVE  Suffix(Append(l, b), Append(t, b)) /\ Suffix(<<b>>, Append(t, b))
<1>1. Suffix(<<b>>, Append(t, b))
  BY DEF Suffix
<1>2. ASSUME NEW i \in 1 .. Len(l) + 1
      PROVE  Append(l, b)[i] = Append(t, b)[Len(t) + 1 - (Len(l) + 1) + i]
  <2>1. CASE i = Len(l) + 1
    BY <2>1, Appended
  <2>2. CASE i # Len(l) + 1
    <3>1. i \in 1 .. Len(l) /\ Len(t) - Len(l) + i \in 1 .. Len(t)
      BY <2>2 DEF Suffix
    <3>. QED
      BY <3>1, Appended DEF Suffix
  <2>. QED
    BY <2>1, <2>2
<1>3. /\ Len(Append(l, b)) = Len(l) + 1 /\ Len(Append(t, b)) = Len(t) + 1
      /\ Len(l) + 1 <= Len(t) + 1
  BY Appended DEF Suffix
<1>. DEFINE al == Append(l, b)
            at == Append(t, b)
<1>4. \A i \in 1 .. Len(al) : al[i] = at[Len(at) - Len(al) + i]
  <2>. SUFFICES ASSUME NEW i \in 1 .. Len(al) PROVE al[i] = at[Len(at) - Len(al) + i]
    OBVIOUS
  <2>1. i \in 1 .. Len(l) + 1
    BY <1>3
  <2>2. al[i] = at[Len(t) + 1 - (Len(l) + 1) + i]
    BY <1>2, <2>1
  <2>. QED
    BY <1>3, <2>2
<1>. HIDE DEF al, at
<1>5. Suffix(al, at)
  BY <1>3, <1>4 DEF Suffix, al, at
<1>6. Suffix(Append(l, b), Append(t, b))
  BY <1>5 DEF al, at
<1>. QED
  BY <1>1, <1>6

(* A prompt at the end of the buffer is one at the end of the text. *)
LEMMA SuffixPrompt ==
  ASSUME NEW l \in Seq(Char), NEW t \in Seq(Char), Suffix(l, t),
         Lines!EndsInPrompt(l)
  PROVE  Lines!EndsInPrompt(t)
<1>1. Len(l) >= 4 /\ Len(t) >= 4 /\ Len(l) \in Nat /\ Len(t) \in Nat
  BY DEF Suffix, Lines!EndsInPrompt
<1>2. /\ Len(l) - 2 \in 1 .. Len(l) /\ Len(l) - 1 \in 1 .. Len(l)
      /\ Len(l) \in 1 .. Len(l)
  BY <1>1
<1>3. /\ l[Len(l) - 2] = t[Len(t) - Len(l) + (Len(l) - 2)]
      /\ l[Len(l) - 1] = t[Len(t) - Len(l) + (Len(l) - 1)]
      /\ l[Len(l)] = t[Len(t) - Len(l) + Len(l)]
  BY <1>2, Zenon DEF Suffix
<1>4. /\ l[Len(l) - 2] = t[Len(t) - 2]
      /\ l[Len(l) - 1] = t[Len(t) - 1]
      /\ l[Len(l)] = t[Len(t)]
  BY <1>1, <1>3
<1>5. l[Len(l) - 2] = ":" /\ l[Len(l) - 1] = "/" /\ l[Len(l)] = ">"
  BY DEF Lines!EndsInPrompt
<1>. QED
  BY <1>1, <1>4, <1>5 DEF Lines!EndsInPrompt

(***************************************************************************)
(* One step of the reader keeps the invariant and is a step of ByteLines.  *)
(***************************************************************************)
ReaderInv == ReaderType /\ BufferHoldsLine

(* What a step has to establish. *)
Good == ReaderType' /\ BufferHoldsLine' /\ [Lines!Next]_(Lines!vars)

LEMMA SwallowSpaceGood ==
  ASSUME ReaderInv, skipSpace, SwallowSpace
  PROVE  Good
<1>1. ReaderType' /\ BufferHoldsLine'
  BY DEF ReaderInv, ReaderType, BufferHoldsLine, SwallowSpace, Open
<1>2. Lines!SkipBlank
  BY DEF SwallowSpace, Lines!SkipBlank
<1>. QED
  BY <1>1, <1>2 DEF Good, Lines!Next

LEMMA IgnoreGood ==
  ASSUME ReaderInv, Ignore
  PROVE  Good
<1>0. Open \in Seq(Char) /\ Len(Open) <= MaxLine
  BY OpenFits DEF ReaderInv
<1>1. ReaderType'
  BY <1>0 DEF ReaderInv, ReaderType, Ignore, Char
<1>2. BufferHoldsLine'
  <2>1. CASE discarding
    BY <2>1, <1>0 DEF ReaderInv, BufferHoldsLine, Ignore, Open
  <2>2. CASE ~discarding
    BY <2>2, <1>0 DEF ReaderInv, BufferHoldsLine, ReaderType, Ignore, Open
  <2>. QED
    BY <2>1, <2>2
<1>3. Lines!Ignore
  BY DEF Ignore, Lines!Ignore
<1>. QED
  BY <1>1, <1>2, <1>3 DEF Good, Lines!Next

LEMMA EndDiscardingGood ==
  ASSUME ReaderInv, EndDiscarding
  PROVE  Good
<1>0. /\ buf' = <<>> /\ since' = <<>> /\ pendingReset' = FALSE
      /\ discarding' = FALSE /\ skipSpace' = FALSE
      /\ <<>> \in Seq(Char) /\ Len(<<>>) = 0 /\ MaxLine \in Nat
  BY DEF EndDiscarding, MaxLine
<1>1. ReaderType' /\ BufferHoldsLine'
  <2>1. ReaderType'
    BY <1>0, Zenon DEF ReaderType, Char
  <2>2. BufferHoldsLine'
    BY <1>0 DEF BufferHoldsLine, Open, MaxLine
  <2>. QED
    BY <2>1, <2>2
<1>2. Lines!Newline
  BY DEF ReaderInv, BufferHoldsLine, EndDiscarding, Lines!Newline
<1>. QED
  BY <1>1, <1>2 DEF Good, Lines!Next

LEMMA EndLineGood ==
  ASSUME ReaderInv, EndLine
  PROVE  Good
<1>. DEFINE l == Lines!Trimmed(Open)
<1>1. /\ Open \in Seq(Char) /\ Len(Open) <= MaxLine /\ since = Open
      /\ Len(Open) \in Nat /\ MaxLine \in Nat
  BY OpenFits DEF ReaderInv, EndLine
<1>2. l \in Seq(Char) /\ Len(l) <= Len(Open)
  BY <1>1, TrimmedType
<1>3. /\ ~discarding /\ buf' = l /\ pendingReset' = (l # <<>>)
      /\ event' = IF l = <<>> THEN Lines!Nothing ELSE Lines!Line(l)
      /\ skipSpace' = FALSE /\ since' = <<>> /\ discarding' = discarding
  BY DEF EndLine
<1>4. Lines!Newline
  BY <1>1, <1>3 DEF Lines!Newline
<1>. HIDE DEF l
<1>5. ReaderType'
  <2>1. pendingReset' \in BOOLEAN
    BY <1>3, Zenon
  <2>2. since' \in Seq(Char)
    BY <1>3
  <2>. QED
    BY <1>2, <1>3, <2>1, <2>2, Zenon DEF ReaderInv, ReaderType, Char
<1>6. BufferHoldsLine'
  <2>1. Open' = <<>>
    <3>1. CASE l = <<>>
      BY <1>3, <3>1, Zenon DEF Open
    <3>2. CASE l # <<>>
      <4>1. pendingReset'
        BY <1>3, <3>2, Zenon
      <4>. QED
        BY <4>1, Zenon DEF Open
    <3>. QED
      BY <3>1, <3>2
  <2>2. Len(buf') <= MaxLine /\ ~discarding' /\ since' = Open'
    BY <1>1, <1>2, <1>3, <2>1
  <2>. QED
    BY <2>2 DEF BufferHoldsLine, MaxLine
<1>. QED
  BY <1>4, <1>5, <1>6 DEF Good, Lines!Next

LEMMA OverflowGood ==
  ASSUME ReaderInv, NEW b \in Char, Overflow(b)
  PROVE  Good
<1>1. /\ Open \in Seq(Char) /\ Len(Open) = MaxLine /\ since = Open
      /\ MaxLine \in Nat /\ MaxLine >= 1 /\ ~discarding
  BY OpenFits DEF ReaderInv, Overflow
<1>2. /\ discarding' = TRUE /\ buf' = <<b>> /\ pendingReset' = FALSE
      /\ skipSpace' = FALSE /\ event' = Lines!Overflow
      /\ since' = Append(since, b)
  BY DEF Overflow
<1>3. /\ Append(since, b) \in Seq(Char) /\ <<b>> \in Seq(Char)
      /\ Len(Append(since, b)) = MaxLine + 1 /\ Len(<<b>>) = 1
  BY <1>1
<1>4. ReaderType'
  BY <1>2, <1>3, Zenon DEF ReaderType, Char
<1>5. Suffix(<<>>, since) /\ <<>> \in Seq(Char)
  BY <1>1 DEF Suffix
<1>6. Suffix(<<b>>, Append(since, b))
  BY <1>1, <1>5, SuffixGrows
<1>7. BufferHoldsLine'
  <2>1. Len(buf') <= MaxLine /\ Len(since') > MaxLine
    BY <1>1, <1>2, <1>3
  <2>2. Suffix(buf', since')
    BY <1>2, <1>6
  <2>. QED
    BY <1>2, <2>1, <2>2, Zenon DEF BufferHoldsLine, Suffix, MaxLine
<1>8. Lines!Put(b)
  <2>1. Len(Append(since, b)) > MaxLine
    BY <1>1, <1>3
  <2>. QED
    BY <1>2, <1>3, <2>1, Zenon DEF Lines!Put
<1>. QED
  BY <1>4, <1>7, <1>8 DEF Good, Lines!Next, Char

LEMMA KeepGood ==
  ASSUME ReaderInv, NEW b \in Char, Keep(b)
  PROVE  Good
<1>. DEFINE l == IF Len(Open) >= MaxLine THEN <<b>> ELSE Append(Open, b)
            t == Append(since, b)
            prompt == b = ">" /\ Lines!EndsInPrompt(l)
<1>1. /\ Open \in Seq(Char) /\ Len(Open) \in Nat /\ Len(Open) <= MaxLine
      /\ since \in Seq(Char) /\ Len(since) \in Nat
      /\ MaxLine \in Nat /\ MaxLine >= 1
      /\ ~discarding => since = Open
      /\ discarding => Suffix(Open, since) /\ Len(since) > MaxLine
  BY OpenFits DEF ReaderInv, Suffix
<1>2. /\ Len(Open) >= MaxLine => discarding
      /\ pendingReset' = FALSE /\ skipSpace' = prompt
      /\ buf' = IF prompt THEN <<>> ELSE l
      /\ event' = IF prompt THEN Lines!Prompt ELSE Lines!Nothing
      /\ discarding' = (discarding /\ ~prompt)
      /\ since' = IF prompt THEN <<>> ELSE t
  BY DEF Keep, TailIsPrompt
<1>3. /\ l \in Seq(Char) /\ Len(l) <= MaxLine
      /\ t \in Seq(Char) /\ Len(t) = Len(since) + 1 /\ t[Len(t)] = b
  BY <1>1
<1>4. CASE discarding
  <2>1. Suffix(l, t)
    BY <1>1, <1>4, SuffixGrows
  <2>2. Lines!EndsInPrompt(l) => Lines!EndsInPrompt(t)
    BY <1>3, <2>1, SuffixPrompt
  <2>3. Len(t) > MaxLine + 1
    BY <1>1, <1>3, <1>4
  <2>. HIDE DEF l, t
  <2>4. CASE prompt
    <3>1. /\ pendingReset' = FALSE /\ skipSpace' = TRUE /\ buf' = <<>>
          /\ event' = Lines!Prompt /\ discarding' = FALSE /\ since' = <<>>
      BY <1>2, <2>4
    <3>2. Lines!Put(b)
      BY <2>2, <2>4, <3>1, Zenon DEF Lines!Put, t
    <3>3. ReaderType'
      <4>1. <<>> \in Seq(Char)
        OBVIOUS
      <4>. QED
        BY <3>1, <4>1, Zenon DEF ReaderType, Char
    <3>4. BufferHoldsLine'
      BY <1>1, <3>1 DEF BufferHoldsLine, Open, MaxLine
    <3>. QED
      BY <3>2, <3>3, <3>4 DEF Good, Lines!Next, Char
  <2>5. CASE ~prompt
    <3>1. /\ pendingReset' = FALSE /\ skipSpace' = FALSE /\ buf' = l
          /\ event' = Lines!Nothing /\ discarding' = TRUE /\ since' = t
      BY <1>2, <1>4, <2>5
    <3>2. Lines!Put(b)
      <4>1. Len(t) > MaxLine /\ Len(t) # MaxLine + 1
        BY <1>1, <1>3, <2>3
      <4>. QED
        BY <3>1, <4>1, Zenon DEF Lines!Put, t
    <3>3. ReaderType'
      BY <1>3, <3>1, Zenon DEF ReaderType, Char
    <3>4. BufferHoldsLine'
      <4>1. Len(t) > MaxLine
        BY <1>1, <1>3, <2>3
      <4>. QED
        BY <1>3, <2>1, <3>1, <4>1, Zenon DEF BufferHoldsLine, Suffix, MaxLine
    <3>. QED
      BY <3>2, <3>3, <3>4 DEF Good, Lines!Next, Char
  <2>. QED
    BY <2>4, <2>5
<1>5. CASE ~discarding
  <2>1. l = t /\ Len(t) <= MaxLine
    BY <1>1, <1>2, <1>3, <1>5
  <2>2. Lines!EndsInPrompt(t) => b = ">"
    BY <1>3 DEF Lines!EndsInPrompt
  <2>. HIDE DEF l, t
  <2>4. CASE prompt
    <3>1. /\ pendingReset' = FALSE /\ skipSpace' = TRUE /\ buf' = <<>>
          /\ event' = Lines!Prompt /\ discarding' = FALSE /\ since' = <<>>
      BY <1>2, <2>4
    <3>2. Lines!Put(b)
      BY <2>1, <2>4, <3>1, Zenon DEF Lines!Put, t
    <3>3. ReaderType'
      <4>1. <<>> \in Seq(Char)
        OBVIOUS
      <4>. QED
        BY <3>1, <4>1, Zenon DEF ReaderType, Char
    <3>4. BufferHoldsLine'
      BY <1>1, <3>1 DEF BufferHoldsLine, Open, MaxLine
    <3>. QED
      BY <3>2, <3>3, <3>4 DEF Good, Lines!Next, Char
  <2>5. CASE ~prompt
    <3>1. /\ pendingReset' = FALSE /\ skipSpace' = FALSE /\ buf' = l
          /\ event' = Lines!Nothing /\ discarding' = FALSE /\ since' = t
      BY <1>2, <1>5, <2>5
    <3>2. ~ Lines!EndsInPrompt(t)
      BY <2>1, <2>2, <2>5
    <3>3. Len(t) # MaxLine + 1
      BY <1>1, <1>3, <2>1
    <3>4. Lines!Put(b)
      BY <3>1, <3>2, <3>3, Zenon DEF Lines!Put, t
    <3>5. ReaderType'
      BY <1>3, <3>1, Zenon DEF ReaderType, Char
    <3>6. BufferHoldsLine'
      BY <1>3, <2>1, <3>1, Zenon DEF BufferHoldsLine, Open, MaxLine
    <3>. QED
      BY <3>4, <3>5, <3>6 DEF Good, Lines!Next, Char
  <2>. QED
    BY <2>4, <2>5
<1>. QED
  BY <1>4, <1>5

(* Every byte. *)
LEMMA FeedGood ==
  ASSUME ReaderInv, [ReaderNext]_readerVars
  PROVE  Good
<1>1. CASE UNCHANGED readerVars
  BY <1>1 DEF readerVars, ReaderInv, ReaderType, BufferHoldsLine, Open, Good,
              Lines!vars
<1>2. ASSUME NEW b \in Byte, Feed(b)
      PROVE  Good
  <2>1. Stored(b) \in Char
    BY DEF Char
  <2>2. \/ skipSpace /\ SwallowSpace
        \/ Ignore \/ EndDiscarding \/ EndLine
        \/ Overflow(Stored(b)) \/ Keep(Stored(b))
    BY <1>2, Zenon DEF Feed
  <2>. QED
    BY <2>1, <2>2, SwallowSpaceGood, IgnoreGood, EndDiscardingGood, EndLineGood,
       OverflowGood, KeepGood
<1>. QED
  BY <1>1, <1>2 DEF ReaderNext

LEMMA InitGood ==
  ASSUME ReaderInit
  PROVE  ReaderInv /\ Lines!Init
<1>1. <<>> \in Seq(Char) /\ Len(<<>>) <= MaxLine
  BY DEF MaxLine
<1>2. ReaderType
  BY <1>1, Zenon DEF ReaderInit, ReaderType, Char
<1>3. BufferHoldsLine
  BY <1>1, Zenon DEF ReaderInit, BufferHoldsLine, Open, MaxLine
<1>4. Lines!Init
  BY Zenon DEF ReaderInit, Lines!Init
<1>. QED
  BY <1>2, <1>3, <1>4 DEF ReaderInv

(***************************************************************************)
(* For every capacity and every byte that can arrive, the buffer of the    *)
(* line reader stays within its array, holds nothing but the line being    *)
(* read, and what is left of an oversized line can never be delivered      *)
(* (LineReader::feed()).                                                   *)
(***************************************************************************)
THEOREM BufferIsLine == ReaderSpec => [](ReaderType /\ BufferHoldsLine)
<1>1. ReaderInit => ReaderInv
  BY InitGood
<1>2. ReaderInv /\ [ReaderNext]_readerVars => ReaderInv'
  BY FeedGood DEF Good, ReaderInv
<1>3. ReaderInv => ReaderType /\ BufferHoldsLine
  BY DEF ReaderInv
<1>. QED
  BY <1>1, <1>2, <1>3, PTL DEF ReaderSpec

(***************************************************************************)
(* The line reader delivers what ByteLines promises: whole lines, none of  *)
(* an oversized one, and every prompt but those inside an oversized line.  *)
(***************************************************************************)
THEOREM ReaderDeliversLines == ReaderSpec => LinesAreWhole
<1>1. ReaderInit => ReaderInv /\ Lines!Init
  BY InitGood
<1>2. ReaderInv /\ [ReaderNext]_readerVars => ReaderInv' /\ [Lines!Next]_(Lines!vars)
  BY FeedGood DEF Good, ReaderInv
<1>. QED
  BY <1>1, <1>2, PTL DEF ReaderSpec, LinesAreWhole, Lines!Spec
=============================================================================
