------------------------- MODULE CircuitQueueProofs -------------------------
(***************************************************************************)
(* The ring implements the bounded queue for every capacity, extra area    *)
(* and set of blocks.  The invariant is that the tail is `length' cells    *)
(* after the head, modulo the capacity; from it, where each queued element *)
(* lies is plain arithmetic on a position that wraps at most once.         *)
(***************************************************************************)
EXTENDS CircuitQueueFifo, SequenceTheorems, TLAPS

\* x taken once round the ring.
Wrap(x) == IF x < Size THEN x ELSE x - Size

\* A position less than two turns round the ring wraps at most once.
LEMMA WrapOnce ==
  ASSUME NEW x \in 0..(2 * Size - 1)
  PROVE  x % Size = Wrap(x)
  BY QueueAssumption DEF Wrap

RingInv == QueueType /\ IndexAgree

\* The shape of the ring: the tail is after the head, or has wrapped.
LEMMA RingShape ==
  ASSUME RingInv
  PROVE  /\ Size \in Nat \ {0} /\ head \in 0..(Size - 1) /\ tail \in 0..(Size - 1)
         /\ length \in 0..Size
         /\ tail = IF head + length < Size THEN head + length ELSE head + length - Size
  <1>1. /\ Size \in Nat \ {0} /\ head \in 0..(Size - 1) /\ tail \in 0..(Size - 1)
        /\ length \in 0..Size /\ tail = (head + length) % Size
    BY QueueAssumption DEF RingInv, QueueType, IndexAgree
  <1>2. head + length \in 0..(2 * Size - 1)
    BY <1>1
  <1>3. tail = Wrap(head + length)
    <2>1. PICK x \in 0..(2 * Size - 1) : x = head + length
      BY <1>2
    <2>2. x % Size = Wrap(x)
      BY WrapOnce
    <2>3. QED BY <1>1, <2>1, <2>2, Zenon
  <1>4. QED
    BY <1>1, <1>3 DEF Wrap

\* Where the i-th element lies.
LEMMA CellOfValue ==
  ASSUME RingInv, NEW i \in 1..Size
  PROVE  /\ CellOf(i) = IF head + i - 1 < Size THEN head + i - 1 ELSE head + i - 1 - Size
         /\ CellOf(i) \in 0..(Size - 1)
         /\ CellOf(i) \in Cell
  <1>1. head + i - 1 \in 0..(2 * Size - 1)
    BY RingShape
  <1>2. CellOf(i) = IF head + i - 1 < Size THEN head + i - 1 ELSE head + i - 1 - Size
    <2>1. PICK x \in 0..(2 * Size - 1) : x = head + i - 1
      BY <1>1
    <2>2. x % Size = Wrap(x)
      BY WrapOnce
    <2>3. CellOf(i) = Wrap(x)
      BY <2>1, <2>2, Zenon DEF CellOf
    <2>4. CellOf(i) = IF x < Size THEN x ELSE x - Size
      BY <2>3 DEF Wrap
    <2>5. Size \in Int /\ head \in Int /\ i \in Int
      BY RingShape
    <2> HIDE DEF CellOf
    <2>6. QED
      BY <2>1, <2>4, <2>5
  <1>3. CellOf(i) \in 0..(Size - 1)
    BY <1>2, RingShape
  <1>4. QED
    BY <1>2, <1>3, RingShape, QueueAssumption DEF Cell

\* The same, in a form that can be primed.
LEMMA CellOfValues ==
  RingInv => \A j \in 1..Size : CellOf(j) = IF head + j - 1 < Size THEN head + j - 1
                                            ELSE head + j - 1 - Size
  BY CellOfValue

\* The contents as a sequence.
LEMMA ContentsSeq ==
  RingInv => /\ Contents \in Seq(Element \cup {Blank})
             /\ Len(Contents) = length
             /\ \A i \in 1..length : Contents[i] = data[CellOf(i)]
  <1> SUFFICES ASSUME RingInv
               PROVE  /\ Contents \in Seq(Element \cup {Blank})
                      /\ Len(Contents) = length
                      /\ \A i \in 1..length : Contents[i] = data[CellOf(i)]
    OBVIOUS
  <1>1. length \in Nat /\ \A i \in 1..length : i \in 1..Size
    BY RingShape
  <1>2. \A i \in 1..length : data[CellOf(i)] \in Element \cup {Blank}
    BY <1>1, CellOfValue DEF RingInv, QueueType
  <1>3. Contents \in Seq(Element \cup {Blank})
    BY <1>1, <1>2, IsASeq DEF Contents
  <1>4. QED
    BY <1>1, <1>3, LenProperties DEF Contents

\* The writing part of Enqueue fills exactly the free cells after the tail.
LEMMA StoreCells ==
  ASSUME RingInv, NEW xs \in Seq(Element), length + Len(xs) <= Size
  PROVE  /\ Store(xs) \in [Cell -> Element \cup {Blank}]
         /\ \A i \in 1..length : Store(xs)[CellOf(i)] = data[CellOf(i)]
         /\ \A j \in 1..Len(xs) : Store(xs)[CellOf(length + j)] = xs[j]
  <1> DEFINE n == Len(xs)
             back == Size - tail
             rest == SubSeq(xs, back + 1, n)
  <1>1. n \in Nat /\ \A j \in 1..n : xs[j] \in Element
    BY LenProperties, ElementOfSeq
  <1>2. /\ Size \in Nat \ {0} /\ head \in 0..(Size - 1) /\ tail \in 0..(Size - 1)
        /\ length \in 0..Size
        /\ tail = IF head + length < Size THEN head + length ELSE head + length - Size
    BY RingShape
  <1>3. /\ data \in [Cell -> Element \cup {Blank}]
        /\ \A c \in 0..(Size - 1) : c \in Cell
        /\ Cell \subseteq Int
    BY <1>2, QueueAssumption DEF RingInv, QueueType, Cell
  <1>4. \A i \in 1..(length + n) : i \in 1..Size
    BY <1>1, <1>2
  <1>5. CASE head <= tail /\ back < n
    <2>1. rest \in Seq(Element) /\ \A k \in 1..(n - back) : rest[k] = xs[back + k]
      <3>1. back \in Int /\ back + 1 \in Int /\ n \in Int /\ \A k \in (back + 1)..n : xs[k] \in Element
        BY <1>1, <1>2
      <3> HIDE DEF back, n
      <3>2. /\ SubSeq(xs, back + 1, n) \in Seq(Element)
            /\ \A k \in 1..(n - (back + 1) + 1) :
                 SubSeq(xs, back + 1, n)[k] = xs[back + 1 + k - 1]
        BY <3>1, SubSeqProperties
      <3>3. \A k \in 1..(n - back) : k \in 1..(n - (back + 1) + 1) /\ back + 1 + k - 1 = back + k
        BY <3>1
      <3>4. QED
        BY <3>2, <3>3
    <2>2. head + length < Size /\ tail = head + length /\ n - back <= head
      BY <1>1, <1>2, <1>5
    <2>3. \A c \in Cell :
            Store(xs)[c] = IF c \in 0..(n - back - 1) THEN xs[back + c + 1]
                           ELSE IF c \in tail..(tail + back - 1) THEN xs[c - tail + 1]
                           ELSE data[c]
      <3> SUFFICES ASSUME NEW c \in Cell
                   PROVE Store(xs)[c] = IF c \in 0..(n - back - 1) THEN xs[back + c + 1]
                           ELSE IF c \in tail..(tail + back - 1) THEN xs[c - tail + 1]
                           ELSE data[c]
        OBVIOUS
      <3>1. c \in 0..(0 + (n - back) - 1) <=> c \in 0..(n - back - 1)
        BY <1>1, <1>2
      <3>2. c \in 0..(n - back - 1) => rest[c - 0 + 1] = xs[back + c + 1]
        BY <2>1, <1>1, <1>2
      <3>3. Store(xs)[c] = IF c \in 0..(0 + (n - back) - 1) THEN rest[c - 0 + 1]
                           ELSE IF c \in tail..(tail + back - 1) THEN xs[c - tail + 1]
                           ELSE data[c]
        BY <1>5 DEF Store, CopyIn
      <3>4. QED BY <3>1, <3>2, <3>3
    <2>4. Store(xs) \in [Cell -> Element \cup {Blank}]
      <3>1. ASSUME NEW c \in Cell
            PROVE Store(xs)[c] \in Element \cup {Blank}
        <4>1. c \in 0..(n - back - 1) => back + c + 1 \in 1..n
          BY <1>1, <1>2
        <4>2. c \in tail..(tail + back - 1) => c - tail + 1 \in 1..n
          BY <1>1, <1>2, <1>5
        <4>3. QED BY <4>1, <4>2, <2>3, <1>1, <1>3
      <3>2. Store(xs) = [c \in Cell |-> Store(xs)[c]]
        BY <1>5 DEF Store, CopyIn
      <3>3. QED BY <3>1, <3>2
    <2>5. ASSUME NEW i \in 1..length
          PROVE Store(xs)[CellOf(i)] = data[CellOf(i)]
      <3>1. i \in 1..Size
        BY <1>1, <1>2
      <3>2. CellOf(i) = head + i - 1 /\ CellOf(i) \in Cell
        BY <3>1, <2>2, <1>2, CellOfValue
      <3>3. CellOf(i) \notin 0..(n - back - 1) /\ CellOf(i) \notin tail..(tail + back - 1)
        BY <3>2, <2>2, <1>1, <1>2
      <3>4. QED
        BY <3>2, <3>3, <2>3
    <2>6. ASSUME NEW j \in 1..n
          PROVE Store(xs)[CellOf(length + j)] = xs[j]
      <3>1. length + j \in 1..Size
        BY <1>1, <1>2
      <3>2. /\ CellOf(length + j) = IF tail + j - 1 < Size THEN tail + j - 1 ELSE tail + j - 1 - Size
            /\ CellOf(length + j) \in Cell
        BY <3>1, <2>2, <1>2, CellOfValue
      <3>3. CASE j <= back
        <4>1. CellOf(length + j) = tail + j - 1
          BY <3>2, <3>3, <1>1, <1>2
        <4>2. /\ CellOf(length + j) \notin 0..(n - back - 1)
              /\ CellOf(length + j) \in tail..(tail + back - 1)
              /\ CellOf(length + j) - tail + 1 = j
          BY <4>1, <3>3, <2>2, <1>1, <1>2
        <4>3. QED BY <4>2, <3>2, <2>3
      <3>4. CASE j > back
        <4>1. CellOf(length + j) = j - back - 1
          BY <3>2, <3>4, <1>1, <1>2
        <4>2. CellOf(length + j) \in 0..(n - back - 1) /\ back + CellOf(length + j) + 1 = j
          BY <4>1, <3>4, <1>1, <1>2
        <4>3. QED BY <4>2, <3>2, <2>3
      <3>5. QED BY <3>3, <3>4, <1>1, <1>2
    <2>7. QED BY <2>4, <2>5, <2>6
  <1>6. CASE ~(head <= tail /\ back < n)
    <2>1. tail + n <= Size /\ (head + length >= Size => tail + n <= head)
      BY <1>1, <1>2, <1>6
    <2>2. \A c \in Cell : Store(xs)[c] = IF c \in tail..(tail + n - 1) THEN xs[c - tail + 1] ELSE data[c]
      BY <1>6 DEF Store, CopyIn
    <2>3. Store(xs) \in [Cell -> Element \cup {Blank}]
      <3>1. \A c \in Cell : Store(xs)[c] \in Element \cup {Blank}
        BY <2>2, <1>1, <1>2, <1>3, SMTT(40)
      <3>2. Store(xs) = [c \in Cell |-> Store(xs)[c]]
        BY <1>6 DEF Store, CopyIn
      <3>3. QED BY <3>1, <3>2
    <2>4. ASSUME NEW i \in 1..length
          PROVE Store(xs)[CellOf(i)] = data[CellOf(i)]
      <3>1. i \in 1..Size
        BY <1>1, <1>2
      <3>2. /\ CellOf(i) = IF head + i - 1 < Size THEN head + i - 1 ELSE head + i - 1 - Size
            /\ CellOf(i) \in Cell
        BY <3>1, CellOfValue
      <3>3. CellOf(i) \notin tail..(tail + n - 1)
        BY <3>2, <2>1, <1>1, <1>2
      <3>4. QED BY <3>2, <3>3, <2>2
    <2>5. ASSUME NEW j \in 1..n
          PROVE Store(xs)[CellOf(length + j)] = xs[j]
      <3>1. length + j \in 1..Size
        BY <1>1, <1>2
      <3>2. CellOf(length + j) = tail + j - 1 /\ CellOf(length + j) \in Cell
        BY <3>1, <2>1, <1>1, <1>2, CellOfValue, SMTT(40)
      <3>3. CellOf(length + j) \in tail..(tail + n - 1) /\ CellOf(length + j) - tail + 1 = j
        BY <3>2, <1>1, <1>2
      <3>4. QED BY <3>2, <3>3, <2>2
    <2>6. QED BY <2>3, <2>4, <2>5
  <1>7. QED
    BY <1>5, <1>6

\* With a block in the free cells after the tail, moving the tail over it keeps
\* the invariant and appends the block to the contents.
LEMMA AdvanceStep ==
  ASSUME RingInv, NEW xs \in Seq(Element), length + Len(xs) <= Size,
         data' \in [Cell -> Element \cup {Blank}],
         \A i \in 1..length : data'[CellOf(i)] = data[CellOf(i)],
         \A j \in 1..Len(xs) : data'[CellOf(length + j)] = xs[j],
         Advance(Len(xs))
  PROVE  RingInv' /\ Contents' = Contents \o xs
  <1>1. /\ Len(xs) \in Nat /\ length + Len(xs) <= Size /\ Size \in Nat \ {0}
        /\ head \in 0..(Size - 1) /\ length \in 0..Size
        /\ tail = IF head + length < Size THEN head + length ELSE head + length - Size
    BY RingShape, LenProperties
  <1>2. /\ head' = head /\ length' = length + Len(xs)
        /\ tail' = (tail + Len(xs)) % Size
    BY DEF Advance
  <1>0. tail + Len(xs) \in 0..(2 * Size - 1)
    BY <1>1
  <1>3. IndexAgree'
    <2>1. PICK x \in 0..(2 * Size - 1) : x = tail + Len(xs)
      BY <1>0
    <2>2. PICK y \in 0..(2 * Size - 1) : y = head + (length + Len(xs))
      BY <1>1
    <2>3. x % Size = Wrap(x) /\ y % Size = Wrap(y)
      BY WrapOnce
    <2>4. CASE x < Size
      <3>1. \/ y = x
            \/ y = x + Size /\ Wrap(y) = x
        BY <1>1, <2>1, <2>2, <2>4 DEF Wrap
      <3>2. Wrap(x) = x /\ Wrap(y) = x
        BY <2>4, <3>1 DEF Wrap
      <3>3. QED BY <1>2, <2>1, <2>2, <2>3, <3>2, Zenon DEF IndexAgree
    <2>5. CASE ~(x < Size)
      <3>1. Wrap(x) = Wrap(y)
        BY <1>1, <2>1, <2>2, <2>5 DEF Wrap
      <3>2. QED BY <1>2, <2>1, <2>2, <2>3, <3>1, Zenon DEF IndexAgree
    <2>6. QED BY <2>4, <2>5
  <1>4. QueueType'
    <2>1. tail' \in 0..(Size - 1)
      <3>1. PICK x \in 0..(2 * Size - 1) : x = tail + Len(xs)
        BY <1>0
      <3>2. x % Size = Wrap(x)
        BY WrapOnce
      <3>3. tail' = Wrap(x)
        BY <1>2, <3>1, <3>2, Zenon
      <3>4. QED BY <3>1, <3>3, <1>1 DEF Wrap
    <2>2. length' \in 0..Size
      BY <1>1, <1>2
    <2>3. data' \in [Cell -> Element \cup {Blank}]
      OBVIOUS
    <2>4. QED BY <1>1, <1>2, <2>1, <2>2, <2>3 DEF QueueType
  <1>5. Contents' = Contents \o xs
    <2>1. Contents' \in Seq(Element \cup {Blank}) /\ Len(Contents') = length'
          /\ \A i \in 1..length' : Contents'[i] = data'[CellOf(i)']
      <3>1. RingInv'
        BY <1>3, <1>4 DEF RingInv
      <3>2. (RingInv => /\ Contents \in Seq(Element \cup {Blank})
                        /\ Len(Contents) = length
                        /\ \A i \in 1..length : Contents[i] = data[CellOf(i)])'
        BY ContentsSeq, PTL
      <3>3. QED BY <3>1, <3>2
    <2>2. \A i \in 1..length' : CellOf(i)' = CellOf(i)
      BY <1>2 DEF CellOf
    <2>3. /\ Contents \in Seq(Element \cup {Blank}) /\ Len(Contents) = length
          /\ \A i \in 1..length : Contents[i] = data[CellOf(i)]
      BY ContentsSeq
    <2>4. xs \in Seq(Element \cup {Blank})
      BY SeqMonotonic
    <2> DEFINE both == Contents \o xs
    <2>5. /\ both \in Seq(Element \cup {Blank})
          /\ Len(both) = Len(Contents) + Len(xs)
          /\ \A i \in 1..(Len(Contents) + Len(xs)) :
               both[i] = IF i <= Len(Contents) THEN Contents[i] ELSE xs[i - Len(Contents)]
      BY <2>3, <2>4, ConcatProperties
    <2>6. ASSUME NEW i \in 1..(length + Len(xs))
          PROVE  Contents'[i] = both[i]
      <3>1. Contents'[i] = data'[CellOf(i)]
        BY <1>2, <2>1, <2>2
      <3>2. CASE i <= length
        <4>1. i \in 1..length
          BY <3>2, <1>1
        <4>2. data'[CellOf(i)] = data[CellOf(i)]
          BY <4>1
        <4>3. QED BY <3>1, <3>2, <4>1, <4>2, <2>3, <2>5
      <3>3. CASE ~(i <= length)
        <4>1. i - length \in 1..Len(xs) /\ length + (i - length) = i
          BY <3>3, <1>1
        <4>2. data'[CellOf(length + (i - length))] = xs[i - length]
          BY <4>1
        <4>3. both[i] = xs[i - length]
          BY <3>3, <2>3, <2>5
        <4>4. QED BY <3>1, <4>1, <4>2, <4>3
      <3>4. QED BY <3>2, <3>3
    <2> HIDE DEF both
    <2>7. Contents' = both
      <3>1. Len(Contents') = Len(both) /\ \A i \in 1..Len(Contents') : Contents'[i] = both[i]
        BY <1>2, <2>1, <2>3, <2>5, <2>6
      <3>2. QED BY <3>1, <2>1, <2>5, SeqEqual
    <2>8. QED BY <2>7 DEF both
  <1>6. QED
    BY <1>3, <1>4, <1>5 DEF RingInv

\* Enqueue appends its block.
LEMMA EnqueueStep ==
  ASSUME RingInv, NEW xs \in Seq(Element), Enqueue(xs)
  PROVE  RingInv' /\ Contents' = Contents \o xs
  <1>1. length + Len(xs) <= Size /\ data' = Store(xs) /\ Advance(Len(xs))
    BY RingShape, LenProperties DEF Enqueue, GetSpace
  <1>2. QED
    BY <1>1, StoreCells, AdvanceStep

\* The free cells that can be written in one piece lie behind the tail, and
\* what is written there is not queued.
LEMMA WritableCells ==
  RingInv => /\ GetWritableLen \in 0..Size /\ length + GetWritableLen <= Size
             /\ \A j \in 1..GetWritableLen : CellOf(length + j) = tail + j - 1
             /\ \A i \in 1..length : CellOf(i) \notin tail..(tail + GetWritableLen - 1)
             /\ tail + GetWritableLen <= Size
  <1> SUFFICES ASSUME RingInv
               PROVE  /\ GetWritableLen \in 0..Size /\ length + GetWritableLen <= Size
                      /\ \A j \in 1..GetWritableLen : CellOf(length + j) = tail + j - 1
                      /\ \A i \in 1..length : CellOf(i) \notin tail..(tail + GetWritableLen - 1)
                      /\ tail + GetWritableLen <= Size
    OBVIOUS
  <1>1. /\ Size \in Nat \ {0} /\ head \in 0..(Size - 1) /\ tail \in 0..(Size - 1)
        /\ length \in 0..Size
        /\ tail = IF head + length < Size THEN head + length ELSE head + length - Size
    BY RingShape
  <1>2. /\ GetWritableLen \in 0..Size /\ length + GetWritableLen <= Size
        /\ tail + GetWritableLen <= Size
        /\ head + length >= Size => tail + GetWritableLen <= head
    BY <1>1 DEF GetWritableLen
  <1> HIDE DEF GetWritableLen
  <1>3. ASSUME NEW j \in 1..GetWritableLen
        PROVE  CellOf(length + j) = tail + j - 1
    <2>1. length + j \in 1..Size
      BY <1>1, <1>2
    <2>2. QED BY <2>1, <1>1, <1>2, CellOfValue
  <1>4. ASSUME NEW i \in 1..length
        PROVE  CellOf(i) \notin tail..(tail + GetWritableLen - 1)
    <2>1. i \in 1..Size
      BY <1>1
    <2>2. CellOf(i) = IF head + i - 1 < Size THEN head + i - 1 ELSE head + i - 1 - Size
      BY <2>1, CellOfValue
    <2>3. QED BY <2>2, <1>1, <1>2
  <1>5. QED
    BY <1>2, <1>3, <1>4

\* A ring that nobody touches.
LEMMA RingUnchanged ==
  ASSUME RingInv, UNCHANGED qvars
  PROVE  RingInv' /\ Contents' = Contents
  BY DEF qvars, RingInv, QueueType, IndexAgree, Contents, CellOf

\* recv() into the free cells leaves what is queued alone.
LEMMA DepositStep ==
  ASSUME RingInv, NEW xs \in Seq(Element), Deposit(xs)
  PROVE  /\ RingInv' /\ Contents' = Contents
         /\ \A j \in 1..Len(xs) : data'[tail + j - 1] = xs[j]
  <1>1. /\ Len(xs) \in Nat /\ Len(xs) <= GetWritableLen /\ data' = CopyIn(data, tail, xs, Len(xs))
        /\ UNCHANGED <<head, tail, length>> /\ \A j \in 1..Len(xs) : xs[j] \in Element
    BY LenProperties, ElementOfSeq DEF Deposit
  <1>2. /\ GetWritableLen \in 0..Size
        /\ \A i \in 1..length : CellOf(i) \notin tail..(tail + GetWritableLen - 1)
        /\ tail + GetWritableLen <= Size
    <2>1. GetWritableLen \in 0..Size /\ tail + GetWritableLen <= Size
      BY WritableCells
    <2>2. \A i \in 1..length : CellOf(i) \notin tail..(tail + GetWritableLen - 1)
      BY WritableCells, Zenon
    <2>3. QED BY <2>1, <2>2
  <1>3. /\ Size \in Nat \ {0} /\ ExtraSize \in Nat /\ tail \in 0..(Size - 1) /\ length \in 0..Size
        /\ data \in [Cell -> Element \cup {Blank}]
    BY RingShape, QueueAssumption DEF RingInv, QueueType
  <1> HIDE DEF GetWritableLen
  <1>4. /\ data' = [c \in Cell |-> IF c \in tail..(tail + Len(xs) - 1) THEN xs[c - tail + 1] ELSE data[c]]
        /\ Cell \subseteq Int
    BY <1>1, <1>3 DEF CopyIn, Cell
  <1>5. data' \in [Cell -> Element \cup {Blank}]
    <2>1. ASSUME NEW c \in Cell
          PROVE  (IF c \in tail..(tail + Len(xs) - 1) THEN xs[c - tail + 1] ELSE data[c]) \in Element \cup {Blank}
      <3>1. c \in tail..(tail + Len(xs) - 1) => c - tail + 1 \in 1..Len(xs)
        BY <1>1, <1>3, <1>4
      <3>2. QED BY <3>1, <1>1, <1>3
    <2>2. QED BY <2>1, <1>4
  <1>6. RingInv'
    BY <1>1, <1>5 DEF RingInv, QueueType, IndexAgree
  <1>7. ASSUME NEW j \in 1..Len(xs)
        PROVE  data'[tail + j - 1] = xs[j]
    <2> DEFINE c == tail + j - 1
    <2>1. c \in Cell /\ c \in tail..(tail + Len(xs) - 1) /\ c - tail + 1 = j
      BY <1>1, <1>2, <1>3 DEF Cell
    <2> HIDE DEF c
    <2>2. data'[c] = xs[c - tail + 1]
      BY <2>1, <1>4
    <2>3. QED BY <2>1, <2>2 DEF c
  <1>8. \A i \in 1..length : data'[CellOf(i)'] = data[CellOf(i)]
    <2>1. SUFFICES ASSUME NEW i \in 1..length PROVE data'[CellOf(i)'] = data[CellOf(i)]
      OBVIOUS
    <2>2. CellOf(i)' = CellOf(i)
      BY <1>1 DEF CellOf
    <2>3. i \in 1..Size
      BY <1>3
    <2>4. CellOf(i) \in Cell
      BY <2>3, CellOfValue
    <2>5. CellOf(i) \notin tail..(tail + Len(xs) - 1)
      <3>1. CellOf(i) \notin tail..(tail + GetWritableLen - 1) /\ CellOf(i) \in Int
        BY <1>2, <1>4, <2>4
      <3> HIDE DEF CellOf
      <3>2. QED BY <3>1, <1>1, <1>2, <1>3
    <2>6. QED BY <2>2, <2>4, <2>5, <1>4
  <1>9. Contents' = Contents
    <2>1. Contents' = [i \in 1..length |-> data'[CellOf(i)']]
      BY <1>1 DEF Contents
    <2>2. QED BY <2>1, <1>8 DEF Contents
  <1>10. QED BY <1>6, <1>7, <1>9

\* Enqueue(NULL, n) appends the cells that were filled in place.
LEMMA InPlaceStep ==
  ASSUME RingInv, NEW xs \in Seq(Element), Len(xs) <= GetWritableLen,
         \A j \in 1..Len(xs) : data[tail + j - 1] = xs[j],
         EnqueueInPlace(Len(xs))
  PROVE  RingInv' /\ Contents' = Contents \o xs
  <1>1. Len(xs) \in Nat /\ data' = data /\ Advance(Len(xs))
    BY LenProperties DEF EnqueueInPlace
  <1>2. /\ GetWritableLen \in 0..Size /\ length + GetWritableLen <= Size
        /\ \A j \in 1..GetWritableLen : CellOf(length + j) = tail + j - 1
    BY WritableCells
  <1>3. length \in 0..Size /\ Size \in Nat /\ data \in [Cell -> Element \cup {Blank}]
    BY RingShape DEF RingInv, QueueType
  <1> HIDE DEF GetWritableLen
  <1>4. length + Len(xs) <= Size /\ \A j \in 1..Len(xs) : j \in 1..GetWritableLen
    BY <1>1, <1>2, <1>3
  <1>5. \A j \in 1..Len(xs) : data'[CellOf(length + j)] = xs[j]
    BY <1>1, <1>2, <1>4
  <1>6. QED
    BY <1>1, <1>3, <1>4, <1>5, AdvanceStep

\* What is taken off the ring makes the writable piece no shorter.
LEMMA WritableGrows ==
  ASSUME RingInv, NEW n \in Nat, Dequeue(n)
  PROVE  GetWritableLen' >= GetWritableLen
  <1>1. /\ Size \in Nat \ {0} /\ head \in 0..(Size - 1) /\ tail \in 0..(Size - 1)
        /\ length \in 0..Size /\ n \in 0..length
        /\ tail = IF head + length < Size THEN head + length ELSE head + length - Size
    BY RingShape DEF Dequeue, CanPeek
  <1>2. length' = length - n /\ tail' = tail /\ head' = (head + n) % Size
    BY DEF Dequeue
  <1>3. head' = IF head + n < Size THEN head + n ELSE head + n - Size
    <2>1. PICK x \in 0..(2 * Size - 1) : x = head + n
      BY <1>1
    <2>2. x % Size = Wrap(x)
      BY WrapOnce
    <2>3. head' = Wrap(x)
      BY <1>2, <2>1, <2>2, Zenon
    <2>4. QED BY <2>1, <2>3, <1>1 DEF Wrap
  <1>4. GetWritableLen' = IF head' = tail THEN IF length - n > 0 THEN 0 ELSE Size - tail
                          ELSE IF head' < tail THEN Size - tail ELSE head' - tail
    BY <1>2 DEF GetWritableLen
  <1>5. QED
    BY <1>1, <1>3, <1>4 DEF GetWritableLen

\* The cells that can be read in one piece are the first ones queued.
LEMMA ReadableCells ==
  RingInv => /\ GetReadableLen \in 0..length /\ head + GetReadableLen <= Size
             /\ \A i \in 1..length : head + i <= Size => data[head + i - 1] = Contents[i]
  <1> SUFFICES ASSUME RingInv
               PROVE  /\ GetReadableLen \in 0..length /\ head + GetReadableLen <= Size
                      /\ \A i \in 1..length : head + i <= Size => data[head + i - 1] = Contents[i]
    OBVIOUS
  <1>1. /\ Size \in Nat \ {0} /\ head \in 0..(Size - 1) /\ tail \in 0..(Size - 1)
        /\ length \in 0..Size
        /\ tail = IF head + length < Size THEN head + length ELSE head + length - Size
    BY RingShape
  <1>2. GetReadableLen \in 0..length /\ head + GetReadableLen <= Size
    BY <1>1 DEF GetReadableLen
  <1>3. ASSUME NEW i \in 1..length, head + i <= Size
        PROVE  data[head + i - 1] = Contents[i]
    <2>1. i \in 1..Size
      BY <1>1
    <2>2. CellOf(i) = head + i - 1
      BY <2>1, <1>1, <1>3, CellOfValue
    <2>3. QED BY <2>2, ContentsSeq
  <1>4. QED BY <1>2, <1>3

-----------------------------------------------------------------------------
\* Peek copies the first n queued elements, whether or not they wrap.
LEMMA PeekIsPrefix ==
  ASSUME RingInv, NEW n \in 0..length
  PROVE  PeekData(n) = SubSeq(Contents, 1, n)
  <1>1. /\ Size \in Nat \ {0} /\ head \in 0..(Size - 1) /\ tail \in 0..(Size - 1)
        /\ length \in 0..Size /\ n \in Nat
        /\ tail = IF head + length < Size THEN head + length ELSE head + length - Size
    BY RingShape
  <1>2. /\ Contents \in Seq(Element \cup {Blank}) /\ Len(Contents) = length
        /\ \A i \in 1..length : Contents[i] = data[CellOf(i)]
    BY ContentsSeq
  <1>3. \A i \in 1..n : i \in 1..length /\ i \in 1..Size
    BY <1>1
  <1>4. PeekData(n) = [i \in 1..n |-> Contents[i]]
    <2>1. CASE head < tail \/ GetBackDataCount >= n
      <3>1. ASSUME NEW i \in 1..n
            PROVE  CellOf(i) = head + i - 1
        <4>1. head + i - 1 < Size
          BY <2>1, <1>1 DEF GetBackDataCount
        <4>2. QED BY <4>1, <1>3, CellOfValue
      <3>2. \A i \in 1..n : data[head + i - 1] = Contents[i]
        BY <3>1, <1>2, <1>3
      <3>3. PeekData(n) = [i \in 1..n |-> data[head + i - 1]]
        BY <2>1 DEF PeekData
      <3>4. QED BY <3>2, <3>3
    <2>2. CASE ~(head < tail \/ GetBackDataCount >= n)
      <3>1. ASSUME NEW i \in 1..n
            PROVE  (IF i <= GetBackDataCount THEN data[head + i - 1]
                    ELSE data[i - GetBackDataCount - 1]) = Contents[i]
        <4>1. CASE i <= GetBackDataCount
          <5>1. head + i - 1 < Size
            BY <4>1, <1>1 DEF GetBackDataCount
          <5>2. CellOf(i) = head + i - 1
            BY <5>1, <1>3, CellOfValue
          <5>3. QED BY <4>1, <5>2, <1>2, <1>3
        <4>2. CASE ~(i <= GetBackDataCount)
          <5>1. ~(head + i - 1 < Size) /\ head + i - 1 - Size = i - GetBackDataCount - 1
            BY <4>2, <1>1 DEF GetBackDataCount
          <5>2. CellOf(i) = i - GetBackDataCount - 1
            BY <5>1, <1>3, CellOfValue
          <5>3. QED BY <4>2, <5>2, <1>2, <1>3
        <4>3. QED BY <4>1, <4>2
      <3>2. PeekData(n) = [i \in 1..n |-> IF i <= GetBackDataCount THEN data[head + i - 1]
                                          ELSE data[i - GetBackDataCount - 1]]
        BY <2>2 DEF PeekData
      <3>3. QED BY <3>1, <3>2
    <2>3. QED BY <2>1, <2>2
  <1>5. PeekData(n) \in Seq(Element \cup {Blank}) /\ Len(PeekData(n)) = n
    <2>1. \A i \in 1..n : Contents[i] \in Element \cup {Blank}
      BY <1>2, <1>3, ElementOfSeq
    <2>2. [i \in 1..n |-> Contents[i]] \in Seq(Element \cup {Blank})
      BY <2>1, <1>1, IsASeq
    <2>3. DOMAIN PeekData(n) = 1..n
      BY <1>4
    <2>4. QED BY <2>2, <2>3, <1>1, <1>4, LenProperties
  <1> DEFINE prefix == SubSeq(Contents, 1, n)
  <1>6. /\ prefix \in Seq(Element \cup {Blank}) /\ Len(prefix) = n
        /\ \A i \in 1..n : prefix[i] = Contents[i]
    <2>1. /\ \A i \in 1..n : Contents[i] \in Element \cup {Blank}
          /\ 1 \in Int /\ n \in Int
      BY <1>1, <1>2, <1>3, ElementOfSeq
    <2>2. /\ SubSeq(Contents, 1, n) \in Seq(Element \cup {Blank})
          /\ Len(SubSeq(Contents, 1, n)) = IF 1 <= n THEN n - 1 + 1 ELSE 0
          /\ \A i \in 1..(n - 1 + 1) : SubSeq(Contents, 1, n)[i] = Contents[1 + i - 1]
      BY <2>1, SubSeqProperties
    <2>3. \A i \in 1..n : i \in 1..(n - 1 + 1) /\ 1 + i - 1 = i
      BY <1>1
    <2>4. QED BY <2>2, <2>3, <1>1
  <1> HIDE DEF prefix
  <1>7. \A i \in 1..Len(PeekData(n)) : PeekData(n)[i] = prefix[i]
    BY <1>4, <1>5, <1>6
  <1>8. PeekData(n) = prefix
    BY <1>5, <1>6, <1>7, SeqEqual
  <1>9. QED BY <1>8 DEF prefix

\* Dequeue keeps the invariant and drops the first n elements.
LEMMA DequeueStep ==
  ASSUME RingInv, NEW n \in Nat, Dequeue(n)
  PROVE  RingInv' /\ n <= length /\ Contents' = SubSeq(Contents, n + 1, length)
  <1>1. /\ Size \in Nat \ {0} /\ head \in 0..(Size - 1) /\ tail \in 0..(Size - 1)
        /\ length \in 0..Size /\ n \in 0..length
        /\ tail = IF head + length < Size THEN head + length ELSE head + length - Size
    BY RingShape DEF Dequeue, CanPeek
  <1>2. data' = data /\ tail' = tail /\ length' = length - n /\ head' = (head + n) % Size
    BY DEF Dequeue
  <1>3. head' = IF head + n < Size THEN head + n ELSE head + n - Size
    <2>1. PICK x \in 0..(2 * Size - 1) : x = head + n
      BY <1>1
    <2>2. x % Size = Wrap(x)
      BY WrapOnce
    <2>3. head' = Wrap(x)
      BY <1>2, <2>1, <2>2, Zenon
    <2>4. QED BY <2>1, <2>3, <1>1 DEF Wrap
  <1>4. IndexAgree'
    <2>1. PICK y \in 0..(2 * Size - 1) : y = head' + length'
      BY <1>1, <1>2, <1>3
    <2>2. y % Size = Wrap(y)
      BY WrapOnce
    <2>3. tail = Wrap(y)
      BY <1>1, <1>2, <1>3, <2>1 DEF Wrap
    <2>4. QED BY <1>2, <2>1, <2>2, <2>3, Zenon DEF IndexAgree
  <1>5. QueueType'
    BY <1>1, <1>2, <1>3 DEF QueueType, RingInv
  <1>6. RingInv'
    BY <1>4, <1>5 DEF RingInv
  <1> DEFINE tl == SubSeq(Contents, n + 1, length)
  <1>7. /\ Contents' \in Seq(Element \cup {Blank}) /\ Len(Contents') = length'
        /\ \A i \in 1..length' : Contents'[i] = data'[CellOf(i)']
    <2>1. (RingInv => /\ Contents \in Seq(Element \cup {Blank})
                      /\ Len(Contents) = length
                      /\ \A i \in 1..length : Contents[i] = data[CellOf(i)])'
      BY ContentsSeq, PTL
    <2>2. QED BY <2>1, <1>6
  <1>8. /\ Contents \in Seq(Element \cup {Blank}) /\ Len(Contents) = length
        /\ \A i \in 1..length : Contents[i] = data[CellOf(i)]
    BY ContentsSeq
  <1>9. /\ tl \in Seq(Element \cup {Blank}) /\ Len(tl) = length - n
        /\ \A i \in 1..(length - n) : tl[i] = Contents[n + i]
    <2>1. /\ \A i \in (n + 1)..length : Contents[i] \in Element \cup {Blank}
          /\ n + 1 \in Int /\ length \in Int
      BY <1>1, <1>8, ElementOfSeq
    <2>2. /\ SubSeq(Contents, n + 1, length) \in Seq(Element \cup {Blank})
          /\ Len(SubSeq(Contents, n + 1, length)) =
               IF n + 1 <= length THEN length - (n + 1) + 1 ELSE 0
          /\ \A i \in 1..(length - (n + 1) + 1) :
               SubSeq(Contents, n + 1, length)[i] = Contents[n + 1 + i - 1]
      BY <2>1, SubSeqProperties
    <2>3. \A i \in 1..(length - n) : i \in 1..(length - (n + 1) + 1) /\ n + 1 + i - 1 = n + i
      BY <1>1
    <2>4. QED BY <2>2, <2>3, <1>1
  <1>10. ASSUME NEW i \in 1..(length - n)
         PROVE  Contents'[i] = tl[i]
    <2>1. n + i \in 1..length /\ n + i \in 1..Size /\ i \in 1..Size
      BY <1>1
    <2>2. CellOf(n + i) = IF head + (n + i) - 1 < Size THEN head + (n + i) - 1
                          ELSE head + (n + i) - 1 - Size
      BY <2>1, CellOfValue
    <2>3. CellOf(i)' = IF head' + i - 1 < Size THEN head' + i - 1 ELSE head' + i - 1 - Size
      <3>1. (RingInv => \A j \in 1..Size : CellOf(j) = IF head + j - 1 < Size THEN head + j - 1
                                                       ELSE head + j - 1 - Size)'
        BY CellOfValues, PTL
      <3>2. QED BY <3>1, <1>6, <2>1
    <2>4. CellOf(i)' = CellOf(n + i)
      BY <2>1, <2>2, <2>3, <1>1, <1>3
    <2>5. Contents'[i] = data[CellOf(n + i)]
      BY <2>4, <1>1, <1>2, <1>7
    <2>6. tl[i] = Contents[n + i]
      BY <1>9
    <2>7. QED BY <2>1, <2>5, <2>6, <1>8
  <1> HIDE DEF tl
  <1>11. Contents' = tl
    <2>1. Len(Contents') = Len(tl) /\ \A i \in 1..Len(Contents') : Contents'[i] = tl[i]
      BY <1>2, <1>7, <1>9, <1>10
    <2>2. QED BY <2>1, <1>7, <1>9, SeqEqual
  <1>12. QED BY <1>1, <1>6, <1>11 DEF tl

\* A write that leaves the cells of the ring alone is not seen.
LEMMA ExtraAreaStep ==
  ASSUME RingInv, NEW from \in Nat, NEW n \in Int, n <= ExtraSize,
         data' = CopyWithin(data, Size, from, n) \/ data' = data,
         from + n <= Size + ExtraSize,
         UNCHANGED <<head, tail, length>>
  PROVE  RingInv' /\ Contents' = Contents
  <1>1. /\ Size \in Nat \ {0} /\ ExtraSize \in Nat /\ length \in 0..Size
        /\ data \in [Cell -> Element \cup {Blank}]
    BY RingShape, QueueAssumption DEF RingInv, QueueType
  <1>2. /\ data' \in [Cell -> Element \cup {Blank}]
        /\ \A c \in 0..(Size - 1) : data'[c] = data[c]
    <2>1. CASE data' = data
      BY <1>1, <2>1
    <2>2. CASE data' = CopyWithin(data, Size, from, n)
      <3>1. ASSUME NEW c \in Cell
            PROVE  (c \in Size..(Size + n - 1) => c - Size + from \in Cell)
        BY <1>1 DEF Cell
      <3>2. /\ data' \in [Cell -> Element \cup {Blank}]
        BY <3>1, <2>2, <1>1 DEF CopyWithin
      <3>3. \A c \in 0..(Size - 1) : c \in Cell /\ c \notin Size..(Size + n - 1)
        BY <1>1 DEF Cell
      <3>4. QED BY <3>2, <3>3, <2>2 DEF CopyWithin
    <2>3. QED BY <2>1, <2>2
  <1>3. RingInv'
    BY <1>2 DEF RingInv, QueueType, IndexAgree
  <1>4. \A i \in 1..length : CellOf(i)' = CellOf(i) /\ CellOf(i) \in 0..(Size - 1)
    <2>1. \A i \in 1..length : i \in 1..Size
      BY <1>1
    <2>2. \A i \in 1..length : CellOf(i) \in 0..(Size - 1)
      BY <2>1, CellOfValue
    <2>3. QED BY <2>2 DEF CellOf
  <1>5. \A i \in 1..length : data'[CellOf(i)'] = data[CellOf(i)]
    BY <1>2, <1>4
  <1>6. Contents' = Contents
    <2>1. Contents' = [i \in 1..length |-> data'[CellOf(i)']]
      BY DEF Contents
    <2>2. QED BY <2>1, <1>5 DEF Contents
  <1>7. QED BY <1>3, <1>6

\* GetReadPtr() leaves what is queued alone.
LEMMA ReadPtrStep ==
  ASSUME RingInv, GetReadPtr
  PROVE  RingInv' /\ Contents' = Contents /\ UNCHANGED <<head, tail, length>>
  <1>1. /\ 0 \in Nat /\ ExtraSize - (Size - head) \in Int /\ ExtraSize - (Size - head) <= ExtraSize
        /\ 0 + (ExtraSize - (Size - head)) <= Size + ExtraSize
    BY RingShape, QueueAssumption
  <1>2. /\ data' = CopyWithin(data, Size, 0, ExtraSize - (Size - head)) \/ data' = data
        /\ UNCHANGED <<head, tail, length>>
    BY DEF GetReadPtr
  <1>3. QED
    BY <1>1, <1>2, ExtraAreaStep

\* Init and Clear leave an empty ring.
LEMMA EmptyRing ==
  ASSUME head = 0, tail = 0, length = 0
  PROVE  IndexAgree /\ Contents = <<>>
  BY QueueAssumption DEF IndexAgree, Contents

\* An empty ring is sound.
LEMMA InitSound == Init => RingInv /\ Fifo!Init
  <1> SUFFICES ASSUME Init PROVE RingInv /\ Fifo!Init
    OBVIOUS
  <1>1. QueueType
    BY QueueAssumption DEF Init, QueueInit, QueueType, Cell
  <1>2. IndexAgree /\ Contents = <<>>
    BY EmptyRing DEF Init, QueueInit
  <1>3. QED
    BY <1>1, <1>2 DEF RingInv, Fifo!Init, Init

\* Every step keeps the invariant and is a step of the abstract queue.
LEMMA StepSound == RingInv /\ [Next]_vars => RingInv' /\ [Fifo!Next]_<<Contents, call>>
  <1> SUFFICES ASSUME RingInv, [Next]_vars
               PROVE  RingInv' /\ [Fifo!Next]_<<Contents, call>>
    OBVIOUS
  <1>0. Len(Contents) = length /\ length \in 0..Size /\ Size \in Nat
    BY ContentsSeq, RingShape
  <1>1. ASSUME NEW xs \in Chunk, Put(xs)
        PROVE  RingInv' /\ [Fifo!Next]_<<Contents, call>>
    <2>1. xs \in Seq(Element) /\ Len(xs) \in Nat
      BY ChunkAssumption, LenProperties
    <2>2. CASE Enqueue(xs) /\ call' = <<"put", xs>>
      <3>1. RingInv' /\ Contents' = Contents \o xs
        BY <2>1, <2>2, EnqueueStep
      <3>2. Len(Contents) + Len(xs) <= Size
        BY <1>0, <2>1, <2>2 DEF Enqueue, GetSpace
      <3>3. Fifo!Put(xs)
        BY <2>2, <3>1, <3>2 DEF Fifo!Put
      <3>4. QED BY <3>1, <3>3 DEF Fifo!Next
    <2>3. CASE GetSpace < Len(xs) /\ call' = <<"refuse", xs>> /\ UNCHANGED qvars
      <3>1. RingInv' /\ Contents' = Contents
        BY <2>3 DEF qvars, RingInv, QueueType, IndexAgree, Contents, CellOf
      <3>2. Len(Contents) + Len(xs) > Size
        BY <1>0, <2>1, <2>3 DEF GetSpace
      <3>3. Fifo!RefusePut(xs)
        BY <2>3, <3>1, <3>2 DEF Fifo!RefusePut
      <3>4. QED BY <3>1, <3>3 DEF Fifo!Next
    <2>4. QED BY <1>1, <2>2, <2>3 DEF Put
  <1>2. ASSUME NEW n \in 0..(Size + 1), Get(n)
        PROVE  RingInv' /\ [Fifo!Next]_<<Contents, call>>
    <2>1. CASE Dequeue(n) /\ call' = <<"get", PeekData(n)>>
      <3>1. n \in Nat
        BY <1>0
      <3>2. RingInv' /\ n <= length /\ Contents' = SubSeq(Contents, n + 1, length)
        BY <2>1, <3>1, DequeueStep
      <3>3. PeekData(n) = SubSeq(Contents, 1, n)
        BY <3>1, <3>2, <1>0, PeekIsPrefix
      <3>4. Fifo!Get(n)
        BY <1>0, <2>1, <3>2, <3>3 DEF Fifo!Get
      <3>5. QED BY <3>2, <3>4 DEF Fifo!Next
    <2>2. CASE ~CanPeek(n) /\ call' = <<"refuse", <<>> >> /\ UNCHANGED qvars
      <3>1. RingInv' /\ Contents' = Contents
        BY <2>2 DEF qvars, RingInv, QueueType, IndexAgree, Contents, CellOf
      <3>2. n > Len(Contents)
        BY <1>0, <2>2 DEF CanPeek
      <3>3. Fifo!RefuseGet(n)
        BY <2>2, <3>1, <3>2 DEF Fifo!RefuseGet
      <3>4. QED BY <3>1, <3>3 DEF Fifo!Next
    <2>3. QED BY <1>2, <2>1, <2>2 DEF Get
  <1>3. CASE Reset
    <2>1. (head = 0 /\ tail = 0 /\ length = 0 => IndexAgree /\ Contents = <<>>)'
      BY EmptyRing, PTL
    <2>2. IndexAgree' /\ Contents' = <<>>
      BY <1>3, <2>1 DEF Reset, Clear
    <2>3. QueueType'
      BY <1>3, QueueAssumption DEF Reset, Clear, RingInv, QueueType
    <2>4. Fifo!Clear
      BY <1>3, <2>2 DEF Reset, Fifo!Clear
    <2>5. QED BY <2>2, <2>3, <2>4 DEF RingInv, Fifo!Next
  <1>4. CASE Look
    BY <1>4, ReadPtrStep DEF Look
  <1>5. ASSUME NEW n \in 0..ExtraSize, LookFar(n)
        PROVE  RingInv' /\ [Fifo!Next]_<<Contents, call>>
    <2>1. n \in Int /\ n <= ExtraSize /\ 0 \in Nat /\ 0 + n <= Size + ExtraSize
      BY RingShape, QueueAssumption
    <2>2. data' = CopyWithin(data, Size, 0, n) /\ UNCHANGED <<head, tail, length>>
      BY <1>5 DEF LookFar, CopyHeadDataToExtraBuffer
    <2>3. RingInv' /\ Contents' = Contents
      BY <2>1, <2>2, ExtraAreaStep
    <2>4. QED BY <1>5, <2>3 DEF LookFar
  <1>6. CASE UNCHANGED vars
    BY <1>6 DEF vars, RingInv, QueueType, IndexAgree, Contents, CellOf
  <1>7. QED
    BY <1>1, <1>2, <1>3, <1>4, <1>5, <1>6 DEF Next

\* The inductive invariant holds in every reachable state.
LEMMA RingInvHolds == Spec => []RingInv
  BY InitSound, StepSound, PTL DEF Spec

\* The cells and counters keep their types for every size of the ring.
THEOREM TypeCorrect == Spec => []TypeOK
  BY RingInvHolds, PTL DEF RingInv, TypeOK

\* Head, tail and length, updated separately, never drift apart
\* (CircuitQueue.h:194-196, 221-223).
THEOREM IndicesAgree == Spec => []IndexAgree
  BY RingInvHolds, PTL DEF RingInv

\* For every capacity, extra area and set of blocks, callers see a bounded
\* first-in first-out queue (CircuitQueue.h:157-276).
THEOREM QueueImplementsFifo == Spec => ImplementsFifo
  BY InitSound, StepSound, RingInvHolds, PTL DEF Spec, ImplementsFifo, Fifo!Spec
=============================================================================
