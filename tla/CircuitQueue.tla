---------------------------- MODULE CircuitQueue ----------------------------
(***************************************************************************)
(* Common/CircuitQueue.h: a ring of m_nSize cells followed by an extra     *)
(* area of m_nExtraSize cells, into which the start of the ring is copied  *)
(* so that a block that wraps round can be read in one piece.              *)
(* Every method takes the queue's recursive mutex, so each is one step.    *)
(***************************************************************************)
EXTENDS Integers, Sequences

CONSTANTS
  Element,       \* what a cell holds
  Blank,         \* the content of a cell never written
  Size,          \* m_nSize
  ExtraSize      \* m_nExtraSize

ASSUME QueueAssumption ==
  /\ Size \in Nat \ {0}
  /\ ExtraSize \in Nat
  /\ Blank \notin Element

VARIABLES
  data,          \* m_pData
  head,          \* m_nHead
  tail,          \* m_nTail
  length         \* m_nLength

qvars == <<data, head, tail, length>>

-----------------------------------------------------------------------------
Cell == 0..(Size + ExtraSize - 1)

QueueInit ==
  /\ data = [c \in Cell |-> Blank]
  /\ head = 0
  /\ tail = 0
  /\ length = 0

GetSpace == Size - length

GetBackDataCount == Size - head

\* The cells that can be read, or written, in one piece.
GetReadableLen ==
  IF head = tail THEN IF length > 0 THEN Size - head ELSE 0
  ELSE IF head < tail THEN tail - head ELSE Size - head

GetWritableLen ==
  IF head = tail THEN IF length > 0 THEN 0 ELSE Size - tail
  ELSE IF head < tail THEN Size - tail ELSE head - tail

\* memcpy of n cells to `to' from src, a function on 1..n.
CopyIn(d, to, src, n) ==
  [c \in Cell |-> IF c \in to..(to + n - 1) THEN src[c - to + 1] ELSE d[c]]

\* memcpy of n cells within m_pData.
CopyWithin(d, to, from, n) ==
  [c \in Cell |-> IF c \in to..(to + n - 1) THEN d[c - to + from] ELSE d[c]]

\* Mutant: a block that does not fit before the end is written through it.
StoreThrough(xs) == CopyIn(data, tail, xs, Len(xs))

\* The writing part of Enqueue for a pSrc that is not NULL.
Store(xs) ==
  LET n    == Len(xs)
      back == Size - tail
  IN  IF head <= tail /\ back < n
      THEN CopyIn(CopyIn(data, tail, xs, back), 0, SubSeq(xs, back + 1, n), n - back)
      ELSE CopyIn(data, tail, xs, n)

\* Mutant: the tail is not wrapped round.
AdvanceStraight(n) ==
  /\ tail' = tail + n
  /\ length' = length + n
  /\ UNCHANGED head

Advance(n) ==
  /\ tail' = (tail + n) % Size
  /\ length' = length + n
  /\ UNCHANGED head

\* Enqueue(pSrc, n) that succeeds; it changes nothing when GetSpace < n.
Enqueue(xs) ==
  /\ GetSpace >= Len(xs)
  /\ data' = Store(xs)
  /\ Advance(Len(xs))

\* Enqueue(NULL, n): the cells were filled in place, through GetWritePtr.
EnqueueInPlace(n) ==
  /\ GetSpace >= n
  /\ Advance(n)
  /\ UNCHANGED data

\* recv(GetWritePtr(), n <= GetWritableLen()): a socket read into the ring,
\* outside the queue's mutex and ahead of the Enqueue(NULL, n).
Deposit(xs) ==
  /\ Len(xs) <= GetWritableLen
  /\ data' = CopyIn(data, tail, xs, Len(xs))
  /\ UNCHANGED <<head, tail, length>>

\* What Peek(pTar, n) copies out, when it succeeds.
PeekData(n) ==
  IF head < tail \/ GetBackDataCount >= n
  THEN [i \in 1..n |-> data[head + i - 1]]
  ELSE [i \in 1..n |-> IF i <= GetBackDataCount
                       THEN data[head + i - 1]
                       ELSE data[i - GetBackDataCount - 1]]

CanPeek(n) == length >= n

\* Dequeue(pTar, n) that succeeds.
Dequeue(n) ==
  /\ CanPeek(n)
  /\ head' = (head + n) % Size
  /\ length' = length - n
  /\ UNCHANGED <<data, tail>>

\* Mutant: the tail is left where it was.
ClearHead ==
  /\ head' = 0
  /\ length' = 0
  /\ UNCHANGED <<data, tail>>

Clear ==
  /\ head' = 0
  /\ tail' = 0
  /\ length' = 0
  /\ UNCHANGED data

\* GetReadPtr() returns m_pData + head; a ring that wraps has its start copied
\* to the extra area first.
GetReadPtr ==
  LET split == Size - head
  IN  /\ data' = IF head > tail /\ split < ExtraSize
                 THEN CopyWithin(data, Size, 0, ExtraSize - split)
                 ELSE data
      /\ UNCHANGED <<head, tail, length>>

\* CopyHeadDataToExtraBuffer(n), for n within its assertion.
CopyHeadDataToExtraBuffer(n) ==
  /\ n <= ExtraSize
  /\ data' = CopyWithin(data, Size, 0, n)
  /\ UNCHANGED <<head, tail, length>>

-----------------------------------------------------------------------------
QueueType ==
  /\ data \in [Cell -> Element \cup {Blank}]
  /\ head \in 0..(Size - 1)
  /\ tail \in 0..(Size - 1)
  /\ length \in 0..Size

\* The three counters agree: the tail is length cells after the head
\* (CircuitQueue.h:194-196, 221-223 update them separately).
IndexAgree == tail = (head + length) % Size

\* The cell of the i-th queued element, and the queued elements in order.
CellOf(i) == (head + i - 1) % Size

Contents == [i \in 1..length |-> data[CellOf(i)]]
=============================================================================
