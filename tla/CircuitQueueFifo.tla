-------------------------- MODULE CircuitQueueFifo --------------------------
(***************************************************************************)
(* A CircuitQueue under any sequence of calls, and the queue its callers   *)
(* see.  `call' shows what a caller put in or got out.                     *)
(***************************************************************************)
EXTENDS CircuitQueue

CONSTANT Chunk           \* the blocks of elements callers enqueue

ASSUME ChunkAssumption == Chunk \subseteq Seq(Element)

VARIABLE call

vars == <<data, head, tail, length, call>>

Init == QueueInit /\ call = <<"none", <<>> >>

\* Enqueue(pSrc, nSize), CircuitQueue.h:157.
Put(xs) ==
  \/ Enqueue(xs) /\ call' = <<"put", xs>>
  \/ /\ GetSpace < Len(xs)
     /\ call' = <<"refuse", xs>>
     /\ UNCHANGED qvars

\* Dequeue(pTar, nSize), CircuitQueue.h:211.
Get(n) ==
  \/ Dequeue(n) /\ call' = <<"get", PeekData(n)>>
  \/ /\ ~CanPeek(n)
     /\ call' = <<"refuse", <<>> >>
     /\ UNCHANGED qvars

Reset == Clear /\ call' = <<"clear", <<>> >>

\* A reader that takes the data in place; the extra area is all that changes.
Look == GetReadPtr /\ UNCHANGED call

LookFar(n) == CopyHeadDataToExtraBuffer(n) /\ UNCHANGED call

Next ==
  \/ \E xs \in Chunk : Put(xs)
  \/ \E n \in 0..(Size + 1) : Get(n)
  \/ Reset
  \/ Look
  \/ \E n \in 0..ExtraSize : LookFar(n)

Spec == Init /\ [][Next]_vars

-----------------------------------------------------------------------------
TypeOK == QueueType

Fifo == INSTANCE BoundedFifo WITH queue <- Contents

\* The ring is a bounded first-in first-out queue: splits at the end of the
\* ring, the full and the empty queue (both head = tail) and reads in place
\* never show (CircuitQueue.h:157-276).
ImplementsFifo == Fifo!Spec
=============================================================================
