----------------------------- MODULE BoundedFifo -----------------------------
(***************************************************************************)
(* What the users of Common/CircuitQueue.h rely on: a first-in first-out   *)
(* queue of at most Size elements, filled and drained several elements at  *)
(* a time, all or nothing.  `call' is what the caller sees of its last     *)
(* call: the operation, and the elements that went in or came out.         *)
(***************************************************************************)
EXTENDS Naturals, Sequences

CONSTANTS
  Chunk,         \* the blocks of elements callers enqueue
  Size           \* the capacity

VARIABLES queue, call

Init == queue = <<>> /\ call = <<"none", <<>> >>

Put(xs) ==
  /\ Len(queue) + Len(xs) <= Size
  /\ queue' = queue \o xs
  /\ call' = <<"put", xs>>

RefusePut(xs) ==
  /\ Len(queue) + Len(xs) > Size
  /\ call' = <<"refuse", xs>>
  /\ UNCHANGED queue

Get(n) ==
  /\ n <= Len(queue)
  /\ call' = <<"get", SubSeq(queue, 1, n)>>
  /\ queue' = SubSeq(queue, n + 1, Len(queue))

RefuseGet(n) ==
  /\ n > Len(queue)
  /\ call' = <<"refuse", <<>> >>
  /\ UNCHANGED queue

Clear ==
  /\ queue' = <<>>
  /\ call' = <<"clear", <<>> >>

Next ==
  \/ \E xs \in Chunk : Put(xs) \/ RefusePut(xs)
  \/ \E n \in 0..(Size + 1) : Get(n) \/ RefuseGet(n)
  \/ Clear

Spec == Init /\ [][Next]_<<queue, call>>
=============================================================================
