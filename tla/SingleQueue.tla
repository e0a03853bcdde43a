----------------------------- MODULE SingleQueue -----------------------------
(***************************************************************************)
(* Single_Queue_T: as Single_List_T, with a tail and a size that every     *)
(* call has to keep up with the links.                                     *)
(***************************************************************************)
EXTENDS Links

VARIABLES
  link,                  \* LinkS_T::ptr_ of each object
  head_, tail_, size_,   \* of each queue
  result

vars == <<link, head_, tail_, size_, result>>

Init ==
  /\ link = [x \in Object |-> Free]
  /\ head_ = [l \in List |-> End] /\ tail_ = [l \in List |-> End]
  /\ size_ = [l \in List |-> 0] /\ result = Answer("none", None, None)

Says(op, l, value) == result' = Answer(op, l, value)

Objects(l) == Walk(Object, link, head_[l])

PushFront(l, x) ==
  /\ link[x] = Free
  /\ link' = [link EXCEPT ![x] = head_[l]] /\ head_' = [head_ EXCEPT ![l] = x]
  /\ tail_' = [tail_ EXCEPT ![l] = IF size_[l] = 0 THEN x ELSE @]
  /\ size_' = [size_ EXCEPT ![l] = @ + 1] /\ Says("push_front", l, None)

PushBack(l, x) ==
  /\ link[x] = Free
  /\ IF size_[l] = 0
     THEN link' = [link EXCEPT ![x] = End] /\ head_' = [head_ EXCEPT ![l] = x]
     ELSE link' = [link EXCEPT ![x] = End, ![tail_[l]] = x] /\ UNCHANGED head_
  /\ tail_' = [tail_ EXCEPT ![l] = x]
  /\ size_' = [size_ EXCEPT ![l] = @ + 1] /\ Says("push_back", l, None)

\* pop_front, which pop_back and remove also end in.
TakeFirst(op, l) ==
  /\ head_' = [head_ EXCEPT ![l] = link[head_[l]]]
  /\ tail_' = [tail_ EXCEPT ![l] = IF size_[l] = 1 THEN link[head_[l]] ELSE @]
  /\ link' = [link EXCEPT ![head_[l]] = Free]
  /\ size_' = [size_ EXCEPT ![l] = @ - 1] /\ Says(op, l, head_[l])

\* The end of pop_back, when there are two objects or more.
TakeLast(op, l) ==
  LET xprev == Objects(l)[Len(Objects(l)) - 1] IN
  /\ link' = [link EXCEPT ![xprev] = End, ![tail_[l]] = Free]
  /\ tail_' = [tail_ EXCEPT ![l] = xprev]
  /\ size_' = [size_ EXCEPT ![l] = @ - 1] /\ Says(op, l, tail_[l])
  /\ UNCHANGED head_

PopFront(l) == head_[l] # End /\ TakeFirst("pop_front", l)

PopBack(l) ==
  /\ head_[l] # End
  /\ IF size_[l] <= 1 THEN TakeFirst("pop_back", l) ELSE TakeLast("pop_back", l)

PopEmpty(l) ==
  /\ head_[l] = End /\ UNCHANGED <<link, head_, tail_, size_>>
  /\ \E op \in {"pop_front", "pop_back"} : Says(op, l, None)

\* The first and the last one are popped, another one is looked for.
RemoveFrom(l, x) ==
  IF head_[l] = x THEN TakeFirst("remove", l)
  ELSE IF tail_[l] = x THEN TakeLast("remove", l)
  ELSE \E i \in DOMAIN Objects(l) :
         /\ Objects(l)[i] = x
         /\ link' = [link EXCEPT ![Objects(l)[i - 1]] = link[x], ![x] = Free]
         /\ size_' = [size_ EXCEPT ![l] = @ - 1] /\ UNCHANGED <<head_, tail_>>
         /\ Says("remove", l, x)

RemoveOther(l, x) ==
  /\ ~Contains(Objects(l), x) /\ tail_[l] # x /\ Says("remove", l, None)
  /\ UNCHANGED <<link, head_, tail_, size_>>

Ask(l) ==
  /\ UNCHANGED <<link, head_, tail_, size_>>
  /\ \/ Says("front", l, IF size_[l] = 0 THEN None ELSE head_[l])
     \/ Says("back", l, IF size_[l] = 0 THEN None ELSE tail_[l])
     \/ Says("size", l, size_[l])
     \/ Says("++", l, Objects(l))
     \/ \E x \in Object : Says("find", l, IF Contains(Objects(l), x) THEN x ELSE None)

Swap(l, m) ==
  /\ head_' = [head_ EXCEPT ![l] = head_[m], ![m] = head_[l]]
  /\ tail_' = [tail_ EXCEPT ![l] = tail_[m], ![m] = tail_[l]]
  /\ size_' = [size_ EXCEPT ![l] = size_[m], ![m] = size_[l]]
  /\ UNCHANGED link /\ Says("swap", l, None)

\* Mutant: other may be this queue.
SpliceSame(l, m) ==
  /\ IF size_[m] = 0 THEN UNCHANGED <<link, head_, tail_, size_>>
     ELSE /\ IF size_[l] = 0 THEN head_' = [head_ EXCEPT ![l] = head_[m], ![m] = End] /\ UNCHANGED link
             ELSE /\ link' = [link EXCEPT ![tail_[l]] = head_[m]]
                  /\ head_' = [head_ EXCEPT ![m] = End]
          /\ tail_' = [tail_ EXCEPT ![l] = tail_[m], ![m] = End]
          /\ size_' = [size_ EXCEPT ![l] = @ + size_[m], ![m] = 0]
  /\ Says("splice", l, None)

\* splice(other): nothing if other is empty or is this queue.
Splice(l, m) ==
  /\ IF size_[m] = 0 \/ (size_[l] # 0 /\ head_[l] = head_[m]) THEN UNCHANGED <<link, head_, tail_, size_>>
     ELSE /\ IF size_[l] = 0 THEN head_' = [head_ EXCEPT ![l] = head_[m], ![m] = End] /\ UNCHANGED link
             ELSE /\ link' = [link EXCEPT ![tail_[l]] = head_[m]]
                  /\ head_' = [head_ EXCEPT ![m] = End]
          /\ tail_' = [tail_ EXCEPT ![l] = tail_[m], ![m] = End]
          /\ size_' = [size_ EXCEPT ![l] = @ + size_[m], ![m] = 0]
  /\ Says("splice", l, None)

Next ==
  \E l \in List :
    \/ PopFront(l) \/ PopBack(l) \/ PopEmpty(l) \/ Ask(l)
    \/ \E m \in List : Swap(l, m) \/ Splice(l, m)
    \/ \E x \in Object : PushFront(l, x) \/ PushBack(l, x) \/ RemoveFrom(l, x) \/ RemoveOther(l, x)

Spec == Init /\ [][Next]_vars

-----------------------------------------------------------------------------
\* A queue ends at its tail, also when it is empty and after calls that only
\* touch the front (Single_List_T.h:612-615, 676-679, 706, 807).
TailRight ==
  \A l \in List : tail_[l] = IF Objects(l) = <<>> THEN End ELSE Last(Objects(l))
=============================================================================
