----------------------------- MODULE DoubleList -----------------------------
(***************************************************************************)
(* Double_List_T, the list of the sessions: links in both directions, and  *)
(* iterators that name a list and an object of it.                         *)
(***************************************************************************)
EXTENDS Links

VARIABLES
  next_, prev_,          \* the links of each object
  head_, tail_, size_,   \* of each list
  cleared,               \* objects that were in a list when it was cleared
  result

linkVars == <<next_, prev_>>
listVars == <<head_, tail_, size_>>
vars == <<linkVars, listVars, cleared, result>>

Init ==
  /\ next_ = [x \in Object |-> Free] /\ prev_ = [x \in Object |-> Free]
  /\ head_ = [l \in List |-> End] /\ tail_ = [l \in List |-> End]
  /\ size_ = [l \in List |-> 0] /\ cleared = {} /\ result = Answer("none", None, None)

Says(op, l, value) == result' = Answer(op, l, value)

Objects(l) == Walk(Object, next_, head_[l])

Backwards(l) == Walk(Object, prev_, tail_[l])

\* insert_impl: x is put before x2, or at the end; it answers with an iterator
\* of x.
InsertImpl(op, l, x, x2) ==
  LET x1 == IF x2 = End THEN tail_[l] ELSE prev_[x2] IN
  /\ next_[x] = Free /\ prev_[x] = Free
  /\ next_' = [y \in Object |-> IF y = x THEN x2 ELSE IF y = x1 THEN x ELSE next_[y]]
  /\ prev_' = [y \in Object |-> IF y = x THEN x1 ELSE IF y = x2 THEN x ELSE prev_[y]]
  /\ head_' = [head_ EXCEPT ![l] = IF x1 = End THEN x ELSE @]
  /\ tail_' = [tail_ EXCEPT ![l] = IF x2 = End THEN x ELSE @]
  /\ size_' = [size_ EXCEPT ![l] = @ + 1]
  /\ Says(op, l, x) /\ UNCHANGED cleared

\* remove_impl.
RemoveImpl(op, l, x) ==
  LET x1 == prev_[x]
      x2 == next_[x]
  IN
  /\ next_' = [y \in Object |-> IF y = x THEN Free ELSE IF y = x1 THEN x2 ELSE next_[y]]
  /\ prev_' = [y \in Object |-> IF y = x THEN Free ELSE IF y = x2 THEN x1 ELSE prev_[y]]
  /\ head_' = [head_ EXCEPT ![l] = IF x1 = End THEN x2 ELSE @]
  /\ tail_' = [tail_ EXCEPT ![l] = IF x2 = End THEN x1 ELSE @]
  /\ size_' = [size_ EXCEPT ![l] = @ - 1]
  /\ Says(op, l, x) /\ UNCHANGED cleared

PushFront(l, x) == InsertImpl("push_front", l, x, head_[l])

PushBack(l, x) == InsertImpl("push_back", l, x, End)

\* insert(x, where), with an iterator of this list that is valid.
InsertBefore(l, x, where) == Contains(Objects(l), where) /\ InsertImpl("insert", l, x, where)

PopFront(l) == head_[l] # End /\ RemoveImpl("pop_front", l, head_[l])

PopBack(l) == tail_[l] # End /\ RemoveImpl("pop_back", l, tail_[l])

PopEmpty(l) ==
  /\ head_[l] = End /\ UNCHANGED <<linkVars, listVars, cleared>>
  /\ \E op \in {"pop_front", "pop_back"} : Says(op, l, None)

\* remove(itr), and itr.remove(), with a valid iterator of this list,
RemoveFrom(l, x) == Contains(Objects(l), x) /\ RemoveImpl("remove", l, x)

\* or with one of another list.
RemoveOther(l, x) ==
  /\ \E m \in List \ {l} : Contains(Objects(m), x)
  /\ Says("remove", l, None) /\ UNCHANGED <<linkVars, listVars, cleared>>

\* front, back, size, and the iterators up and down the list.
Ask(l) ==
  /\ UNCHANGED <<linkVars, listVars, cleared>>
  /\ \/ Says("front", l, IF size_[l] = 0 THEN None ELSE head_[l])
     \/ Says("back", l, IF size_[l] = 0 THEN None ELSE tail_[l])
     \/ Says("size", l, size_[l])
     \/ Says("++", l, Objects(l))
     \/ Says("--", l, Backwards(l))

SwapLists(l, m) ==
  /\ head_' = [head_ EXCEPT ![l] = head_[m], ![m] = head_[l]]
  /\ tail_' = [tail_ EXCEPT ![l] = tail_[m], ![m] = tail_[l]]
  /\ size_' = [size_ EXCEPT ![l] = size_[m], ![m] = size_[l]]
  /\ UNCHANGED <<linkVars, cleared>>

Swap(l, m) == SwapLists(l, m) /\ Says("swap", l, None)

JoinLists(l, m) ==
  /\ next_' = [next_ EXCEPT ![tail_[l]] = head_[m]]
  /\ prev_' = [prev_ EXCEPT ![head_[m]] = tail_[l]]
  /\ head_' = [head_ EXCEPT ![m] = End]
  /\ tail_' = [tail_ EXCEPT ![l] = tail_[m], ![m] = End]
  /\ size_' = [size_ EXCEPT ![l] = @ + size_[m], ![m] = 0]
  /\ UNCHANGED cleared

Splice(l, m) ==
  /\ Says("splice", l, None)
  /\ \/ (l = m \/ size_[m] = 0) /\ UNCHANGED <<linkVars, listVars, cleared>>
     \/ l # m /\ size_[m] # 0 /\ size_[l] = 0 /\ SwapLists(l, m)
     \/ l # m /\ size_[m] # 0 /\ size_[l] # 0 /\ JoinLists(l, m)

\* clear: the objects keep their links.
Clear(l) ==
  /\ cleared' = cleared \union ToSet(Objects(l))
  /\ head_' = [head_ EXCEPT ![l] = End] /\ tail_' = [tail_ EXCEPT ![l] = End]
  /\ size_' = [size_ EXCEPT ![l] = 0]
  /\ UNCHANGED linkVars /\ Says("clear", l, None)

Next ==
  \E l \in List :
    \/ PopFront(l) \/ PopBack(l) \/ PopEmpty(l) \/ Ask(l) \/ Clear(l)
    \/ \E m \in List : Swap(l, m) \/ Splice(l, m)
    \/ \E x \in Object : PushFront(l, x) \/ PushBack(l, x) \/ RemoveFrom(l, x) \/ RemoveOther(l, x)
    \/ \E x, y \in Object : InsertBefore(l, x, y)

Spec == Init /\ [][Next]_vars

-----------------------------------------------------------------------------
\* An object may be pushed again exactly when it has left its list by
\* anything but clear, which frees no link (Double_List_T.h:321, 347, 487-494).
FreeIffOut ==
  \A x \in Object :
    (next_[x] = Free /\ prev_[x] = Free)
      <=> x \notin cleared /\ \A l \in List : ~Contains(Objects(l), x)

\* Going back from the tail one meets what one meets going forward from the
\* head, so that an object can be taken out by its own links alone
\* (Double_List_T.h:316-331, 349-366, 474-479).
BothWays == \A l \in List : Backwards(l) = Reverse(Objects(l)) /\ size_[l] = Len(Objects(l))
=============================================================================
