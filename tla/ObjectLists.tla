----------------------------- MODULE ObjectLists -----------------------------
(***************************************************************************)
(* What the list templates of Utility promise: each list is a sequence, an *)
(* object is in one list or in none, and every call answers with what the  *)
(* sequence says.                                                          *)
(***************************************************************************)
EXTENDS Walks

CONSTANTS Object, List, None

VARIABLES
  list,     \* the sequence of each list
  result    \* the last call, its list, and what it returned

vars == <<list, result>>

Answer(op, l, value) == [op |-> op, of |-> l, value |-> value]

Init == list = [l \in List |-> <<>>] /\ result = Answer("none", None, None)

Nowhere(x) == \A l \in List : ~Contains(list[l], x)

Says(op, l, value) == result' = Answer(op, l, value)

Insert(op, l, i, x, value) ==
  /\ Nowhere(x)
  /\ list' = [list EXCEPT ![l] = InsertAt(@, i, x)] /\ Says(op, l, value)

Delete(op, l, i) ==
  /\ i \in DOMAIN list[l]
  /\ list' = [list EXCEPT ![l] = RemoveAt(@, i)] /\ Says(op, l, list[l][i])

Ask(op, l, value) == Says(op, l, value) /\ UNCHANGED list

\* A push answers with an iterator of what was pushed, or with nothing.
PushFront(l, x) == \E itr \in {x, None} : Insert("push_front", l, 1, x, itr)
PushBack(l, x) == \E itr \in {x, None} : Insert("push_back", l, Len(list[l]) + 1, x, itr)
InsertBefore(l, i, x) == Insert("insert", l, i, x, x)

PopFront(l) == Delete("pop_front", l, 1)
PopBack(l) == Delete("pop_back", l, Len(list[l]))
PopEmpty(l) == list[l] = <<>> /\ \E op \in {"pop_front", "pop_back"} : Ask(op, l, None)
RemoveFrom(l, x) == \E i \in DOMAIN list[l] : list[l][i] = x /\ Delete("remove", l, i)
RemoveOther(l, x) == ~Contains(list[l], x) /\ Ask("remove", l, None)

First(l) == Ask("front", l, IF list[l] = <<>> THEN None ELSE Head(list[l]))
Back(l) == Ask("back", l, IF list[l] = <<>> THEN None ELSE Last(list[l]))
Size(l) == Ask("size", l, Len(list[l]))
Find(l, x) == Ask("find", l, IF Contains(list[l], x) THEN x ELSE None)
Forward(l) == Ask("++", l, list[l])
Backward(l) == Ask("--", l, Reverse(list[l]))

Swap(l, m) ==
  /\ list' = [list EXCEPT ![l] = list[m], ![m] = list[l]] /\ Says("swap", l, None)

Splice(l, m) ==
  /\ list' = IF l = m THEN list ELSE [list EXCEPT ![l] = list[l] \o list[m], ![m] = <<>>]
  /\ Says("splice", l, None)

Clear(l) == list' = [list EXCEPT ![l] = <<>>] /\ Says("clear", l, None)

Next ==
  \E l \in List :
    \/ PopFront(l) \/ PopBack(l) \/ PopEmpty(l)
    \/ First(l) \/ Back(l) \/ Size(l) \/ Forward(l) \/ Backward(l) \/ Clear(l)
    \/ \E m \in List : Swap(l, m) \/ Splice(l, m)
    \/ \E x \in Object : PushFront(l, x) \/ PushBack(l, x) \/ RemoveFrom(l, x) \/ RemoveOther(l, x) \/ Find(l, x)
    \/ \E x \in Object, i \in DOMAIN list[l] : InsertBefore(l, i, x)

Spec == Init /\ [][Next]_vars
=============================================================================
