----------------------------- MODULE SingleList -----------------------------
(***************************************************************************)
(* Single_List_T: a head and the links inside the objects; whatever needs  *)
(* the end of the list walks to it.                                        *)
(***************************************************************************)
EXTENDS Links

VARIABLES
  link,     \* LinkS_T::ptr_ of each object
  head_,    \* of each list
  result

vars == <<link, head_, result>>

Init ==
  /\ link = [x \in Object |-> Free] /\ head_ = [l \in List |-> End]
  /\ result = Answer("none", None, None)

Says(op, l, value) == result' = Answer(op, l, value)

Objects(l) == Walk(Object, link, head_[l])

\* linkLast: the link that is_end(), set to x.
AtEnd(l, p, x) ==
  IF p = <<>> THEN head_' = [head_ EXCEPT ![l] = x] /\ link' = [link EXCEPT ![x] = End]
  ELSE link' = [link EXCEPT ![Last(p)] = x, ![x] = End] /\ UNCHANGED head_

PushFront(l, x) ==
  /\ link[x] = Free
  /\ link' = [link EXCEPT ![x] = head_[l]] /\ head_' = [head_ EXCEPT ![l] = x]
  /\ Says("push_front", l, None)

PushBack(l, x) ==
  /\ link[x] = Free /\ AtEnd(l, Objects(l), x)
  /\ Says("push_back", l, None)

\* Mutant: the object keeps its link.
PopFrontKeeps(l) ==
  /\ head_[l] # End
  /\ head_' = [head_ EXCEPT ![l] = link[head_[l]]]
  /\ UNCHANGED link
  /\ Says("pop_front", l, head_[l])

PopFront(l) ==
  /\ head_[l] # End
  /\ head_' = [head_ EXCEPT ![l] = link[head_[l]]]
  /\ link' = [link EXCEPT ![head_[l]] = Free]
  /\ Says("pop_front", l, head_[l])

PopEmpty(l) ==
  /\ head_[l] = End /\ UNCHANGED <<link, head_>>
  /\ \E op \in {"pop_front", "pop_back"} : Says(op, l, None)

PopBack(l) ==
  /\ head_[l] # End
  /\ LET p == Objects(l) IN
     /\ IF Len(p) = 1 THEN head_' = [head_ EXCEPT ![l] = End] /\ link' = [link EXCEPT ![p[1]] = Free]
        ELSE /\ link' = [link EXCEPT ![p[Len(p) - 1]] = End, ![Last(p)] = Free]
             /\ UNCHANGED head_
     /\ Says("pop_back", l, Last(p))

\* The walk finds x, and the link that leads to it skips it,
RemoveFrom(l, x) ==
  /\ \E i \in DOMAIN Objects(l) :
       /\ Objects(l)[i] = x
       /\ IF i = 1 THEN head_' = [head_ EXCEPT ![l] = link[x]] /\ link' = [link EXCEPT ![x] = Free]
          ELSE /\ link' = [link EXCEPT ![Objects(l)[i - 1]] = link[x], ![x] = Free]
               /\ UNCHANGED head_
  /\ Says("remove", l, x)

\* or comes to the end.
RemoveOther(l, x) ==
  /\ ~Contains(Objects(l), x) /\ Says("remove", l, None) /\ UNCHANGED <<link, head_>>

Ask(l) ==
  /\ UNCHANGED <<link, head_>>
  /\ \/ Says("front", l, OrNone(head_[l]))
     \/ Says("back", l, IF Objects(l) = <<>> THEN None ELSE Last(Objects(l)))
     \/ Says("size", l, Len(Objects(l)))
     \/ Says("++", l, Objects(l))
     \/ \E x \in Object : Says("find", l, IF Contains(Objects(l), x) THEN x ELSE None)

Swap(l, m) ==
  /\ head_' = [head_ EXCEPT ![l] = head_[m], ![m] = head_[l]]
  /\ UNCHANGED link /\ Says("swap", l, None)

\* splice(other): nothing if other is empty or is this list; the end is linked
\* to its first object, and other swaps with an empty list.
Splice(l, m) ==
  /\ IF head_[m] = End \/ head_[l] = head_[m] THEN UNCHANGED <<link, head_>>
     ELSE IF head_[l] = End THEN head_' = [head_ EXCEPT ![l] = head_[m], ![m] = End] /\ UNCHANGED link
     ELSE /\ link' = [link EXCEPT ![Last(Objects(l))] = head_[m]]
          /\ head_' = [head_ EXCEPT ![m] = End]
  /\ Says("splice", l, None)

Next ==
  \E l \in List :
    \/ PopFront(l) \/ PopBack(l) \/ PopEmpty(l) \/ Ask(l)
    \/ \E m \in List : Swap(l, m) \/ Splice(l, m)
    \/ \E x \in Object : PushFront(l, x) \/ PushBack(l, x) \/ RemoveFrom(l, x) \/ RemoveOther(l, x)

Spec == Init /\ [][Next]_vars

-----------------------------------------------------------------------------
\* An object may be pushed again exactly when it has left its list: is_free()
\* is what the assertions of push_front and push_back ask
\* (Single_List_T.h:247, 260, 332, 360, 415).
FreeIffOut ==
  \A x \in Object : link[x] = Free <=> \A l \in List : ~Contains(Objects(l), x)
=============================================================================
