---------------------------- MODULE SessionLists ----------------------------
(***************************************************************************)
(* What the threads of Network/SyncHandler.cpp do to the session lists,    *)
(* and nothing else: a session moves from one list to the end of another,  *)
(* or a list is appended to another.  The links are inside the sessions    *)
(* (Session : LinkD_T<Session>), so a session on two lists corrupts both.  *)
(***************************************************************************)
EXTENDS Naturals, Sequences

CONSTANTS
  Session,
  Place          \* the lists, and the threads that hold a session

VARIABLE list    \* list[p]: the sessions of p, in order

\* Nobody is in two places, and nobody is lost.
Exclusive(l) ==
  \A p, q \in Place : \A i \in 1..Len(l[p]), j \in 1..Len(l[q]) :
    l[p][i] = l[q][j] => p = q /\ i = j

Complete(l) == \A s \in Session : \E p \in Place : \E i \in 1..Len(l[p]) : l[p][i] = s

Placed(l) ==
  /\ l \in [Place -> Seq(Session)]
  /\ Exclusive(l)
  /\ Complete(l)

Init == Placed(list)

\* l without its i-th element.
Without(l, i) == [j \in 1..(Len(l) - 1) |-> IF j < i THEN l[j] ELSE l[j + 1]]

\* list.remove(it), or pop_front() when i = 1, and push_back() elsewhere.
Moved(l, p, i, q) ==
  [l EXCEPT ![p] = Without(l[p], i), ![q] = Append(l[q], l[p][i])]

\* q.splice(p)
Spliced(l, p, q) == [l EXCEPT ![p] = <<>>, ![q] = l[q] \o l[p]]

Move(p, q) ==
  /\ p # q
  /\ \E i \in 1..Len(list[p]) : list' = Moved(list, p, i, q)

Splice(p, q) == p # q /\ list' = Spliced(list, p, q)

Next == \E p, q \in Place : Move(p, q) \/ Splice(p, q)

Spec == Init /\ [][Next]_list
=============================================================================
