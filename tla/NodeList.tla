------------------------------ MODULE NodeList ------------------------------
(***************************************************************************)
(* CLinkedlist, the list behind the queries of HyDatabase: nodes from a    *)
(* pool, linked both ways, which positions (POS) of the caller point to.   *)
(***************************************************************************)
EXTENDS Walks

CONSTANTS
  Element,     \* the elements that are added, each in the list once at most
  Node,        \* bound: the nodes of the pool
  Null,
  Calls        \* the calls that the caller makes

VARIABLES
  m_pHead, m_pTail, m_nCount,
  pNext, pPrev, pElement,   \* of each node
  free,                     \* the nodes in m_pNodePool
  pos,                      \* a position that the caller holds
  result                    \* what the last call returned

linkVars == <<pNext, pPrev, pElement>>
endVars == <<m_pHead, m_pTail, m_nCount>>
vars == <<linkVars, endVars, free, pos, result>>

Init ==
  /\ m_pHead = Null /\ m_pTail = Null /\ m_nCount = 0
  /\ pNext = [n \in Node |-> Null] /\ pPrev = [n \in Node |-> Null]
  /\ pElement = [n \in Node |-> Null]
  /\ free = Node /\ pos = Null /\ result = Null

\* The nodes from the head on.
Nodes == Walk(Node, pNext, m_pHead)

Elements == [i \in DOMAIN Nodes |-> pElement[Nodes[i]]]

\* What an index leads to: the node, or NULL past the end.
NodeAt(index) == IF index < Len(Nodes) THEN Nodes[index + 1] ELSE Null

Unused(x) == \A n \in Node : pElement[n] # x

-----------------------------------------------------------------------------
\* m_pNodePool->Alloc(), with the element in it, between two nodes, and the
\* two nodes with the new one beside them.
Linked(n, x, prv, next) ==
  /\ free' = free \ {n} /\ pElement' = [pElement EXCEPT ![n] = x]
  /\ pNext' = [m \in Node |-> IF m = n THEN next ELSE IF m = prv THEN n ELSE pNext[m]]
  /\ pPrev' = [m \in Node |-> IF m = n THEN prv ELSE IF m = next THEN n ELSE pPrev[m]]
  /\ m_nCount' = m_nCount + 1 /\ result' = Null

AddHead(x) ==
  \E n \in free :
    /\ "AddHead" \in Calls /\ Unused(x) /\ Linked(n, x, Null, m_pHead)
    /\ m_pHead' = n /\ m_pTail' = (IF m_pHead = Null THEN n ELSE m_pTail) /\ UNCHANGED pos

\* Mutant: the new tail does not know its predecessor.
AddTailForward(x) ==
  \E n \in free :
    /\ "AddTail" \in Calls /\ Unused(x)
    /\ free' = free \ {n} /\ pElement' = [pElement EXCEPT ![n] = x]
    /\ pNext' = [m \in Node |-> IF m = n THEN Null ELSE IF m = m_pTail THEN n ELSE pNext[m]]
    /\ pPrev' = [pPrev EXCEPT ![n] = Null]
    /\ m_nCount' = m_nCount + 1 /\ result' = Null
    /\ m_pTail' = n /\ m_pHead' = (IF m_pTail = Null THEN n ELSE m_pHead) /\ UNCHANGED pos

AddTail(x) ==
  \E n \in free :
    /\ "AddTail" \in Calls /\ Unused(x) /\ Linked(n, x, m_pTail, Null)
    /\ m_pTail' = n /\ m_pHead' = (IF m_pTail = Null THEN n ELSE m_pHead) /\ UNCHANGED pos

\* InsertBefore, at an index that there is.
InsertBefore(x, index) ==
  /\ "InsertBefore" \in Calls /\ index \in 1..(Len(Nodes) - 1)
  /\ \E n \in free : Unused(x) /\ Linked(n, x, NodeAt(index - 1), NodeAt(index))
  /\ UNCHANGED <<m_pHead, m_pTail, pos>>

\* InsertpAfter, at an index that there is and that is neither the first nor
\* the last one: pAfter, whose pPrev is set, is the node before.
InsertpAfter(x, index) ==
  /\ "InsertpAfter" \in Calls /\ index \in 1..(Len(Nodes) - 2)
  /\ \E n \in free :
       /\ Unused(x)
       /\ free' = free \ {n} /\ pElement' = [pElement EXCEPT ![n] = x]
       /\ pNext' = [pNext EXCEPT ![n] = pNext[NodeAt(index)], ![NodeAt(index)] = n]
       /\ pPrev' = [pPrev EXCEPT ![n] = NodeAt(index), ![NodeAt(index - 1)] = n]
       /\ m_nCount' = m_nCount + 1 /\ result' = Null
  /\ UNCHANGED <<m_pHead, m_pTail, pos>>

\* m_pNodePool->Free(n).  The fields of a node in the pool are not read before
\* they are written, and are Null here.
Freed(n) ==
  free' = free \union {n} /\ result' = pElement[n] /\ pElement' = [pElement EXCEPT ![n] = Null]

DropHead ==
  /\ Freed(m_pHead)
  /\ m_pHead' = (IF m_pHead = m_pTail THEN Null ELSE pNext[m_pHead])
  /\ m_pTail' = (IF m_pHead = m_pTail THEN Null ELSE m_pTail)
  /\ m_nCount' = (IF m_pHead = m_pTail THEN 0 ELSE m_nCount - 1)
  /\ pPrev' = [m \in Node |-> IF m \in {m_pHead, m_pHead'} THEN Null ELSE pPrev[m]]
  /\ pNext' = [pNext EXCEPT ![m_pHead] = Null]

\* The node before the tail is found from the head.
DropTail ==
  LET pAfter == Nodes[Len(Nodes) - 1] IN
  /\ Freed(m_pTail)
  /\ IF m_pHead = m_pTail
     THEN m_pHead' = Null /\ m_pTail' = Null /\ m_nCount' = 0 /\ UNCHANGED pNext
     ELSE /\ pNext' = [pNext EXCEPT ![pAfter] = Null] /\ m_pTail' = pAfter
          /\ m_nCount' = m_nCount - 1 /\ UNCHANGED m_pHead
  /\ pPrev' = [pPrev EXCEPT ![m_pTail] = Null]

\* A node in the middle.
DropMiddle(n, pAfter) ==
  /\ Freed(n)
  /\ pNext' = [pNext EXCEPT ![pAfter] = pNext[n], ![n] = Null]
  /\ pPrev' = [pPrev EXCEPT ![pNext[n]] = pAfter, ![n] = Null]
  /\ m_nCount' = m_nCount - 1 /\ UNCHANGED <<m_pHead, m_pTail>>

\* The caller may not use a position whose node somebody else deletes.
DeleteHead ==
  /\ "DeleteHead" \in Calls /\ m_pHead # Null /\ pos # m_pHead
  /\ DropHead /\ UNCHANGED pos

DeleteTail ==
  /\ "DeleteTail" \in Calls /\ m_pTail # Null /\ pos # m_pTail
  /\ DropTail /\ UNCHANGED pos

DeletePos ==
  /\ "DeletePos" \in Calls /\ pos # Null
  /\ IF pos = m_pHead THEN DropHead /\ pos' = m_pHead'
     ELSE IF pos = m_pTail THEN DropTail /\ pos' = m_pTail'
     ELSE \E i \in DOMAIN Nodes : Nodes[i] = pos /\ DropMiddle(pos, Nodes[i - 1]) /\ pos' = Nodes[i - 1]

\* DeleteAt, at an index that there is: in the middle the loop begins behind
\* the head and makes index steps, to a node that has a successor or none.
DeleteAt(index) ==
  /\ "DeleteAt" \in Calls /\ index < m_nCount /\ pos = Null
  /\ IF index = 0 THEN DropHead
     ELSE IF index = m_nCount - 1 THEN DropTail
     ELSE pNext[NodeAt(index + 1)] # Null /\ DropMiddle(NodeAt(index + 1), NodeAt(index))
  /\ UNCHANGED pos

DeleteAll ==
  /\ "DeleteAll" \in Calls /\ pos = Null
  /\ m_pHead' = Null /\ m_pTail' = Null /\ m_nCount' = 0
  /\ free' = free \union ToSet(Nodes) /\ result' = Null
  /\ pNext' = [n \in Node |-> Null] /\ pPrev' = pNext' /\ pElement' = pNext'
  /\ UNCHANGED pos

-----------------------------------------------------------------------------
\* GetFirstPos, GetLastPos and GetIndexPos, and GetNextPos and GetPrevPos,
\* which also return the element.
Positions ==
  /\ "Positions" \in Calls
  /\ \/ pos' \in {m_pHead, m_pTail} \union {NodeAt(i) : i \in 0..Len(Nodes)} /\ result' = Null
     \/ pos # Null /\ result' = pElement[pos] /\ pos' \in {pos, pNext[pos], pPrev[pos]}
  /\ UNCHANGED <<linkVars, endVars, free>>

Next ==
  \/ DeleteHead \/ DeleteTail \/ DeletePos \/ DeleteAll \/ Positions
  \/ \E x \in Element : AddHead(x) \/ AddTail(x)
  \/ \E x \in Element, i \in 0..Cardinality(Node) : InsertBefore(x, i) \/ InsertpAfter(x, i)
  \/ \E i \in 0..Cardinality(Node) : DeleteAt(i)

Spec == Init /\ [][Next]_vars

-----------------------------------------------------------------------------
\* Backwards from the tail one meets what one meets forwards from the head:
\* GetPrevPos is the "previous position of node" (Linkedlist.h:52-162, 259-326).
PrevRight == Walk(Node, pPrev, m_pTail) = Reverse(Nodes)

\* The nodes of the list and of the pool are all nodes, each in one of them,
\* and m_nCount counts the list (Linkedlist.h:52-162, 294-382).
CountRight ==
  /\ m_nCount = Len(Nodes) /\ ToSet(Nodes) = Node \ free
  /\ m_pTail = IF Nodes = <<>> THEN Null ELSE Last(Nodes)

\* A position that a call returned points into the list
\* (Linkedlist.h:260-326).
PosInList == pos = Null \/ pos \in ToSet(Nodes)

\* An element is taken out of the place the call names, and the others keep
\* their order (Linkedlist.h:75-100, 129-162, 294-326).
TakesOne ==
  Len(Elements') < Len(Elements) /\ result' # Null =>
    \E i \in DOMAIN Elements : result' = Elements[i] /\ Elements' = RemoveAt(Elements, i)
=============================================================================
