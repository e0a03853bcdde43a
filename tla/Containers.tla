----------------------------- MODULE Containers -----------------------------
(***************************************************************************)
(* The containers of Utility, one of them in each behaviour; which one is  *)
(* chosen at the start.  CLinkedlist and the hash table are there twice,   *)
(* each with the calls that keep all of its promises and with those that   *)
(* keep some of them.                                                      *)
(***************************************************************************)
EXTENDS Walks, TLC

CONSTANTS
  Object, List, None, Free, End,    \* of the linked lists
  Node, Element,                    \* of CLinkedlist
  Entry, EmptiedEntry, Key,         \* of the table, and of one emptied from its head
  m_dwMaxBucketNum, Null

\* 0 and -1 are no objects, and NULL is no node, no element, no entry and no
\* key; a table has a bucket at least, by whose number a key is divided.
ASSUME ObjectAssumption ==
  /\ IsFiniteSet(Object) /\ Free \notin Object /\ End \notin Object /\ Free # End

ASSUME NodeAssumption ==
  /\ IsFiniteSet(Node) /\ Null \notin Node /\ Null \notin Element

ASSUME EntryAssumption ==
  /\ IsFiniteSet(Entry) /\ IsFiniteSet(EmptiedEntry)
  /\ Null \notin Entry \union EmptiedEntry
  /\ Key \subseteq Nat /\ Null \notin Key
  /\ m_dwMaxBucketNum \in Nat \ {0}

VARIABLES
  container,
  link, next_, prev_, head_, tail_, size_, cleared, result,        \* the linked lists
  m_pHead, m_pTail, m_nCount, pNext, pPrev, pElement, free, pos,   \* the nodes
  taken,
  dwKey, cNext, cPrv, lNext, lPrv, m_ppBucketTable, m_pListHead,   \* the table
  m_pListTail, m_dwDataNum, m_pListCur, m_pCurBucket, m_pLastBucket, m_dwBucketKey,
  added, found

ForwardCalls == {"AddTail", "AddHead", "InsertBefore", "InsertpAfter", "DeleteAt", "DeleteTail"}

BothWaysCalls ==
  {"AddHead", "AddTail", "InsertBefore", "DeleteHead", "DeleteTail", "DeletePos", "DeleteAll",
   "Positions"}

Symmetric == Permutations(Object)

Single == INSTANCE SingleList
Queue  == INSTANCE SingleQueue
Double == INSTANCE DoubleList
Forward == INSTANCE NodeList WITH result <- taken, Calls <- ForwardCalls
BothWays == INSTANCE NodeList WITH result <- taken, Calls <- BothWaysCalls
Table == INSTANCE HashTable WITH Calls <- {"Iterate", "Remove"}, pNext <- cNext, pPrv <- cPrv
Emptied == INSTANCE HashTable WITH
  Entry <- EmptiedEntry, Calls <- {"RemoveHead", "RemoveAll"}, pNext <- cNext, pPrv <- cPrv

linkedVars == <<link, next_, prev_, head_, tail_, size_, cleared, result>>
nodeVars == <<m_pHead, m_pTail, m_nCount, pNext, pPrev, pElement, free, pos, taken>>
tableVars == <<dwKey, cNext, cPrv, lNext, lPrv, m_ppBucketTable, m_pListHead, m_pListTail,
               m_dwDataNum, m_pListCur, m_pCurBucket, m_pLastBucket, m_dwBucketKey, added, found>>
vars == <<container, linkedVars, nodeVars, tableVars>>

Linked == {"list", "queue", "double"}
Noded == {"nodes forward", "nodes both ways"}
Tabled == {"table", "emptied table"}

Init ==
  /\ container \in Linked \union Noded \union Tabled
  /\ Single!Init /\ Queue!Init /\ Double!Init /\ Forward!Init
  /\ IF container = "emptied table" THEN Emptied!Init ELSE Table!Init

LinkedNext ==
  /\ UNCHANGED <<container, nodeVars, tableVars>>
  /\ \/ container = "list" /\ Single!Next /\ UNCHANGED <<tail_, size_, next_, prev_, cleared>>
     \/ container = "queue" /\ Queue!Next /\ UNCHANGED <<next_, prev_, cleared>>
     \/ container = "double" /\ Double!Next /\ UNCHANGED link

NodesNext ==
  /\ UNCHANGED <<container, linkedVars, tableVars>>
  /\ \/ container = "nodes forward" /\ Forward!Next
     \/ container = "nodes both ways" /\ BothWays!Next

TableNext ==
  /\ UNCHANGED <<container, linkedVars, nodeVars>>
  /\ \/ container = "table" /\ Table!Next
     \/ container = "emptied table" /\ Emptied!Next

Next == LinkedNext \/ NodesNext \/ TableNext

Spec == Init /\ [][Next]_vars

-----------------------------------------------------------------------------
Objects(l) ==
  CASE container = "list" -> Single!Objects(l)
    [] container = "queue" -> Queue!Objects(l)
    [] container = "double" -> Double!Objects(l)
    [] OTHER -> <<>>

\* The links of each of the three lists are sequences, and every call does to
\* them and answers what it promises (Single_List_T.h:240-816,
\* Double_List_T.h:309-494).
Abstract == INSTANCE ObjectLists WITH list <- [l \in List |-> Objects(l)]

ListsSpec == Abstract!Spec

\* Every call does what it promises: the three lists are sequences; a deletion
\* takes one element out of CLinkedlist and hands it over; and the iterators of
\* the table skip nothing, whatever is deleted meanwhile
\* (Single_List_T.h:240-816, Double_List_T.h:309-494, Linkedlist.h:75-162,
\* 294-367, SolarHashTable.h:200-235).
CallsRight ==
  ListsSpec /\ [][Forward!TakesOne]_vars /\ [][container = "table" => Table!CursorStep]_vars

\* An object may be pushed again exactly when it has left its list, which the
\* assertions of push_front and push_back look at; the queue's tail and size are
\* those of its links, and the double list is the same from both ends
\* (Single_List_T.h:247, 260, 332, 360, 415, 601-816, Double_List_T.h:309-485).
LinksRight ==
  /\ container = "list" => Single!FreeIffOut
  /\ container = "queue" => Queue!TailRight
  /\ container = "double" => Double!FreeIffOut /\ Double!BothWays

\* CLinkedlist is the same from both ends without the wrong call, and a
\* position points into it; with the two wrong calls it still keeps its count,
\* its tail and its pool (Linkedlist.h:52-216, 259-367).
NodesRight ==
  /\ container = "nodes both ways" => BothWays!PrevRight /\ BothWays!PosInList
  /\ container \in Noded => Forward!CountRight

\* The list and the chains of the table agree, each is the same from both ends,
\* and both iterators stay on entries that are in it; a table that is emptied
\* from its head holds what was added since (SolarHashTable.h:141-235, 224-355,
\* 459-511).
TableRight ==
  /\ container = "table" => Table!ChainsAgree /\ Table!BothWays /\ Table!IteratorSync
  /\ container = "emptied table" => Emptied!ListAgrees
=============================================================================
