----------------------------- MODULE HashTable -----------------------------
(***************************************************************************)
(* SolarHashTable: every entry is in the chain of its bucket index and in  *)
(* one list of all entries, and the table keeps two iterators, one through *)
(* the list and one through a chain, which deletions have to respect.      *)
(***************************************************************************)
EXTENDS Walks

CONSTANTS
  Key,                 \* the keys that are used, numbers
  Entry,               \* bound: the HashBuckets (and HashLists) of the pools
  m_dwMaxBucketNum,
  Null,
  Calls                \* the calls that the caller makes

VARIABLES
  dwKey,               \* of each entry, or Null if it is in the pool
  pNext, pPrv,         \* the links of its chain
  lNext, lPrv,         \* the links of its HashList
  m_ppBucketTable,
  m_pListHead, m_pListTail,
  m_dwDataNum,
  m_pListCur,          \* the iterator of the list
  m_pCurBucket, m_pLastBucket, m_dwBucketKey,   \* and of a chain
  added,               \* the entries in the order in which they were added
  found                \* what GetBucketNext returned, until the next call

chainVars == <<pNext, pPrv, m_ppBucketTable>>
listVars == <<lNext, lPrv, m_pListHead, m_pListTail>>
curVars == <<m_pCurBucket, m_pLastBucket, m_dwBucketKey>>
vars == <<dwKey, chainVars, listVars, curVars, m_dwDataNum, m_pListCur, added, found>>

Index == 0..(m_dwMaxBucketNum - 1)

IndexOf(k) == k % m_dwMaxBucketNum

NoLinks == [e \in Entry |-> Null]

Init ==
  /\ dwKey = NoLinks /\ pNext = NoLinks /\ pPrv = NoLinks /\ lNext = NoLinks /\ lPrv = NoLinks
  /\ m_ppBucketTable = [i \in Index |-> Null] /\ m_pListHead = Null /\ m_pListTail = Null
  /\ m_dwDataNum = 0 /\ m_pListCur = Null
  /\ m_pCurBucket = Null /\ m_pLastBucket = Null /\ m_dwBucketKey = 0
  /\ added = <<>> /\ found = Null

\* The entries of a chain, and of the list.
ChainAt(i) == Walk(Entry, pNext, m_ppBucketTable[i])

HashList == Walk(Entry, lNext, m_pListHead)

\* The first entry of a sequence with a key, or Null.
FirstWith(s, k) ==
  IF \A i \in DOMAIN s : dwKey[s[i]] # k THEN Null
  ELSE s[CHOOSE i \in DOMAIN s : dwKey[s[i]] = k /\ \A j \in 1..(i - 1) : dwKey[s[j]] # k]

-----------------------------------------------------------------------------
\* The chain is walked to its end, if it has one.
ChainLast(e, i) ==
  LET prv == IF ChainAt(i) = <<>> THEN Null ELSE Last(ChainAt(i)) IN
  /\ Len(ChainAt(i)) <= Cardinality(Entry)
  /\ m_ppBucketTable' = [m_ppBucketTable EXCEPT ![i] = IF prv = Null THEN e ELSE @]
  /\ pNext' = [x \in Entry |-> IF x = e THEN Null ELSE IF x = prv THEN e ELSE pNext[x]]
  /\ pPrv' = [pPrv EXCEPT ![e] = prv]

\* addList: the first entry also sets the iterator.
AddList(e) ==
  /\ lNext' = [x \in Entry |-> IF x = e THEN Null
                               ELSE IF m_pListHead # Null /\ x = m_pListTail THEN e ELSE lNext[x]]
  /\ lPrv' = [lPrv EXCEPT ![e] = IF m_pListHead = Null THEN Null ELSE m_pListTail]
  /\ m_pListHead' = (IF m_pListHead = Null THEN e ELSE m_pListHead)
  /\ m_pListTail' = e
  /\ m_pListCur' = (IF m_pListHead = Null THEN e ELSE m_pListCur)

\* Add, which does not look for the same key.
Add(k) ==
  \E e \in Entry :
    /\ dwKey[e] = Null /\ dwKey' = [dwKey EXCEPT ![e] = k]
    /\ ChainLast(e, IndexOf(k)) /\ AddList(e)
    /\ m_dwDataNum' = m_dwDataNum + 1 /\ added' = Append(added, e)
    /\ found' = Null /\ UNCHANGED curVars

\* GetData and find.
GetData(k) == FirstWith(ChainAt(IndexOf(k)), k)

-----------------------------------------------------------------------------
(* The iterators.                                                         *)

\* SetFirst, SetLast.
SetListCur ==
  /\ "Iterate" \in Calls /\ m_pListCur' \in {m_pListHead, m_pListTail} /\ found' = Null
  /\ UNCHANGED <<dwKey, chainVars, listVars, curVars, m_dwDataNum, added>>

\* GetNext, GetNextDataAndKey, GetPrev.
MoveListCur ==
  /\ "Iterate" \in Calls /\ m_pListCur # Null /\ found' = Null
  /\ m_pListCur' \in {lNext[m_pListCur], lPrv[m_pListCur]}
  /\ UNCHANGED <<dwKey, chainVars, listVars, curVars, m_dwDataNum, added>>

SetBucketFirst(k) ==
  /\ "Iterate" \in Calls
  /\ m_dwBucketKey' = k /\ m_pCurBucket' = m_ppBucketTable[IndexOf(k)] /\ m_pLastBucket' = Null
  /\ found' = Null /\ UNCHANGED <<dwKey, chainVars, listVars, m_dwDataNum, m_pListCur, added>>

\* The entries of other keys in the chain are skipped.
GetBucketNext ==
  LET e == FirstWith(Walk(Entry, pNext, m_pCurBucket), m_dwBucketKey) IN
  /\ m_pCurBucket # Null
  /\ found' = e
  /\ m_pLastBucket' = (IF e = Null THEN m_pLastBucket ELSE e)
  /\ m_pCurBucket' = (IF e = Null THEN Null ELSE pNext[e])
  /\ UNCHANGED <<dwKey, chainVars, listVars, m_dwBucketKey, m_dwDataNum, m_pListCur, added>>

-----------------------------------------------------------------------------
(* Deletion.                                                              *)

\* The entry leaves its chain,
Unchained(e) ==
  /\ m_ppBucketTable' =
       [m_ppBucketTable EXCEPT ![IndexOf(dwKey[e])] = IF pPrv[e] = Null THEN pNext[e] ELSE @]
  /\ pNext' = [x \in Entry |-> IF x = pPrv[e] THEN pNext[e] ELSE pNext[x]]
  /\ pPrv' = [x \in Entry |-> IF x = pNext[e] THEN pPrv[e] ELSE pPrv[x]]

\* Mutant: the iterator stays on the entry.
RemoveListUnsynced(e) ==
  /\ UNCHANGED m_pListCur
  /\ lNext' = [x \in Entry |-> IF x = lPrv[e] THEN lNext[e] ELSE lNext[x]]
  /\ lPrv' = [x \in Entry |-> IF x = lNext[e] THEN lPrv[e] ELSE lPrv[x]]
  /\ m_pListHead' = (IF lPrv[e] = Null THEN lNext[e] ELSE m_pListHead)
  /\ m_pListTail' = (IF lNext[e] = Null THEN lPrv[e] ELSE m_pListTail)

\* removeList: it leaves the list, and the iterator goes on to the next one;
RemoveList(e) ==
  /\ m_pListCur' = (IF m_pListCur = e THEN lNext[e] ELSE m_pListCur)
  /\ lNext' = [x \in Entry |-> IF x = lPrv[e] THEN lNext[e] ELSE lNext[x]]
  /\ lPrv' = [x \in Entry |-> IF x = lNext[e] THEN lPrv[e] ELSE lPrv[x]]
  /\ m_pListHead' = (IF lPrv[e] = Null THEN lNext[e] ELSE m_pListHead)
  /\ m_pListTail' = (IF lNext[e] = Null THEN lPrv[e] ELSE m_pListTail)

\* both go back to their pools.
Freed(e) ==
  /\ dwKey' = [dwKey EXCEPT ![e] = Null] /\ m_dwDataNum' = m_dwDataNum - 1
  /\ added' = RemoveAt(added, CHOOSE i \in DOMAIN added : added[i] = e)

\* Remove: the first entry of the chain with the key; the iterator of the
\* chain goes on if it was there, m_pLastBucket does not.
RemoveKey(k) ==
  LET e == GetData(k) IN
  /\ "Remove" \in Calls /\ e # Null /\ Unchained(e) /\ RemoveList(e) /\ Freed(e)
  /\ m_pCurBucket' = (IF m_pCurBucket = e THEN pNext[e] ELSE m_pCurBucket)
  /\ found' = Null /\ UNCHANGED <<m_pLastBucket, m_dwBucketKey>>

\* RemoveCurBucketData, after GetBucketNext and before anything else.
RemoveCurBucketData ==
  LET e == m_pLastBucket IN
  /\ "Remove" \in Calls /\ e # Null /\ found = e
  /\ Unchained(e) /\ RemoveList(e) /\ Freed(e)
  /\ found' = Null /\ UNCHANGED curVars

\* RemoveHead: neither the chain nor an iterator is looked at, nor is the new
\* head told that it has no predecessor.
RemoveHead ==
  /\ "RemoveHead" \in Calls /\ m_pListHead # Null
  /\ found' = Null /\ m_pListHead' = lNext[m_pListHead] /\ Freed(m_pListHead)
  /\ UNCHANGED <<chainVars, lNext, lPrv, m_pListTail, curVars, m_pListCur>>

\* RemoveAll and clear: the iterators are left.
RemoveAll ==
  /\ "RemoveAll" \in Calls
  /\ dwKey' = NoLinks /\ m_dwDataNum' = 0 /\ m_pListHead' = Null /\ added' = <<>>
  /\ m_ppBucketTable' = [i \in Index |-> Null] /\ found' = Null
  /\ UNCHANGED <<pNext, pPrv, lNext, lPrv, m_pListTail, curVars, m_pListCur>>

Next ==
  \/ \E k \in Key : Add(k) \/ SetBucketFirst(k) \/ RemoveKey(k)
  \/ SetListCur \/ MoveListCur \/ GetBucketNext \/ RemoveCurBucketData \/ RemoveHead \/ RemoveAll

Spec == Init /\ [][Next]_vars

-----------------------------------------------------------------------------
\* The list holds the entries in the order in which they were added, also when
\* it is emptied from its head (SolarHashTable.h:323-355, 459-511).
ListAgrees == HashList = added /\ m_dwDataNum = Len(added)

InOrderOf(c, s) ==
  \A a, b \in DOMAIN c : a < b => \E p, q \in DOMAIN s : p < q /\ s[p] = c[a] /\ s[q] = c[b]

\* Each chain holds the entries of its index in the order of the list, so that
\* GetData finds what the list finds first (SolarHashTable.h:141-193, 262-321).
ChainsAgree ==
  /\ \A i \in Index :
       /\ ToSet(ChainAt(i)) = {e \in ToSet(HashList) : IndexOf(dwKey[e]) = i}
       /\ InOrderOf(ChainAt(i), HashList)
  /\ \A k \in Key : GetData(k) = FirstWith(HashList, k)

\* Backwards one meets what one meets forwards, in the list and in the chains
\* (SolarHashTable.h:224-235, 269-277, 299-311, 499-507).
BothWays ==
  /\ Walk(Entry, lPrv, m_pListTail) = Reverse(HashList)
  /\ \A i \in Index : LET c == ChainAt(i) IN
       c # <<>> => Walk(Entry, pPrv, Last(c)) = Reverse(c)

\* An iterator is on an entry of the table or at the end, "for iterator sync"
\* (SolarHashTable.h:302, 496).
IteratorSync ==
  /\ m_pListCur # Null => dwKey[m_pListCur] # Null
  /\ m_pCurBucket # Null => dwKey[m_pCurBucket] # Null

\* Going through the list and removing on the way skips nothing: the iterator
\* moves only to a neighbour of the entry it was on, or to the entry behind a
\* removed one (SolarHashTable.h:200-235, 496-497).
CursorStep ==
  (m_pListCur # Null /\ dwKey'[m_pListCur] = Null) => m_pListCur' = lNext[m_pListCur]
=============================================================================
