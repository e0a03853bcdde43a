---------------------------- MODULE MemoryFactory ----------------------------
(***************************************************************************)
(* Utility/MemoryFactory.hpp: a pool of objects kept in bands.  A band is  *)
(* an array of objects and a stack of pointers (ppDataType[0..FreeIdx-1]). *)
(* Bands form a list, the newest at its head; m_pFreeBand is the band that *)
(* Alloc pops from and Free pushes to.  An object may be pushed onto the   *)
(* stack of another band than its own.                                     *)
(*                                                                         *)
(* Bands are numbered in order of creation: pPrev of band b is b + 1 (the  *)
(* newer one), pNext is b - 1, m_pBandHead is `bands'.                     *)
(***************************************************************************)
EXTENDS Naturals, Sequences

CONSTANTS
  BasicSize,     \* dwPoolBasicSize: objects of the first band
  ExtendParam,   \* dwPoolExtendSize: objects of a later band, 0 = the default
  MaxBands,      \* bound of the model: bands that can be allocated
  NULL           \* the null pointer

ASSUME SizeAssumption ==
  /\ BasicSize \in Nat \ {0}
  /\ ExtendParam \in Nat
  /\ MaxBands \in Nat \ {0}

VARIABLES
  bands,         \* number of bands in the list, 0 = m_pBandHead is NULL
  freeBand,      \* m_pFreeBand
  stack,         \* stack[b]: free pointers of band b, the top at the end
  out,           \* the objects the callers hold
  result         \* what the last Alloc returned

vars == <<bands, freeBand, stack, out, result>>

-----------------------------------------------------------------------------
Band == 1..MaxBands

ExtendSize == IF ExtendParam = 0 THEN BasicSize \div 2 + 1 ELSE ExtendParam

BandSize(b) == IF b = 1 THEN BasicSize ELSE ExtendSize

\* The i-th element of band b's array pDeleteArray.
Object == {o \in Band \X (1..(BasicSize + ExtendSize)) : o[2] <= BandSize(o[1])}

Live == {o \in Object : o[1] <= bands}

ASSUME NullAssumption == NULL \notin Object

\* Mutant: one pointer more than there are objects.
FullStackOver(b) == [i \in 1..(BandSize(b) + 1) |-> <<b, i>>]

\* ppDataType of a band just allocated.
FullStack(b) == [i \in 1..BandSize(b) |-> <<b, i>>]

\* Mutants: the pointer at the bottom; FreeIdx is not decremented.
TopIsBottom(s) == s[1]
PopKeeps(s) == s

Top(s) == s[Len(s)]

Pop(s) == SubSeq(s, 1, Len(s) - 1)

-----------------------------------------------------------------------------
Init ==
  /\ bands = 0
  /\ freeBand = 0
  /\ stack = [b \in Band |-> <<>>]
  /\ out = {}
  /\ result = NULL

\* A second call finds m_pBandHead set and changes nothing.
Initialize ==
  /\ bands = 0
  /\ bands' = 1
  /\ freeBand' = 1
  /\ stack' = [stack EXCEPT ![1] = FullStack(1)]
  /\ UNCHANGED <<out, result>>

\* AlloObject() on band b, whose stack is st: NULL when the stack is empty.
TakeFrom(b, st) ==
  IF st[b] = <<>>
  THEN /\ result' = NULL
       /\ stack' = st
       /\ UNCHANGED out
  ELSE /\ result' = Top(st[b])
       /\ out' = out \cup {Top(st[b])}
       /\ stack' = [st EXCEPT ![b] = Pop(st[b])]

AllocHere ==
  /\ stack[freeBand] # <<>>
  /\ TakeFrom(freeBand, stack)
  /\ UNCHANGED <<bands, freeBand>>

\* The free band is empty and has a newer neighbour: go there, whatever it holds.
AllocNewer ==
  /\ stack[freeBand] = <<>>
  /\ freeBand < bands
  /\ freeBand' = freeBand + 1
  /\ TakeFrom(freeBand + 1, stack)
  /\ UNCHANGED bands

\* Mutant: the pointers of the new band are not filled in.
AllocGrowEmpty ==
  /\ stack[freeBand] = <<>>
  /\ freeBand = bands
  /\ bands < MaxBands
  /\ bands' = bands + 1
  /\ freeBand' = bands + 1
  /\ TakeFrom(bands + 1, stack)

AllocGrow ==
  /\ stack[freeBand] = <<>>
  /\ freeBand = bands
  /\ bands < MaxBands
  /\ bands' = bands + 1
  /\ freeBand' = bands + 1
  /\ TakeFrom(bands + 1, [stack EXCEPT ![bands + 1] = FullStack(bands + 1)])

Alloc == bands > 0 /\ (AllocHere \/ AllocNewer \/ AllocGrow)

\* FreeObject() on band b.
GiveTo(b, o) ==
  stack' = IF Len(stack[b]) < BandSize(b)
           THEN [stack EXCEPT ![b] = Append(@, o)]
           ELSE stack

\* A caller returns an object it holds.  A full free band hands over to the
\* older one; without an older one, or when that is full too, the pointer is
\* dropped.
FreeHere(o) ==
  /\ Len(stack[freeBand]) < BandSize(freeBand)
  /\ GiveTo(freeBand, o)
  /\ UNCHANGED freeBand

\* Mutant: a full free band drops the pointer.
FreeOlderDrops(o) ==
  /\ Len(stack[freeBand]) >= BandSize(freeBand)
  /\ UNCHANGED <<freeBand, stack>>

FreeOlder(o) ==
  /\ Len(stack[freeBand]) >= BandSize(freeBand)
  /\ IF freeBand = 1
     THEN UNCHANGED <<freeBand, stack>>
     ELSE /\ freeBand' = freeBand - 1
          /\ GiveTo(freeBand - 1, o)

Free(o) ==
  /\ bands > 0
  /\ FreeHere(o) \/ FreeOlder(o)
  /\ out' = out \ {o}
  /\ UNCHANGED <<bands, result>>

\* Release() runs in the destructor: the callers' pointers go with it.
Release ==
  /\ bands > 0
  /\ bands' = 0
  /\ freeBand' = 0
  /\ stack' = [b \in Band |-> <<>>]
  /\ out' = {}
  /\ UNCHANGED result

Next ==
  \/ Initialize
  \/ Alloc
  \/ \E o \in out : Free(o)
  \/ Release

Spec == Init /\ [][Next]_vars

-----------------------------------------------------------------------------
TypeOK ==
  /\ bands \in 0..MaxBands
  /\ freeBand \in 0..bands
  /\ (bands > 0) => (freeBand > 0)
  /\ stack \in [Band -> Seq(Object)]
  /\ \A b \in Band : Len(stack[b]) <= IF b <= bands THEN BandSize(b) ELSE 0
  /\ out \subseteq Object
  /\ result \in Object \cup {NULL}

\* The slots in use of all stacks.
Slot == {p \in Object : p[2] <= Len(stack[p[1]])}

At(p) == stack[p[1]][p[2]]

\* Every pointer a stack holds is to a live object that nobody holds and that
\* no other slot holds: Alloc can never give one object to two callers
\* (AlloObject, FreeObject, MemoryFactory.hpp:72-91).
FreeExclusive ==
  /\ out \subseteq Live
  /\ \A p \in Slot : At(p) \in Live \ out
  /\ \A p, q \in Slot : At(p) = At(q) => p = q

\* Bands older than the free band are exhausted, newer ones are full.  Alloc
\* and Free each look at one neighbour only (MemoryFactory.hpp:150, 172), so
\* they are right only while this holds.
BandShape ==
  \A b \in 1..bands : /\ b < freeBand => stack[b] = <<>>
                      /\ b > freeBand => Len(stack[b]) = BandSize(b)

\* No object is lost: what no caller holds is on a stack.  FreeOlder's two
\* silent drops (MemoryFactory.hpp:166-177) never happen to a legal caller.
NothingLost == \A o \in Live \ out : \E p \in Slot : At(p) = o

\* Alloc never returns NULL to a legal caller, although AlloObject can.
AllocSucceeds == [][Alloc => result' # NULL]_vars

\* What Alloc can still find: the stacks, and the bands not allocated yet.
Unowned == (Object \ Live) \cup {At(p) : p \in Slot}

Pool == INSTANCE ObjectPool WITH free <- Unowned

\* Seen from its callers, the factory is the abstract pool: each Alloc takes
\* one object off the bands and hands over that one, each Free puts one back
\* (MemoryFactory.hpp:137-179).
ImplementsPool == Pool!Spec
=============================================================================
