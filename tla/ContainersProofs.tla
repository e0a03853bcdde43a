-------------------------- MODULE ContainersProofs --------------------------
(***************************************************************************)
(* For any objects, lists, nodes, entries and keys: every call of the      *)
(* containers of Utility does what it promises, and their links, ends,     *)
(* counts and iterators are right in every reachable state.                *)
(*                                                                         *)
(* Each of the three inductive invariants says that there is a sequence    *)
(* (one for each list, one for each bucket) that the pointers represent;   *)
(* what the calls write is then compared, place by place, with what an     *)
(* insertion, a removal, a join or a swap does to the sequence.            *)
(***************************************************************************)
EXTENDS Containers, SequenceTheorems, FiniteSetTheorems, WellFoundedInduction, TLAPS

-----------------------------------------------------------------------------
(* Sequences and the links that represent one.                             *)

\* No element occurs twice.
Distinct(s) == \A i, j \in 1..Len(s) : s[i] = s[j] => i = j

\* Each element's next link names the one after it, the last one's the end.
NextLinks(end, next, s) ==
  \A i \in 1..Len(s) : next[s[i]] = IF i = Len(s) THEN end ELSE s[i + 1]

\* Each element's previous link names the one before it, the first one's the end.
PrevLinks(end, prev, s) ==
  \A i \in 1..Len(s) : prev[s[i]] = IF i = 1 THEN end ELSE s[i - 1]

\* What a head pointer holds when the list is s.
FirstOf(end, s) == IF Len(s) = 0 THEN end ELSE s[1]

\* What a tail pointer holds when the list is s.
LastOf(end, s) == IF Len(s) = 0 THEN end ELSE s[Len(s)]

\* What an insertion does to each place of a sequence.
LEMMA InsertAtFacts ==
  ASSUME NEW S, NEW s \in Seq(S), NEW x \in S, NEW k \in 1..(Len(s) + 1)
  PROVE  /\ InsertAt(s, k, x) \in Seq(S)
         /\ Len(InsertAt(s, k, x)) = Len(s) + 1
         /\ \A i \in 1..(Len(s) + 1) :
              InsertAt(s, k, x)[i] = IF i < k THEN s[i] ELSE IF i = k THEN x ELSE s[i - 1]
<1> DEFINE a == SubSeq(s, 1, k - 1)
           b == SubSeq(s, k, Len(s))
<1>1. Len(s) \in Nat /\ k \in Int /\ k - 1 \in Int /\ 1 \in Int /\ Len(s) \in Int
  BY LenProperties
<1>2. \A i \in 1..Len(s) : s[i] \in S
  BY ElementOfSeq
<1>3. /\ a \in Seq(S)
      /\ Len(a) = k - 1
      /\ \A i \in 1..(k - 1) : a[i] = s[i]
  <2>1. \A i \in 1..(k - 1) : s[i] \in S
    BY <1>1, <1>2
  <2>2. /\ a \in Seq(S)
        /\ Len(a) = IF 1 <= k - 1 THEN k - 1 - 1 + 1 ELSE 0
        /\ \A i \in 1..(k - 1 - 1 + 1) : a[i] = s[1 + i - 1]
    BY <1>1, <2>1, SubSeqProperties
  <2> HIDE DEF a
  <2> QED
    BY <1>1, <2>2
<1>4. /\ b \in Seq(S)
      /\ Len(b) = Len(s) - k + 1
      /\ \A i \in 1..(Len(s) - k + 1) : b[i] = s[k + i - 1]
  <2>1. \A i \in k..Len(s) : s[i] \in S
    BY <1>1, <1>2
  <2>2. /\ b \in Seq(S)
        /\ Len(b) = IF k <= Len(s) THEN Len(s) - k + 1 ELSE 0
        /\ \A i \in 1..(Len(s) - k + 1) : b[i] = s[k + i - 1]
    BY <1>1, <2>1, SubSeqProperties
  <2> HIDE DEF b
  <2> QED
    BY <1>1, <2>2
<1>5. <<x>> \in Seq(S) /\ Len(<<x>>) = 1 /\ <<x>>[1] = x
  OBVIOUS
<1>6. InsertAt(s, k, x) = (a \o <<x>>) \o b
  BY DEF InsertAt
<1> HIDE DEF a, b
<1> DEFINE c == a \o <<x>>
<1>7. /\ c \in Seq(S)
      /\ Len(c) = k
      /\ \A i \in 1..k : c[i] = IF i < k THEN s[i] ELSE x
  <2> DEFINE d == <<x>>
  <2>1. d \in Seq(S) /\ Len(d) = 1 /\ d[1] = x
    BY <1>5
  <2> HIDE DEF d
  <2>2. /\ a \o d \in Seq(S)
        /\ Len(a \o d) = Len(a) + Len(d)
        /\ \A i \in 1..(Len(a) + Len(d)) :
             (a \o d)[i] = IF i <= Len(a) THEN a[i] ELSE d[i - Len(a)]
    BY <1>3, <2>1, ConcatProperties
  <2>3. c = a \o d
    BY DEF d
  <2> HIDE DEF c
  <2> QED
    BY <1>1, <1>3, <2>1, <2>2, <2>3
<1> HIDE DEF c
<1>8. /\ c \o b \in Seq(S)
      /\ Len(c \o b) = Len(c) + Len(b)
      /\ \A i \in 1..(Len(c) + Len(b)) :
           (c \o b)[i] = IF i <= Len(c) THEN c[i] ELSE b[i - Len(c)]
  BY <1>4, <1>7, ConcatProperties
<1>9. InsertAt(s, k, x) = c \o b
  BY <1>6 DEF c
<1>10. ASSUME NEW i \in 1..(Len(s) + 1)
       PROVE  (c \o b)[i] = IF i < k THEN s[i] ELSE IF i = k THEN x ELSE s[i - 1]
  <2>1. i \in 1..(Len(c) + Len(b)) /\ Len(c) = k
    BY <1>1, <1>4, <1>7
  <2>2. CASE i < k
    BY <1>1, <1>7, <1>8, <2>1, <2>2
  <2>3. CASE i = k
    BY <1>1, <1>7, <1>8, <2>1, <2>3
  <2>4. CASE i > k
    <3>1. i - k \in 1..(Len(s) - k + 1) /\ ~(i <= Len(c)) /\ k + (i - k) - 1 = i - 1
      BY <1>1, <2>1, <2>4
    <3>2. (c \o b)[i] = b[i - k]
      BY <1>8, <2>1, <3>1
    <3> QED
      BY <1>1, <1>4, <2>1, <2>4, <3>1, <3>2
  <2>5. i \in Nat /\ k \in Nat /\ (i < k \/ i = k \/ i > k)
    BY <1>1
  <2> HIDE DEF c
  <2> QED
    BY <2>2, <2>3, <2>4, <2>5
<1>11. Len(c \o b) = Len(s) + 1
  BY <1>1, <1>4, <1>7, <1>8
<1> QED
  BY <1>8, <1>9, <1>10, <1>11

\* What a removal does to each place of a sequence.
LEMMA RemoveAtFacts ==
  ASSUME NEW S, NEW s \in Seq(S), NEW k \in 1..Len(s)
  PROVE  /\ RemoveAt(s, k) \in Seq(S)
         /\ Len(RemoveAt(s, k)) = Len(s) - 1
         /\ \A i \in 1..(Len(s) - 1) : RemoveAt(s, k)[i] = IF i < k THEN s[i] ELSE s[i + 1]
<1> DEFINE a == SubSeq(s, 1, k - 1)
           b == SubSeq(s, k + 1, Len(s))
<1>1. Len(s) \in Nat /\ k \in Int /\ k - 1 \in Int /\ k + 1 \in Int /\ 1 \in Int /\ Len(s) \in Int
  BY LenProperties
<1>2. \A i \in 1..Len(s) : s[i] \in S
  BY ElementOfSeq
<1>3. /\ a \in Seq(S)
      /\ Len(a) = k - 1
      /\ \A i \in 1..(k - 1) : a[i] = s[i]
  <2>1. \A i \in 1..(k - 1) : s[i] \in S
    BY <1>1, <1>2
  <2>2. /\ a \in Seq(S)
        /\ Len(a) = IF 1 <= k - 1 THEN k - 1 - 1 + 1 ELSE 0
        /\ \A i \in 1..(k - 1 - 1 + 1) : a[i] = s[1 + i - 1]
    BY <1>1, <2>1, SubSeqProperties
  <2> HIDE DEF a
  <2> QED
    BY <1>1, <2>2
<1>4. /\ b \in Seq(S)
      /\ Len(b) = Len(s) - k
      /\ \A i \in 1..(Len(s) - k) : b[i] = s[k + i]
  <2>1. \A i \in (k + 1)..Len(s) : s[i] \in S
    BY <1>1, <1>2
  <2>2. /\ b \in Seq(S)
        /\ Len(b) = IF k + 1 <= Len(s) THEN Len(s) - (k + 1) + 1 ELSE 0
        /\ \A i \in 1..(Len(s) - (k + 1) + 1) : b[i] = s[k + 1 + i - 1]
    BY <1>1, <2>1, SubSeqProperties
  <2> HIDE DEF b
  <2> QED
    BY <1>1, <2>2
<1>5. RemoveAt(s, k) = a \o b
  BY DEF RemoveAt
<1> HIDE DEF a, b
<1>6. /\ a \o b \in Seq(S)
      /\ Len(a \o b) = Len(a) + Len(b)
      /\ \A i \in 1..(Len(a) + Len(b)) :
           (a \o b)[i] = IF i <= Len(a) THEN a[i] ELSE b[i - Len(a)]
  BY <1>3, <1>4, ConcatProperties
<1>7. \A i \in 1..(Len(s) - 1) : (a \o b)[i] = IF i < k THEN s[i] ELSE s[i + 1]
  BY <1>1, <1>3, <1>4, <1>6, SMTT(40)
<1>8. Len(a \o b) = Len(s) - 1
  BY <1>1, <1>3, <1>4, <1>6
<1> QED
  BY <1>5, <1>6, <1>7, <1>8

\* What stands where in a sequence read backwards.
LEMMA ReverseFacts ==
  ASSUME NEW S, NEW s \in Seq(S)
  PROVE  /\ Reverse(s) \in Seq(S)
         /\ Len(Reverse(s)) = Len(s)
         /\ \A i \in 1..Len(s) : Reverse(s)[i] = s[Len(s) - i + 1]
<1>1. Len(s) \in Nat
  BY LenProperties
<1>2. \A i \in 1..Len(s) : s[Len(s) - i + 1] \in S
  <2> SUFFICES ASSUME NEW i \in 1..Len(s)
               PROVE  s[Len(s) - i + 1] \in S
    OBVIOUS
  <2>1. Len(s) - i + 1 \in 1..Len(s)
    BY <1>1
  <2> QED
    BY <2>1, ElementOfSeq
<1>3. Reverse(s) = [i \in 1..Len(s) |-> s[Len(s) - i + 1]]
  BY DEF Reverse
<1>4. [i \in 1..Len(s) |-> s[Len(s) - i + 1]] \in Seq(S)
  BY <1>1, <1>2, IsASeq
<1>5. DOMAIN Reverse(s) = 1..Len(s)
  BY <1>3
<1>6. Len(Reverse(s)) = Len(s)
  BY <1>1, <1>3, <1>4, <1>5, LenProperties
<1> QED
  BY <1>3, <1>4, <1>6

\* Two writes to the next links insert x at place k: its own link and the one before it.
LEMMA InsertNext ==
  ASSUME NEW S, NEW s \in Seq(S), NEW x \in S, NEW k \in 1..(Len(s) + 1),
         NEW end, NEW next, NEW next2, NextLinks(end, next, s),
         next2[x] = IF k = Len(s) + 1 THEN end ELSE s[k],
         k > 1 => next2[s[k - 1]] = x,
         \A i \in 1..Len(s) : i # k - 1 => next2[s[i]] = next[s[i]]
  PROVE  /\ NextLinks(end, next2, InsertAt(s, k, x))
         /\ FirstOf(end, InsertAt(s, k, x)) = IF k = 1 THEN x ELSE FirstOf(end, s)
<1> DEFINE t == InsertAt(s, k, x)
<1>1. Len(s) \in Nat
  BY LenProperties
<1>2. /\ Len(t) = Len(s) + 1
      /\ \A i \in 1..(Len(s) + 1) : t[i] = IF i < k THEN s[i] ELSE IF i = k THEN x ELSE s[i - 1]
  BY InsertAtFacts
<1> HIDE DEF t
<1>3. ASSUME NEW i \in 1..Len(t)
      PROVE  next2[t[i]] = IF i = Len(t) THEN end ELSE t[i + 1]
  <2>0. i \in 1..(Len(s) + 1) /\ (i # Len(t) => i + 1 \in 1..(Len(s) + 1))
    BY <1>1, <1>2
  <2>1. CASE i < k - 1
    <3>1. i \in 1..Len(s) /\ i # k - 1 /\ i # Len(s) /\ i # Len(t) /\ i + 1 < k
      BY <1>1, <1>2, <2>1
    <3>2. t[i] = s[i] /\ t[i + 1] = s[i + 1]
      BY <1>1, <1>2, <2>0, <2>1, <3>1
    <3>3. next[s[i]] = s[i + 1]
      BY <3>1 DEF NextLinks
    <3> QED
      BY <3>1, <3>2, <3>3
  <2>2. CASE i = k - 1
    BY <1>1, <1>2, <2>0, <2>2
  <2>3. CASE i = k
    BY <1>1, <1>2, <2>0, <2>3
  <2>4. CASE i > k
    <3>1. i - 1 \in 1..Len(s) /\ i - 1 # k - 1 /\ (i - 1 = Len(s) <=> i = Len(t)) /\ i - 1 + 1 = i
      BY <1>1, <1>2, <2>4
    <3>2. t[i] = s[i - 1]
      BY <1>1, <1>2, <2>0, <2>4
    <3>3. i # Len(t) => t[i + 1] = s[i]
      BY <1>1, <1>2, <2>0, <2>4
    <3>4. next[s[i - 1]] = IF i - 1 = Len(s) THEN end ELSE s[i - 1 + 1]
      BY <3>1 DEF NextLinks
    <3> QED
      BY <3>1, <3>2, <3>3, <3>4
  <2> QED
    BY <1>1, <2>1, <2>2, <2>3, <2>4
<1>4. FirstOf(end, t) = IF k = 1 THEN x ELSE FirstOf(end, s)
  BY <1>1, <1>2 DEF FirstOf
<1>5. NextLinks(end, next2, t)
  BY <1>3 DEF NextLinks
<1> QED
  BY <1>4, <1>5 DEF t

\* The same for the previous links: its own and the one after it.
LEMMA InsertPrev ==
  ASSUME NEW S, NEW s \in Seq(S), NEW x \in S, NEW k \in 1..(Len(s) + 1),
         NEW end, NEW prev, NEW prev2, PrevLinks(end, prev, s),
         prev2[x] = IF k = 1 THEN end ELSE s[k - 1],
         k <= Len(s) => prev2[s[k]] = x,
         \A i \in 1..Len(s) : i # k => prev2[s[i]] = prev[s[i]]
  PROVE  /\ PrevLinks(end, prev2, InsertAt(s, k, x))
         /\ LastOf(end, InsertAt(s, k, x)) = IF k = Len(s) + 1 THEN x ELSE LastOf(end, s)
<1> DEFINE t == InsertAt(s, k, x)
<1>1. Len(s) \in Nat
  BY LenProperties
<1>2. /\ Len(t) = Len(s) + 1
      /\ \A i \in 1..(Len(s) + 1) : t[i] = IF i < k THEN s[i] ELSE IF i = k THEN x ELSE s[i - 1]
  BY InsertAtFacts
<1> HIDE DEF t
<1>3. ASSUME NEW i \in 1..Len(t)
      PROVE  prev2[t[i]] = IF i = 1 THEN end ELSE t[i - 1]
  <2>0. i \in 1..(Len(s) + 1) /\ (i # 1 => i - 1 \in 1..(Len(s) + 1))
    BY <1>1, <1>2
  <2>1. CASE i < k
    <3>1. i \in 1..Len(s) /\ i # k
      BY <1>1, <1>2, <2>1
    <3>2. t[i] = s[i] /\ (i # 1 => t[i - 1] = s[i - 1])
      BY <1>1, <1>2, <2>0, <2>1, <3>1
    <3>3. prev[s[i]] = IF i = 1 THEN end ELSE s[i - 1]
      BY <3>1 DEF PrevLinks
    <3> QED
      BY <3>1, <3>2, <3>3
  <2>2. CASE i = k
    BY <1>1, <1>2, <2>0, <2>2
  <2>3. CASE i = k + 1
    BY <1>1, <1>2, <2>0, <2>3
  <2>4. CASE i > k + 1
    <3>1. i - 1 \in 1..Len(s) /\ i - 1 # k /\ i - 1 # 1 /\ i # 1
      BY <1>1, <1>2, <2>4
    <3>2. t[i] = s[i - 1] /\ t[i - 1] = s[i - 1 - 1]
      BY <1>1, <1>2, <2>0, <2>4
    <3>4. prev[s[i - 1]] = s[i - 1 - 1]
      BY <3>1 DEF PrevLinks
    <3> QED
      BY <3>1, <3>2, <3>4
  <2> QED
    BY <1>1, <2>1, <2>2, <2>3, <2>4
<1>4. LastOf(end, t) = IF k = Len(s) + 1 THEN x ELSE LastOf(end, s)
  BY <1>1, <1>2 DEF LastOf
<1>5. PrevLinks(end, prev2, t)
  BY <1>3 DEF PrevLinks
<1> QED
  BY <1>4, <1>5 DEF t

\* One write to the next links takes place k out: the one before it skips it.
LEMMA RemoveNext ==
  ASSUME NEW S, NEW s \in Seq(S), NEW k \in 1..Len(s),
         NEW end, NEW next, NEW next2, NextLinks(end, next, s),
         k > 1 => next2[s[k - 1]] = next[s[k]],
         \A i \in 1..Len(s) : i # k - 1 /\ i # k => next2[s[i]] = next[s[i]]
  PROVE  /\ NextLinks(end, next2, RemoveAt(s, k))
         /\ FirstOf(end, RemoveAt(s, k)) = IF k = 1 THEN next[s[1]] ELSE s[1]
<1> DEFINE t == RemoveAt(s, k)
<1>1. Len(s) \in Nat
  BY LenProperties
<1>2. /\ Len(t) = Len(s) - 1
      /\ \A i \in 1..(Len(s) - 1) : t[i] = IF i < k THEN s[i] ELSE s[i + 1]
  BY RemoveAtFacts
<1> HIDE DEF t
<1>3. ASSUME NEW i \in 1..Len(t)
      PROVE  next2[t[i]] = IF i = Len(t) THEN end ELSE t[i + 1]
  <2>0. i \in 1..(Len(s) - 1) /\ (i # Len(t) => i + 1 \in 1..(Len(s) - 1))
    BY <1>1, <1>2
  <2>1. CASE i < k - 1
    <3>1. i \in 1..Len(s) /\ i # k - 1 /\ i # k /\ i # Len(s) /\ i # Len(t) /\ i + 1 < k
      BY <1>1, <1>2, <2>1
    <3>2. t[i] = s[i] /\ t[i + 1] = s[i + 1]
      BY <1>1, <1>2, <2>0, <2>1, <3>1
    <3>3. next[s[i]] = s[i + 1]
      BY <3>1 DEF NextLinks
    <3> QED
      BY <3>1, <3>2, <3>3
  <2>2. CASE i = k - 1
    <3>1. k \in 1..Len(s) /\ k > 1 /\ (k = Len(s) <=> i = Len(t))
      BY <1>1, <1>2, <2>2
    <3>2. t[i] = s[k - 1] /\ (i # Len(t) => t[i + 1] = s[k + 1])
      BY <1>1, <1>2, <2>0, <2>2
    <3>3. next[s[k]] = IF k = Len(s) THEN end ELSE s[k + 1]
      BY <3>1 DEF NextLinks
    <3> QED
      BY <3>1, <3>2, <3>3
  <2>3. CASE i >= k
    <3>1. i + 1 \in 1..Len(s) /\ i + 1 # k - 1 /\ i + 1 # k /\ (i + 1 = Len(s) <=> i = Len(t))
      BY <1>1, <1>2, <2>3
    <3>2. t[i] = s[i + 1] /\ (i # Len(t) => t[i + 1] = s[i + 1 + 1])
      BY <1>1, <1>2, <2>0, <2>3
    <3>3. next[s[i + 1]] = IF i + 1 = Len(s) THEN end ELSE s[i + 1 + 1]
      BY <3>1 DEF NextLinks
    <3> QED
      BY <3>1, <3>2, <3>3
  <2> QED
    BY <1>1, <2>1, <2>2, <2>3
<1>4. FirstOf(end, t) = IF k = 1 THEN next[s[1]] ELSE s[1]
  <2>0. 1 \in 1..Len(s)
    BY <1>1
  <2>1. next[s[1]] = IF 1 = Len(s) THEN end ELSE s[1 + 1]
    BY <2>0 DEF NextLinks
  <2> QED
    BY <1>1, <1>2, <2>1 DEF FirstOf
<1>5. NextLinks(end, next2, t)
  BY <1>3 DEF NextLinks
<1> QED
  BY <1>4, <1>5 DEF t

\* The same for the previous links: the one after it skips it.
LEMMA RemovePrev ==
  ASSUME NEW S, NEW s \in Seq(S), NEW k \in 1..Len(s),
         NEW end, NEW prev, NEW prev2, PrevLinks(end, prev, s),
         k < Len(s) => prev2[s[k + 1]] = prev[s[k]],
         \A i \in 1..Len(s) : i # k + 1 /\ i # k => prev2[s[i]] = prev[s[i]]
  PROVE  /\ PrevLinks(end, prev2, RemoveAt(s, k))
         /\ LastOf(end, RemoveAt(s, k)) = IF k = Len(s) THEN prev[s[k]] ELSE s[Len(s)]
<1> DEFINE t == RemoveAt(s, k)
<1>1. Len(s) \in Nat
  BY LenProperties
<1>2. /\ Len(t) = Len(s) - 1
      /\ \A i \in 1..(Len(s) - 1) : t[i] = IF i < k THEN s[i] ELSE s[i + 1]
  BY RemoveAtFacts
<1> HIDE DEF t
<1>3. ASSUME NEW i \in 1..Len(t)
      PROVE  prev2[t[i]] = IF i = 1 THEN end ELSE t[i - 1]
  <2>0. i \in 1..(Len(s) - 1) /\ (i # 1 => i - 1 \in 1..(Len(s) - 1))
    BY <1>1, <1>2
  <2>1. CASE i < k
    <3>1. i \in 1..Len(s) /\ i # k + 1 /\ i # k
      BY <1>1, <1>2, <2>1
    <3>2. t[i] = s[i] /\ (i # 1 => t[i - 1] = s[i - 1])
      BY <1>1, <1>2, <2>0, <2>1, <3>1
    <3>3. prev[s[i]] = IF i = 1 THEN end ELSE s[i - 1]
      BY <3>1 DEF PrevLinks
    <3> QED
      BY <3>1, <3>2, <3>3
  <2>2. CASE i = k
    <3>1. k \in 1..Len(s) /\ k < Len(s)
      BY <1>1, <1>2, <2>2
    <3>2. t[i] = s[k + 1] /\ (i # 1 => t[i - 1] = s[k - 1])
      BY <1>1, <1>2, <2>0, <2>2
    <3>3. prev[s[k]] = IF k = 1 THEN end ELSE s[k - 1]
      BY <3>1 DEF PrevLinks
    <3> QED
      BY <2>2, <3>1, <3>2, <3>3
  <2>3. CASE i > k
    <3>1. i + 1 \in 1..Len(s) /\ i + 1 # k + 1 /\ i + 1 # k /\ i # 1 /\ i + 1 # 1
      BY <1>1, <1>2, <2>3
    <3>2. t[i] = s[i + 1] /\ t[i - 1] = s[i + 1 - 1]
      BY <1>1, <1>2, <2>0, <2>3
    <3>3. prev[s[i + 1]] = s[i + 1 - 1]
      BY <3>1 DEF PrevLinks
    <3> QED
      BY <3>1, <3>2, <3>3
  <2> QED
    BY <1>1, <2>1, <2>2, <2>3
<1>4. LastOf(end, t) = IF k = Len(s) THEN prev[s[k]] ELSE s[Len(s)]
  <2>1. prev[s[k]] = IF k = 1 THEN end ELSE s[k - 1]
    BY <1>1 DEF PrevLinks
  <2> QED
    BY <1>1, <1>2, <2>1 DEF LastOf
<1>5. PrevLinks(end, prev2, t)
  BY <1>3 DEF PrevLinks
<1> QED
  BY <1>4, <1>5 DEF t

\* The places of two sequences joined, and their neighbours.
LEMMA JoinedPlaces ==
  ASSUME NEW a \in Nat, NEW b \in Nat, NEW i \in 1..(a + b)
  PROVE  /\ i # a + b => i + 1 \in 1..(a + b)
         /\ i # 1 => i - 1 \in 1..(a + b)
         /\ i > a => /\ i - a \in 1..b /\ (i - a = b <=> i = a + b)
                     /\ i + 1 - a = i - a + 1
         /\ i > a + 1 => i # 1 /\ i - a \in 1..b /\ i - a # 1 /\ i - 1 - a = i - a - 1
OBVIOUS

\* One write to the next links appends a list to another.
LEMMA JoinNext ==
  ASSUME NEW S, NEW s \in Seq(S), NEW r \in Seq(S), Len(s) # 0, Len(r) # 0,
         NEW end, NEW next, NEW next2, NextLinks(end, next, s), NextLinks(end, next, r),
         next2[s[Len(s)]] = r[1],
         \A i \in 1..Len(s) : i # Len(s) => next2[s[i]] = next[s[i]],
         \A i \in 1..Len(r) : next2[r[i]] = next[r[i]]
  PROVE  NextLinks(end, next2, s \o r) /\ FirstOf(end, s \o r) = s[1]
<1> DEFINE t == s \o r
<1>1. Len(s) \in Nat /\ Len(r) \in Nat
  BY LenProperties
<1>2. /\ Len(t) = Len(s) + Len(r)
      /\ \A i \in 1..(Len(s) + Len(r)) : t[i] = IF i <= Len(s) THEN s[i] ELSE r[i - Len(s)]
  BY ConcatProperties
<1>6. Len(t) = Len(s) + Len(r)
  BY <1>2
<1> HIDE DEF t
<1>3. ASSUME NEW i \in 1..Len(t)
      PROVE  next2[t[i]] = IF i = Len(t) THEN end ELSE t[i + 1]
  <2>4. i \in 1..(Len(s) + Len(r))
    BY <1>6
  <2>0. i \in 1..(Len(s) + Len(r)) /\ (i # Len(t) => i + 1 \in 1..(Len(s) + Len(r)))
    BY <1>1, <1>6, <2>4, JoinedPlaces
  <2>1. CASE i < Len(s)
    <3>1. i \in 1..Len(s) /\ i # Len(s) /\ i # Len(t) /\ i + 1 <= Len(s)
      BY <1>1, <1>6, <2>1
    <3>2. t[i] = s[i] /\ t[i + 1] = s[i + 1]
      BY <1>1, <1>2, <2>0, <2>1, <3>1
    <3>3. next[s[i]] = s[i + 1]
      BY <3>1 DEF NextLinks
    <3> QED
      BY <3>1, <3>2, <3>3
  <2>2. CASE i = Len(s)
    BY <1>1, <1>2, <2>0, <2>2
  <2>3. CASE i > Len(s)
    <3>1. /\ i - Len(s) \in 1..Len(r) /\ (i - Len(s) = Len(r) <=> i = Len(t))
          /\ i + 1 - Len(s) = i - Len(s) + 1
      BY <1>1, <1>6, <2>3, <2>4, JoinedPlaces
    <3>2. t[i] = r[i - Len(s)] /\ (i # Len(t) => t[i + 1] = r[i - Len(s) + 1])
      BY <1>1, <1>2, <2>0, <2>3, <3>1
    <3>3. next[r[i - Len(s)]] = IF i - Len(s) = Len(r) THEN end ELSE r[i - Len(s) + 1]
      BY <3>1 DEF NextLinks
    <3> QED
      BY <3>1, <3>2, <3>3
  <2> QED
    BY <1>1, <2>1, <2>2, <2>3
<1>4. FirstOf(end, t) = s[1]
  BY <1>1, <1>2 DEF FirstOf
<1>5. NextLinks(end, next2, t)
  BY <1>3 DEF NextLinks
<1> QED
  BY <1>4, <1>5 DEF t

\* One write to the previous links appends a list to another.
LEMMA JoinPrev ==
  ASSUME NEW S, NEW s \in Seq(S), NEW r \in Seq(S), Len(s) # 0, Len(r) # 0,
         NEW end, NEW prev, NEW prev2, PrevLinks(end, prev, s), PrevLinks(end, prev, r),
         prev2[r[1]] = s[Len(s)],
         \A i \in 1..Len(s) : prev2[s[i]] = prev[s[i]],
         \A i \in 1..Len(r) : i # 1 => prev2[r[i]] = prev[r[i]]
  PROVE  PrevLinks(end, prev2, s \o r) /\ LastOf(end, s \o r) = r[Len(r)]
<1> DEFINE t == s \o r
<1>1. Len(s) \in Nat /\ Len(r) \in Nat
  BY LenProperties
<1>2. /\ Len(t) = Len(s) + Len(r)
      /\ \A i \in 1..(Len(s) + Len(r)) : t[i] = IF i <= Len(s) THEN s[i] ELSE r[i - Len(s)]
  BY ConcatProperties
<1>6. Len(t) = Len(s) + Len(r)
  BY <1>2
<1> HIDE DEF t
<1>3. ASSUME NEW i \in 1..Len(t)
      PROVE  prev2[t[i]] = IF i = 1 THEN end ELSE t[i - 1]
  <2>4. i \in 1..(Len(s) + Len(r))
    BY <1>6
  <2>0. i \in 1..(Len(s) + Len(r)) /\ (i # 1 => i - 1 \in 1..(Len(s) + Len(r)))
    BY <1>1, <1>6, <2>4, JoinedPlaces
  <2>1. CASE i <= Len(s)
    <3>1. i \in 1..Len(s) /\ i - 1 <= Len(s)
      BY <1>1, <1>6, <2>1
    <3>2. t[i] = s[i] /\ (i # 1 => t[i - 1] = s[i - 1])
      BY <1>1, <1>2, <2>0, <2>1, <3>1
    <3>3. prev[s[i]] = IF i = 1 THEN end ELSE s[i - 1]
      BY <3>1 DEF PrevLinks
    <3> QED
      BY <3>1, <3>2, <3>3
  <2>2. CASE i = Len(s) + 1
    BY <1>1, <1>2, <2>0, <2>2
  <2>3. CASE i > Len(s) + 1
    <3>1. /\ i - Len(s) \in 1..Len(r) /\ i # 1 /\ i - Len(s) # 1
          /\ i - 1 - Len(s) = i - Len(s) - 1
      BY <1>1, <1>6, <2>3, <2>4, JoinedPlaces
    <3>2. t[i] = r[i - Len(s)] /\ t[i - 1] = r[i - Len(s) - 1]
      BY <1>1, <1>2, <2>0, <2>3, <3>1
    <3>3. prev[r[i - Len(s)]] = r[i - Len(s) - 1]
      BY <3>1 DEF PrevLinks
    <3> QED
      BY <3>1, <3>2, <3>3
  <2> QED
    BY <1>1, <2>1, <2>2, <2>3
<1>4. LastOf(end, t) = r[Len(r)]
  BY <1>1, <1>2 DEF LastOf
<1>5. PrevLinks(end, prev2, t)
  BY <1>3 DEF PrevLinks
<1> QED
  BY <1>4, <1>5 DEF t

\* Previous links read as next links are those of the sequence backwards.
LEMMA ReverseNext ==
  ASSUME NEW S, NEW s \in Seq(S), Distinct(s), NEW end, NEW prev, PrevLinks(end, prev, s)
  PROVE  /\ NextLinks(end, prev, Reverse(s)) /\ Distinct(Reverse(s))
         /\ FirstOf(end, Reverse(s)) = LastOf(end, s)
<1> DEFINE t == Reverse(s)
<1>1. Len(s) \in Nat
  BY LenProperties
<1>2. Len(t) = Len(s) /\ \A i \in 1..Len(s) : t[i] = s[Len(s) - i + 1]
  BY ReverseFacts
<1> HIDE DEF t
<1>3. ASSUME NEW i \in 1..Len(t)
      PROVE  prev[t[i]] = IF i = Len(t) THEN end ELSE t[i + 1]
  <2>1. /\ Len(s) - i + 1 \in 1..Len(s) /\ (i = Len(t) <=> Len(s) - i + 1 = 1)
        /\ (i # Len(t) => i + 1 \in 1..Len(s)) /\ Len(s) - (i + 1) + 1 = Len(s) - i + 1 - 1
    BY <1>1, <1>2
  <2>2. prev[s[Len(s) - i + 1]] = IF Len(s) - i + 1 = 1 THEN end ELSE s[Len(s) - i + 1 - 1]
    BY <2>1 DEF PrevLinks
  <2>3. t[i] = s[Len(s) - i + 1] /\ (i # Len(t) => t[i + 1] = s[Len(s) - (i + 1) + 1])
    BY <1>2, <2>1
  <2> QED
    BY <2>1, <2>2, <2>3
<1>4. ASSUME NEW i \in 1..Len(t), NEW j \in 1..Len(t), t[i] = t[j]
      PROVE  i = j
  <2>1. Len(s) - i + 1 \in 1..Len(s) /\ Len(s) - j + 1 \in 1..Len(s)
    BY <1>1, <1>2
  <2>2. Len(s) - i + 1 = Len(s) - j + 1
    BY <1>2, <1>4, <2>1 DEF Distinct
  <2> QED
    BY <1>1, <1>2, <2>2
<1>5. FirstOf(end, t) = LastOf(end, s)
  BY <1>1, <1>2 DEF FirstOf, LastOf
<1>6. NextLinks(end, prev, t) /\ Distinct(t)
  BY <1>3, <1>4 DEF NextLinks, Distinct
<1> QED
  BY <1>5, <1>6 DEF t

\* From any element on, the next links are those of the rest of the sequence.
LEMMA SuffixNext ==
  ASSUME NEW S, NEW s \in Seq(S), Distinct(s), NEW end, NEW next, NextLinks(end, next, s),
         NEW k \in 1..Len(s)
  PROVE  LET t == SubSeq(s, k, Len(s)) IN
         /\ t \in Seq(S) /\ Distinct(t) /\ NextLinks(end, next, t) /\ FirstOf(end, t) = s[k]
         /\ Len(t) = Len(s) - k + 1
         /\ \A i \in 1..Len(t) : t[i] = s[k + i - 1]
<1> DEFINE t == SubSeq(s, k, Len(s))
<1>1. Len(s) \in Nat /\ Len(s) \in Int /\ k \in Int
  BY LenProperties
<1>2. t \in Seq(S) /\ Len(t) = Len(s) - k + 1 /\ \A i \in 1..(Len(s) - k + 1) : t[i] = s[k + i - 1]
  <2>1. \A i \in k..Len(s) : s[i] \in S
    BY <1>1, ElementOfSeq
  <2>2. /\ t \in Seq(S)
        /\ Len(t) = IF k <= Len(s) THEN Len(s) - k + 1 ELSE 0
        /\ \A i \in 1..(Len(s) - k + 1) : t[i] = s[k + i - 1]
    BY <1>1, <2>1, SubSeqProperties
  <2> HIDE DEF t
  <2> QED
    BY <1>1, <2>2
<1> HIDE DEF t
<1>3. ASSUME NEW i \in 1..Len(t)
      PROVE  next[t[i]] = IF i = Len(t) THEN end ELSE t[i + 1]
  <2>0. i \in 1..(Len(s) - k + 1) /\ Len(t) = Len(s) - k + 1
    BY <1>2
  <2>1. /\ k + i - 1 \in 1..Len(s) /\ (i = Len(t) <=> k + i - 1 = Len(s))
        /\ (i # Len(t) => i + 1 \in 1..(Len(s) - k + 1)) /\ k + (i + 1) - 1 = k + i - 1 + 1
    BY <1>1, <2>0
  <2>2. next[s[k + i - 1]] = IF k + i - 1 = Len(s) THEN end ELSE s[k + i - 1 + 1]
    BY <2>1 DEF NextLinks
  <2>3. t[i] = s[k + i - 1] /\ (i # Len(t) => t[i + 1] = s[k + (i + 1) - 1])
    BY <1>2, <2>0, <2>1
  <2> QED
    BY <2>1, <2>2, <2>3
<1>4. ASSUME NEW i \in 1..Len(t), NEW j \in 1..Len(t), t[i] = t[j]
      PROVE  i = j
  <2>1. k + i - 1 \in 1..Len(s) /\ k + j - 1 \in 1..Len(s)
    BY <1>1, <1>2
  <2>2. t[i] = s[k + i - 1] /\ t[j] = s[k + j - 1]
    BY <1>1, <1>2
  <2>3. k + i - 1 = k + j - 1
    BY <1>4, <2>1, <2>2 DEF Distinct
  <2> QED
    BY <1>1, <1>2, <2>3
<1>5. FirstOf(end, t) = s[k]
  BY <1>1, <1>2 DEF FirstOf
<1>6. NextLinks(end, next, t) /\ Distinct(t)
  BY <1>3, <1>4 DEF NextLinks, Distinct
<1> QED
  BY <1>1, <1>2, <1>5, <1>6 DEF t

-----------------------------------------------------------------------------
(* Several lists over one set of objects.                                  *)

\* One sequence for each list, and no object twice, neither in one list nor in two.
Sequences(L, S, s) ==
  /\ s \in [L -> Seq(S)]
  /\ \A l, m \in L : \A i \in 1..Len(s[l]), j \in 1..Len(s[m]) :
       s[l][i] = s[m][j] => l = m /\ i = j

\* x is in one of the lists.
Holds(L, s, x) == \E l \in L : \E i \in 1..Len(s[l]) : s[l][i] = x

\* The heads and the next links are those of the sequences s.
AllNext(L, end, next, head, s) ==
  \A l \in L : head[l] = FirstOf(end, s[l]) /\ NextLinks(end, next, s[l])

\* The tails and the previous links are those of the sequences s.
AllPrev(L, end, prev, tail, s) ==
  \A l \in L : tail[l] = LastOf(end, s[l]) /\ PrevLinks(end, prev, s[l])

\* What the calls do to the sequences: x is inserted in l at place k.
Inserted(s, l, k, x) == [s EXCEPT ![l] = InsertAt(s[l], k, x)]

\* Place k of l is taken out.
Removed(s, l, k) == [s EXCEPT ![l] = RemoveAt(s[l], k)]

\* l and m change their contents.
Swapped(s, l, m) == [s EXCEPT ![l] = s[m], ![m] = s[l]]

\* What m holds goes to the end of l.
Joined(s, l, m) == [s EXCEPT ![l] = s[l] \o s[m], ![m] = <<>>]

\* l is emptied.
Cleared(s, l) == [s EXCEPT ![l] = <<>>]

\* What each list of Sequences is.
LEMMA SequencesParts ==
  ASSUME NEW L, NEW S, NEW s, Sequences(L, S, s), NEW l \in L
  PROVE  /\ s[l] \in Seq(S) /\ Distinct(s[l]) /\ Len(s[l]) \in Nat
         /\ \A i \in 1..Len(s[l]) : s[l][i] \in S
<1>1. s[l] \in Seq(S)
  BY DEF Sequences
<1>2. Distinct(s[l])
  BY DEF Sequences, Distinct
<1> QED
  BY <1>1, <1>2, LenProperties, ElementOfSeq

\* An object that is in no list may be inserted in any of them.
LEMMA InsertSequences ==
  ASSUME NEW L, NEW S, NEW s, Sequences(L, S, s), NEW l \in L, NEW x \in S,
         ~Holds(L, s, x), NEW k \in 1..(Len(s[l]) + 1)
  PROVE  LET t == Inserted(s, l, k, x) IN
         /\ Sequences(L, S, t)
         /\ \A y : Holds(L, t, y) <=> y = x \/ Holds(L, s, y)
<1> DEFINE t == [s EXCEPT ![l] = InsertAt(s[l], k, x)]
           From(m, i) == IF m = l /\ i > k THEN i - 1 ELSE i
<1>0. Len(s[l]) \in Nat
  BY SequencesParts
<1>1. s[l] \in Seq(S)
  BY SequencesParts
<1>2. /\ t[l] \in Seq(S) /\ Len(t[l]) = Len(s[l]) + 1
      /\ \A i \in 1..(Len(s[l]) + 1) :
           t[l][i] = IF i < k THEN s[l][i] ELSE IF i = k THEN x ELSE s[l][i - 1]
  <2>1. t[l] = InsertAt(s[l], k, x)
    BY DEF Sequences
  <2> QED
    BY <1>1, <2>1, InsertAtFacts
<1>3. \A m \in L : m # l => t[m] = s[m]
  BY DEF Sequences
<1>4. t \in [L -> Seq(S)]
  <2>1. InsertAt(s[l], k, x) \in Seq(S)
    BY <1>1, InsertAtFacts
  <2> QED
    BY <2>1 DEF Sequences
<1> HIDE DEF t
<1>5. ASSUME NEW m \in L, NEW i \in 1..Len(t[m])
      PROVE  IF m = l /\ i = k THEN t[m][i] = x
             ELSE From(m, i) \in 1..Len(s[m]) /\ t[m][i] = s[m][From(m, i)]
  <2>1. CASE m # l
    BY <1>3, <2>1
  <2>2. CASE m = l
    <3>1. i \in 1..(Len(s[l]) + 1) /\ k \in 1..(Len(s[l]) + 1)
      BY <1>2, <2>2
    <3>2. t[l][i] = IF i < k THEN s[l][i] ELSE IF i = k THEN x ELSE s[l][i - 1]
      BY <1>2, <3>1
    <3>3. i # k => From(l, i) \in 1..Len(s[l])
      BY <1>0, <3>1
    <3> QED
      BY <1>0, <2>2, <3>1, <3>2, <3>3
  <2> QED
    BY <2>1, <2>2
<1>6. ASSUME NEW m \in L, NEW n \in L, NEW i \in 1..Len(t[m]), NEW j \in 1..Len(t[n]),
             t[m][i] = t[n][j]
      PROVE  m = n /\ i = j
  <2>0. \A o \in L : \A h \in 1..Len(s[o]) : s[o][h] # x
    BY DEF Holds
  <2> DEFINE p == From(m, i)
             q == From(n, j)
  <2>4. IF m = l /\ i = k THEN t[m][i] = x ELSE p \in 1..Len(s[m]) /\ t[m][i] = s[m][p]
    BY <1>5
  <2>5. IF n = l /\ j = k THEN t[n][j] = x ELSE q \in 1..Len(s[n]) /\ t[n][j] = s[n][q]
    BY <1>5
  <2> HIDE DEF p, q
  <2>1. CASE m = l /\ i = k
    <3>1. t[n][j] = x
      BY <1>6, <2>1, <2>4
    <3>2. n = l /\ j = k
      BY <2>0, <2>5, <3>1
    <3> QED
      BY <2>1, <3>2
  <2>2. CASE n = l /\ j = k
    <3>1. t[m][i] = x
      BY <1>6, <2>2, <2>5
    <3>2. m = l /\ i = k
      BY <2>0, <2>4, <3>1
    <3> QED
      BY <2>2, <3>2
  <2>3. CASE ~(m = l /\ i = k) /\ ~(n = l /\ j = k)
    <3>1. p \in 1..Len(s[m]) /\ q \in 1..Len(s[n]) /\ s[m][p] = s[n][q]
      BY <1>6, <2>3, <2>4, <2>5
    <3>2. m = n /\ p = q
      BY <3>1 DEF Sequences
    <3>3. i \in Int /\ j \in Int
      OBVIOUS
    <3> QED
      BY <2>3, <3>2, <3>3 DEF p, q
  <2> QED
    BY <2>1, <2>2, <2>3
<1>7. Sequences(L, S, t)
  BY <1>4, <1>6 DEF Sequences
<1>8. ASSUME NEW y
      PROVE  Holds(L, t, y) <=> y = x \/ Holds(L, s, y)
  <2>1. ASSUME Holds(L, t, y)
        PROVE  y = x \/ Holds(L, s, y)
    BY <1>5, <2>1 DEF Holds
  <2>2. ASSUME y = x
        PROVE  Holds(L, t, y)
    <3>1. k \in 1..Len(t[l]) /\ t[l][k] = x
      BY <1>0, <1>2
    <3> QED
      BY <2>2, <3>1 DEF Holds
  <2>3. ASSUME Holds(L, s, y)
        PROVE  Holds(L, t, y)
    <3>1. PICK m \in L : \E i \in 1..Len(s[m]) : s[m][i] = y
      BY <2>3 DEF Holds
    <3>2. PICK i \in 1..Len(s[m]) : s[m][i] = y
      BY <3>1
    <3>3. CASE m # l
      BY <1>3, <3>2, <3>3 DEF Holds
    <3>4. CASE m = l /\ i < k
      <4>1. i \in 1..Len(s[l]) /\ s[l][i] = y
        BY <3>2, <3>4
      <4>2. i \in 1..Len(t[l]) /\ t[l][i] = y
        BY <1>0, <1>2, <3>4, <4>1
      <4> QED
        BY <4>2 DEF Holds
    <3>5. CASE m = l /\ i >= k
      <4>1. i + 1 \in 1..(Len(s[l]) + 1) /\ i + 1 > k /\ i + 1 - 1 = i /\ i + 1 \in 1..Len(t[l])
        BY <1>0, <1>2, <3>5
      <4>2. t[l][i + 1] = y
        BY <1>0, <1>2, <3>2, <3>5, <4>1
      <4> QED
        BY <4>1, <4>2 DEF Holds
    <3> QED
      BY <3>3, <3>4, <3>5
  <2> QED
    BY <2>1, <2>2, <2>3
<1> QED
  BY <1>7, <1>8 DEF Inserted, t

\* A removal leaves the other objects in their lists.
LEMMA RemoveSequences ==
  ASSUME NEW L, NEW S, NEW s, Sequences(L, S, s), NEW l \in L, NEW k \in 1..Len(s[l])
  PROVE  LET t == Removed(s, l, k) IN
         /\ Sequences(L, S, t)
         /\ \A y : Holds(L, t, y) <=> y # s[l][k] /\ Holds(L, s, y)
<1> DEFINE t == [s EXCEPT ![l] = RemoveAt(s[l], k)]
           From(m, i) == IF m = l /\ i >= k THEN i + 1 ELSE i
<1>0. Len(s[l]) \in Nat
  BY SequencesParts
<1>1. s[l] \in Seq(S)
  BY SequencesParts
<1>2. /\ t[l] \in Seq(S) /\ Len(t[l]) = Len(s[l]) - 1
      /\ \A i \in 1..(Len(s[l]) - 1) : t[l][i] = IF i < k THEN s[l][i] ELSE s[l][i + 1]
  <2>1. t[l] = RemoveAt(s[l], k)
    BY DEF Sequences
  <2> QED
    BY <1>1, <2>1, RemoveAtFacts
<1>3. \A m \in L : m # l => t[m] = s[m]
  BY DEF Sequences
<1>4. t \in [L -> Seq(S)]
  <2>1. RemoveAt(s[l], k) \in Seq(S)
    BY <1>1, RemoveAtFacts
  <2> QED
    BY <2>1 DEF Sequences
<1> HIDE DEF t
<1>5. ASSUME NEW m \in L, NEW i \in 1..Len(t[m])
      PROVE  /\ From(m, i) \in 1..Len(s[m]) /\ t[m][i] = s[m][From(m, i)]
             /\ ~(m = l /\ From(m, i) = k)
  <2>1. CASE m # l
    BY <1>3, <2>1
  <2>2. CASE m = l
    <3>1. i \in 1..(Len(s[l]) - 1) /\ k \in 1..Len(s[l])
      BY <1>2, <2>2
    <3>2. t[l][i] = IF i < k THEN s[l][i] ELSE s[l][i + 1]
      BY <1>2, <3>1
    <3>3. From(l, i) \in 1..Len(s[l]) /\ From(l, i) # k
      BY <1>0, <3>1
    <3> QED
      BY <1>0, <2>2, <3>1, <3>2, <3>3
  <2> QED
    BY <2>1, <2>2
<1>6. ASSUME NEW m \in L, NEW n \in L, NEW i \in 1..Len(t[m]), NEW j \in 1..Len(t[n]),
             t[m][i] = t[n][j]
      PROVE  m = n /\ i = j
  <2>1. /\ From(m, i) \in 1..Len(s[m]) /\ t[m][i] = s[m][From(m, i)]
        /\ From(n, j) \in 1..Len(s[n]) /\ t[n][j] = s[n][From(n, j)]
    BY <1>5
  <2>2. m = n /\ From(m, i) = From(n, j)
    <3> DEFINE p == From(m, i)
               q == From(n, j)
    <3>1. p \in 1..Len(s[m]) /\ q \in 1..Len(s[n]) /\ s[m][p] = s[n][q]
      BY <1>6, <2>1
    <3> HIDE DEF p, q
    <3>2. m = n /\ p = q
      BY <3>1 DEF Sequences
    <3> QED
      BY <3>2 DEF p, q
  <2>3. i \in Int /\ j \in Int /\ k \in Int
    OBVIOUS
  <2> QED
    BY <2>2, <2>3
<1>7. Sequences(L, S, t)
  BY <1>4, <1>6 DEF Sequences
<1>8. ASSUME NEW y
      PROVE  Holds(L, t, y) <=> y # s[l][k] /\ Holds(L, s, y)
  <2>1. ASSUME Holds(L, t, y)
        PROVE  y # s[l][k] /\ Holds(L, s, y)
    <3>1. PICK m \in L : \E i \in 1..Len(t[m]) : t[m][i] = y
      BY <2>1 DEF Holds
    <3>2. PICK i \in 1..Len(t[m]) : t[m][i] = y
      BY <3>1
    <3>3. /\ From(m, i) \in 1..Len(s[m]) /\ y = s[m][From(m, i)]
          /\ ~(m = l /\ From(m, i) = k)
      BY <1>5, <3>2
    <3>4. y # s[l][k]
      BY <3>3 DEF Sequences
    <3> HIDE DEF From
    <3> QED
      BY <3>3, <3>4 DEF Holds
  <2>2. ASSUME y # s[l][k], Holds(L, s, y)
        PROVE  Holds(L, t, y)
    <3>1. PICK m \in L : \E i \in 1..Len(s[m]) : s[m][i] = y
      BY <2>2 DEF Holds
    <3>2. PICK i \in 1..Len(s[m]) : s[m][i] = y
      BY <3>1
    <3>3. CASE m # l
      BY <1>3, <3>2, <3>3 DEF Holds
    <3>4. CASE m = l /\ i < k
      <4>1. i \in 1..Len(s[l]) /\ s[l][i] = y
        BY <3>2, <3>4
      <4>2. i \in 1..Len(t[l]) /\ t[l][i] = y
        BY <1>0, <1>2, <3>4, <4>1
      <4> QED
        BY <4>2 DEF Holds
    <3>5. CASE m = l /\ i > k
      <4>1. i - 1 \in 1..(Len(s[l]) - 1) /\ i - 1 >= k /\ i - 1 + 1 = i /\ i - 1 \in 1..Len(t[l])
        BY <1>0, <1>2, <3>5
      <4>2. t[l][i - 1] = y
        BY <1>0, <1>2, <3>2, <3>5, <4>1
      <4> QED
        BY <4>1, <4>2 DEF Holds
    <3>6. ~(m = l /\ i = k)
      BY <2>2, <3>2
    <3> QED
      BY <3>3, <3>4, <3>5, <3>6
  <2> QED
    BY <2>1, <2>2
<1> QED
  BY <1>7, <1>8 DEF Removed, t

\* Swapping two lists keeps every object in one.
LEMMA SwapSequences ==
  ASSUME NEW L, NEW S, NEW s, Sequences(L, S, s), NEW l \in L, NEW m \in L
  PROVE  LET t == Swapped(s, l, m) IN
         /\ Sequences(L, S, t)
         /\ \A y : Holds(L, t, y) <=> Holds(L, s, y)
<1> DEFINE t == [s EXCEPT ![l] = s[m], ![m] = s[l]]
           To(n) == IF n = l THEN m ELSE IF n = m THEN l ELSE n
<1>1. t \in [L -> Seq(S)]
  BY DEF Sequences
<1>2. \A n \in L : t[n] = s[To(n)] /\ To(n) \in L /\ To(To(n)) = n
  BY DEF Sequences
<1> HIDE DEF t
<1>3. ASSUME NEW n \in L, NEW o \in L, NEW i \in 1..Len(t[n]), NEW j \in 1..Len(t[o]),
             t[n][i] = t[o][j]
      PROVE  n = o /\ i = j
  <2> HIDE DEF To
  <2>1. To(n) = To(o) /\ i = j
    BY <1>2, <1>3 DEF Sequences
  <2> QED
    BY <1>2, <2>1
<1>4. \A y : Holds(L, t, y) <=> Holds(L, s, y)
  <2> HIDE DEF To
  <2>1. \A n \in L : To(n) \in L /\ s[n] = t[To(n)]
    BY <1>2
  <2> QED
    BY <1>2, <2>1 DEF Holds
<1> QED
  BY <1>1, <1>3, <1>4 DEF Swapped, t, Sequences

\* The places of two sequences and those of the two joined.
LEMMA JoinedIndex ==
  ASSUME NEW a \in Nat, NEW b \in Nat
  PROVE  /\ \A i \in 1..a : i \in 1..(a + b) /\ i <= a
         /\ \A i \in 1..b : i + a \in 1..(a + b) /\ ~(i + a <= a) /\ i + a - a = i
         /\ \A i \in 1..(a + b) : i > a => i - a \in 1..b /\ ~(i <= a)
OBVIOUS

\* Joining two lists keeps every object in one.
LEMMA JoinSequences ==
  ASSUME NEW L, NEW S, NEW s, Sequences(L, S, s), NEW l \in L, NEW m \in L, l # m
  PROVE  LET t == Joined(s, l, m) IN
         /\ Sequences(L, S, t)
         /\ \A y : Holds(L, t, y) <=> Holds(L, s, y)
<1> DEFINE t == [s EXCEPT ![l] = s[l] \o s[m], ![m] = <<>>]
           List2(n, i) == IF n = l /\ i > Len(s[l]) THEN m ELSE n
           From(n, i) == IF n = l /\ i > Len(s[l]) THEN i - Len(s[l]) ELSE i
<1>0. Len(s[l]) \in Nat /\ Len(s[m]) \in Nat
  BY SequencesParts
<1>1. s[l] \in Seq(S) /\ s[m] \in Seq(S)
  BY SequencesParts
<1>2. /\ s[l] \o s[m] \in Seq(S) /\ Len(s[l] \o s[m]) = Len(s[l]) + Len(s[m])
      /\ \A i \in 1..(Len(s[l]) + Len(s[m])) :
           (s[l] \o s[m])[i] = IF i <= Len(s[l]) THEN s[l][i] ELSE s[m][i - Len(s[l])]
  BY <1>1, ConcatProperties
<1>3. t[l] = s[l] \o s[m] /\ t[m] = <<>> /\ \A n \in L : n # l /\ n # m => t[n] = s[n]
  BY DEF Sequences
<1>4. t \in [L -> Seq(S)]
  <2>1. <<>> \in Seq(S) /\ s[l] \o s[m] \in Seq(S) /\ s \in [L -> Seq(S)]
    BY <1>2 DEF Sequences
  <2>2. \A c : c \in Seq(S) => [s EXCEPT ![l] = c, ![m] = <<>>] \in [L -> Seq(S)]
    BY <2>1
  <2> QED
    BY <2>1, <2>2
<1>5. Len(t[m]) = 0
  BY <1>3
<1> HIDE DEF t
<1>6. ASSUME NEW n \in L, NEW i \in 1..Len(t[n])
      PROVE  /\ List2(n, i) \in L /\ From(n, i) \in 1..Len(s[List2(n, i)])
             /\ t[n][i] = s[List2(n, i)][From(n, i)] /\ n # m
  <2>1. CASE n = l
    <3>1. i \in 1..(Len(s[l]) + Len(s[m]))
      BY <1>2, <1>3, <2>1
    <3>2. t[l][i] = IF i <= Len(s[l]) THEN s[l][i] ELSE s[m][i - Len(s[l])]
      BY <1>2, <1>3, <3>1
    <3>3. CASE i <= Len(s[l])
      BY <1>0, <2>1, <3>1, <3>2, <3>3
    <3>4. CASE i > Len(s[l])
      <4>1. i - Len(s[l]) \in 1..Len(s[m]) /\ ~(i <= Len(s[l]))
        BY <1>0, <3>1, <3>4, JoinedIndex
      <4> QED
        BY <2>1, <3>2, <3>4, <4>1
    <3> QED
      BY <1>0, <3>1, <3>3, <3>4
  <2>2. CASE n # l
    <3>1. n # m
      BY <1>5
    <3> QED
      BY <1>3, <2>2, <3>1
  <2> QED
    BY <2>1, <2>2
<1>7. ASSUME NEW n \in L, NEW o \in L, NEW i \in 1..Len(t[n]), NEW j \in 1..Len(t[o]),
             t[n][i] = t[o][j]
      PROVE  n = o /\ i = j
  <2>1. List2(n, i) = List2(o, j) /\ From(n, i) = From(o, j)
    <3> HIDE DEF List2, From
    <3> QED
      BY <1>6, <1>7, SMTT(40) DEF Sequences
  <2>2. n # m /\ o # m
    BY <1>6
  <2>3. i \in Int /\ j \in Int
    OBVIOUS
  <2> QED
    BY <1>0, <2>1, <2>2, <2>3
<1>8. ASSUME NEW y
      PROVE  Holds(L, t, y) <=> Holds(L, s, y)
  <2>1. ASSUME Holds(L, t, y)
        PROVE  Holds(L, s, y)
    <3>1. PICK n \in L : \E i \in 1..Len(t[n]) : t[n][i] = y
      BY <2>1 DEF Holds
    <3>2. PICK i \in 1..Len(t[n]) : t[n][i] = y
      BY <3>1
    <3> HIDE DEF List2, From
    <3>3. /\ List2(n, i) \in L /\ From(n, i) \in 1..Len(s[List2(n, i)])
          /\ y = s[List2(n, i)][From(n, i)]
      BY <1>6, <3>2
    <3> QED
      BY <3>3 DEF Holds
  <2>2. ASSUME Holds(L, s, y)
        PROVE  Holds(L, t, y)
    <3>1. PICK n \in L : \E i \in 1..Len(s[n]) : s[n][i] = y
      BY <2>2 DEF Holds
    <3>2. PICK i \in 1..Len(s[n]) : s[n][i] = y
      BY <3>1
    <3>3. CASE n # l /\ n # m
      BY <1>3, <3>2, <3>3 DEF Holds
    <3>4. CASE n = l
      <4>1. i \in 1..Len(s[l]) /\ s[l][i] = y
        BY <3>2, <3>4
      <4>2. i \in 1..(Len(s[l]) + Len(s[m])) /\ i <= Len(s[l])
        BY <1>0, <4>1, JoinedIndex
      <4>3. i \in 1..Len(t[l]) /\ t[l][i] = y
        BY <1>2, <1>3, <4>1, <4>2
      <4> QED
        BY <4>3 DEF Holds
    <3>5. CASE n = m
      <4>0. i \in 1..Len(s[m]) /\ s[m][i] = y
        BY <3>2, <3>5
      <4>1. /\ i + Len(s[l]) \in 1..(Len(s[l]) + Len(s[m])) /\ ~(i + Len(s[l]) <= Len(s[l]))
            /\ i + Len(s[l]) - Len(s[l]) = i
        BY <1>0, <4>0, JoinedIndex
      <4>2. t[l][i + Len(s[l])] = y /\ i + Len(s[l]) \in 1..Len(t[l])
        <5>1. (s[l] \o s[m])[i + Len(s[l])] = s[m][i + Len(s[l]) - Len(s[l])]
          BY <1>2, <4>1
        <5>2. i + Len(s[l]) \in 1..Len(t[l])
          BY <1>2, <1>3, <4>1
        <5> QED
          BY <1>3, <4>0, <4>1, <5>1, <5>2
      <4> QED
        BY <4>2 DEF Holds
    <3> QED
      BY <3>3, <3>4, <3>5
  <2> QED
    BY <2>1, <2>2
<1> QED
  BY <1>4, <1>7, <1>8 DEF Joined, t, Sequences

\* Clearing a list keeps the objects of the others.
LEMMA ClearSequences ==
  ASSUME NEW L, NEW S, NEW s, Sequences(L, S, s), NEW l \in L
  PROVE  LET t == Cleared(s, l) IN
         /\ Sequences(L, S, t)
         /\ \A y : Holds(L, t, y) <=> Holds(L, s, y) /\ \A i \in 1..Len(s[l]) : s[l][i] # y
<1> DEFINE t == [s EXCEPT ![l] = <<>>]
<1>1. t[l] = <<>> /\ \A n \in L : n # l => t[n] = s[n]
  BY DEF Sequences
<1>2. t \in [L -> Seq(S)]
  BY DEF Sequences
<1>3. Len(t[l]) = 0
  BY <1>1
<1> HIDE DEF t
<1>4. Sequences(L, S, t)
  <2>1. ASSUME NEW m \in L, NEW n \in L, NEW i \in 1..Len(t[m]), NEW j \in 1..Len(t[n]),
               t[m][i] = t[n][j]
        PROVE  m = n /\ i = j
    <3>1. m # l /\ n # l
      BY <1>3
    <3>2. i \in 1..Len(s[m]) /\ j \in 1..Len(s[n]) /\ s[m][i] = s[n][j]
      BY <1>1, <2>1, <3>1
    <3> QED
      BY <3>2 DEF Sequences
  <2> QED
    BY <1>2, <2>1 DEF Sequences
<1>5. ASSUME NEW y
      PROVE  Holds(L, t, y) <=> Holds(L, s, y) /\ \A i \in 1..Len(s[l]) : s[l][i] # y
  <2>1. ASSUME NEW m \in L, NEW i \in 1..Len(t[m]), t[m][i] = y
        PROVE  Holds(L, s, y) /\ \A j \in 1..Len(s[l]) : s[l][j] # y
    <3>1. m # l
      BY <1>3
    <3>2. i \in 1..Len(s[m]) /\ s[m][i] = y
      BY <1>1, <2>1, <3>1
    <3> QED
      BY <3>1, <3>2 DEF Sequences, Holds
  <2>2. ASSUME NEW m \in L, NEW i \in 1..Len(s[m]), s[m][i] = y,
               \A j \in 1..Len(s[l]) : s[l][j] # y
        PROVE  Holds(L, t, y)
    BY <1>1, <2>2 DEF Holds
  <2> QED
    BY <2>1, <2>2 DEF Holds
<1> QED
  BY <1>4, <1>5 DEF Cleared, t

-----------------------------------------------------------------------------
(* What walking the links gives; the links of several lists.               *)

\* A set of numbers that is not empty has a least one.  It stands for the
\* induction a recursive walk would need.
LEMMA LeastNat ==
  ASSUME NEW T, T \subseteq Nat, T # {}
  PROVE  \E n \in T : \A m \in T : n <= m
<1>1. IsWellFoundedOn(OpToRel(<, Nat), Nat)
  BY NatLessThanWellFounded, Zenon
<1>2. PICK n \in T : \A m \in T : ~(<<m, n>> \in OpToRel(<, Nat))
  BY <1>1, WFMin, Zenon
<1>3. ASSUME NEW m \in T
      PROVE  n <= m
  <2>1. m \in Nat /\ n \in Nat
    OBVIOUS
  <2>2. ~(m < n)
    BY <1>2, <2>1 DEF OpToRel
  <2> QED
    BY <2>1, <2>2
<1> QED
  BY <1>3

\* A sequence without repetition is no longer than its elements are many.
LEMMA DistinctLength ==
  ASSUME NEW S, IsFiniteSet(S), NEW s \in Seq(S), Distinct(s)
  PROVE  Len(s) <= Cardinality(S) /\ Cardinality(S) \in Nat /\ Len(s) \in Nat
<1>1. s \in [1..Len(s) -> S] /\ Len(s) \in Nat
  BY LenProperties
<1>2. s \in Injection(1..Len(s), S)
  BY <1>1 DEF Injection, IsInjective, Distinct
<1>3. Cardinality(1..Len(s)) <= Cardinality(S)
  BY <1>2, FS_Injection
<1>4. Cardinality(1..Len(s)) = Len(s)
  <2>1. Len(s) \in Int
    BY <1>1
  <2>2. Cardinality(1..Len(s)) = IF 1 > Len(s) THEN 0 ELSE Len(s) - 1 + 1
    BY <2>1, FS_Interval
  <2> QED
    BY <1>1, <2>2
<1> QED
  BY <1>1, <1>3, <1>4, FS_CardinalityType

\* Walking the next links from the head gives the sequence they are the links of.
LEMMA WalkIs ==
  ASSUME NEW S, IsFiniteSet(S), NEW end, end \notin S, NEW next, NEW h,
         NEW s \in Seq(S), Distinct(s), NextLinks(end, next, s), h = FirstOf(end, s)
  PROVE  Walk(S, next, h) = s
<1> DEFINE N == Cardinality(S)
           Step(x) == IF x \in S THEN next[x] ELSE x
           at[n \in 0..N] == IF n = 0 THEN h ELSE Step(at[n - 1])
           f0 == [n \in 0..N |-> IF n < Len(s) THEN s[n + 1] ELSE end]
           met == Cardinality({n \in 0..N : at[n] \in S})
<1>1. N \in Nat /\ Len(s) \in Nat /\ Len(s) <= N
  BY DistinctLength
<1>2. \A n \in 0..N : f0[n] = IF n = 0 THEN h ELSE Step(f0[n - 1])
  <2> SUFFICES ASSUME NEW n \in 0..N
               PROVE  f0[n] = IF n = 0 THEN h ELSE Step(f0[n - 1])
    OBVIOUS
  <2>1. CASE n = 0
    BY <2>1, <1>1 DEF FirstOf
  <2>2. CASE n # 0 /\ n - 1 < Len(s)
    <3>1. n \in 1..Len(s) /\ n - 1 \in 0..N
      BY <1>1, <2>2
    <3>2. f0[n - 1] = s[n]
      BY <1>1, <3>1
    <3>3. s[n] \in S
      BY <3>1, ElementOfSeq
    <3>4. next[s[n]] = IF n = Len(s) THEN end ELSE s[n + 1]
      BY <3>1 DEF NextLinks
    <3>5. f0[n] = IF n < Len(s) THEN s[n + 1] ELSE end
      OBVIOUS
    <3> QED
      BY <1>1, <2>2, <3>1, <3>2, <3>3, <3>4, <3>5
  <2>3. CASE n # 0 /\ ~(n - 1 < Len(s))
    BY <1>1, <2>3
  <2> QED
    BY <2>1, <2>2, <2>3
<1>3. f0 = [n \in 0..N |-> IF n = 0 THEN h ELSE Step(f0[n - 1])]
  BY <1>2
<1>4. at = [n \in 0..N |-> IF n = 0 THEN h ELSE Step(at[n - 1])]
  <2> HIDE DEF f0, N, Step
  <2> QED
    BY <1>3
<1>5. \A n \in 0..N : at[n] = f0[n]
  <2> HIDE DEF at, f0, Step
  <2> DEFINE T == {n \in 0..N : at[n] # f0[n]}
  <2> SUFFICES T = {}
    OBVIOUS
  <2>1. SUFFICES ASSUME T # {}
                 PROVE  FALSE
    OBVIOUS
  <2>2. T \subseteq Nat
    BY <1>1
  <2>3. PICK n \in T : \A m \in T : n <= m
    <3> HIDE DEF T
    <3> QED
      BY <2>1, <2>2, LeastNat
  <2>4. n \in 0..N /\ n \in Nat /\ at[n] # f0[n]
    BY <1>1
  <2>5. at[n] = IF n = 0 THEN h ELSE Step(at[n - 1])
    BY <1>4, <2>4
  <2>6. f0[n] = IF n = 0 THEN h ELSE Step(f0[n - 1])
    BY <1>2, <2>4
  <2>7. n # 0
    BY <2>4, <2>5, <2>6
  <2>8. n - 1 \in 0..N /\ ~(n <= n - 1)
    BY <1>1, <2>4, <2>7
  <2>9. at[n - 1] = f0[n - 1]
    BY <2>3, <2>8
  <2> QED
    BY <2>4, <2>5, <2>6, <2>7, <2>9
<1>6. {n \in 0..N : at[n] \in S} = 0..(Len(s) - 1)
  <2>1. \A n \in 0..N : f0[n] \in S <=> n < Len(s)
    <3> SUFFICES ASSUME NEW n \in 0..N
                 PROVE  f0[n] \in S <=> n < Len(s)
      OBVIOUS
    <3>1. CASE n < Len(s)
      <4>1. n + 1 \in 1..Len(s)
        BY <1>1, <3>1
      <4>2. s[n + 1] \in S
        BY <4>1, ElementOfSeq
      <4> QED
        BY <3>1, <4>2
    <3> QED
      BY <3>1
  <2> HIDE DEF f0, at
  <2> QED
    BY <1>1, <1>5, <2>1
<1>7. met = Len(s)
  <2>1. Len(s) - 1 \in Int /\ 0 \in Int
    BY <1>1
  <2>2. Cardinality(0..(Len(s) - 1)) = IF 0 > Len(s) - 1 THEN 0 ELSE Len(s) - 1 - 0 + 1
    BY <2>1, FS_Interval
  <2>3. met = Cardinality(0..(Len(s) - 1))
    BY <1>6
  <2> HIDE DEF met
  <2> QED
    BY <1>1, <2>2, <2>3
<1>8. Walk(S, next, h) = [i \in 1..met |-> at[i - 1]]
  BY DEF Walk
<1>9. \A i \in 1..Len(s) : at[i - 1] = s[i]
  <2> HIDE DEF at
  <2> SUFFICES ASSUME NEW i \in 1..Len(s)
               PROVE  at[i - 1] = s[i]
    OBVIOUS
  <2>1. i - 1 \in 0..N /\ i - 1 < Len(s) /\ i - 1 + 1 = i
    BY <1>1
  <2> QED
    BY <1>5, <2>1
<1>10. s = [i \in 1..Len(s) |-> s[i]]
  BY LenProperties
<1> HIDE DEF met, at
<1> QED
  BY <1>7, <1>8, <1>9, <1>10

\* Walking the previous links from the tail gives it backwards.
LEMMA WalkBackIs ==
  ASSUME NEW S, IsFiniteSet(S), NEW end, end \notin S, NEW prev, NEW t,
         NEW s \in Seq(S), Distinct(s), PrevLinks(end, prev, s), t = LastOf(end, s)
  PROVE  Walk(S, prev, t) = Reverse(s)
BY ReverseFacts, ReverseNext, WalkIs

\* An object is in one list, at one place.
LEMMA SameSlot ==
  ASSUME NEW L, NEW S, NEW s, Sequences(L, S, s), NEW l \in L, NEW m \in L,
         NEW i \in 1..Len(s[l]), NEW j \in 1..Len(s[m]), s[l][i] = s[m][j]
  PROVE  l = m /\ i = j
BY DEF Sequences

\* InsertNext, with the next links of all the lists in one function.
LEMMA InsertAllNext ==
  ASSUME NEW L, NEW S, NEW s, Sequences(L, S, s), NEW l \in L, NEW x \in S,
         ~Holds(L, s, x), NEW k \in 1..(Len(s[l]) + 1),
         NEW end, NEW next, NEW next2, NEW head, NEW head2, AllNext(L, end, next, head, s),
         next2[x] = IF k = Len(s[l]) + 1 THEN end ELSE s[l][k],
         k > 1 => next2[s[l][k - 1]] = x,
         \A y \in S : y # x /\ (k > 1 => y # s[l][k - 1]) => next2[y] = next[y],
         head2[l] = IF k = 1 THEN x ELSE head[l],
         \A m \in L : m # l => head2[m] = head[m]
  PROVE  AllNext(L, end, next2, head2, Inserted(s, l, k, x))
<1> DEFINE t == [s EXCEPT ![l] = InsertAt(s[l], k, x)]
<1>0. Len(s[l]) \in Nat
  BY SequencesParts
<1>1. s[l] \in Seq(S)
  BY SequencesParts
<1>2. ASSUME NEW m \in L, NEW i \in 1..Len(s[m]), ~(m = l /\ k > 1 /\ i = k - 1)
      PROVE  next2[s[m][i]] = next[s[m][i]]
  <2>1. s[m][i] \in S /\ s[m][i] # x
    BY SequencesParts DEF Holds
  <2>2. k > 1 => s[m][i] # s[l][k - 1]
    <3>1. k > 1 => k - 1 \in 1..Len(s[l])
      BY <1>0
    <3> QED
      BY <1>2, <3>1, SameSlot
  <2> QED
    BY <2>1, <2>2
<1>3. /\ NextLinks(end, next2, InsertAt(s[l], k, x))
      /\ FirstOf(end, InsertAt(s[l], k, x)) = IF k = 1 THEN x ELSE FirstOf(end, s[l])
  <2>1. \A i \in 1..Len(s[l]) : i # k - 1 => next2[s[l][i]] = next[s[l][i]]
    BY <1>2
  <2>2. NextLinks(end, next, s[l])
    BY DEF AllNext
  <2> DEFINE q == s[l]
  <2>3. /\ q \in Seq(S) /\ k \in 1..(Len(q) + 1) /\ NextLinks(end, next, q)
        /\ next2[x] = IF k = Len(q) + 1 THEN end ELSE q[k]
        /\ k > 1 => next2[q[k - 1]] = x
        /\ \A i \in 1..Len(q) : i # k - 1 => next2[q[i]] = next[q[i]]
    BY <1>1, <2>1, <2>2
  <2> HIDE DEF q
  <2>4. /\ NextLinks(end, next2, InsertAt(q, k, x))
        /\ FirstOf(end, InsertAt(q, k, x)) = IF k = 1 THEN x ELSE FirstOf(end, q)
    BY <2>3, InsertNext
  <2> QED
    BY <2>4 DEF q
<1>4. t[l] = InsertAt(s[l], k, x) /\ \A m \in L : m # l => t[m] = s[m]
  BY DEF Sequences
<1> HIDE DEF t
<1>5. ASSUME NEW m \in L
      PROVE  head2[m] = FirstOf(end, t[m]) /\ NextLinks(end, next2, t[m])
  <2>1. CASE m = l
    BY <1>3, <1>4, <2>1 DEF AllNext
  <2>2. CASE m # l
    <3>1. \A i \in 1..Len(s[m]) : next2[s[m][i]] = next[s[m][i]]
      BY <1>2, <2>2
    <3>2. head[m] = FirstOf(end, s[m]) /\ NextLinks(end, next, s[m])
      BY DEF AllNext
    <3>3. NextLinks(end, next2, s[m])
      BY <3>1, <3>2 DEF NextLinks
    <3> QED
      BY <1>4, <2>2, <3>2, <3>3
  <2> QED
    BY <2>1, <2>2
<1> QED
  BY <1>5 DEF Inserted, t, AllNext

\* InsertPrev for all the lists.
LEMMA InsertAllPrev ==
  ASSUME NEW L, NEW S, NEW s, Sequences(L, S, s), NEW l \in L, NEW x \in S,
         ~Holds(L, s, x), NEW k \in 1..(Len(s[l]) + 1),
         NEW end, NEW prev, NEW prev2, NEW tail, NEW tail2, AllPrev(L, end, prev, tail, s),
         prev2[x] = IF k = 1 THEN end ELSE s[l][k - 1],
         k <= Len(s[l]) => prev2[s[l][k]] = x,
         \A y \in S : y # x /\ (k <= Len(s[l]) => y # s[l][k]) => prev2[y] = prev[y],
         tail2[l] = IF k = Len(s[l]) + 1 THEN x ELSE tail[l],
         \A m \in L : m # l => tail2[m] = tail[m]
  PROVE  AllPrev(L, end, prev2, tail2, Inserted(s, l, k, x))
<1> DEFINE t == [s EXCEPT ![l] = InsertAt(s[l], k, x)]
<1>0. Len(s[l]) \in Nat
  BY SequencesParts
<1>1. s[l] \in Seq(S)
  BY SequencesParts
<1>2. ASSUME NEW m \in L, NEW i \in 1..Len(s[m]), ~(m = l /\ i = k)
      PROVE  prev2[s[m][i]] = prev[s[m][i]]
  <2>1. s[m][i] \in S /\ s[m][i] # x
    BY SequencesParts DEF Holds
  <2>2. k <= Len(s[l]) => s[m][i] # s[l][k]
    <3>1. k <= Len(s[l]) => k \in 1..Len(s[l])
      BY <1>0
    <3> QED
      BY <1>2, <3>1, SameSlot
  <2> QED
    BY <2>1, <2>2
<1>3. /\ PrevLinks(end, prev2, InsertAt(s[l], k, x))
      /\ LastOf(end, InsertAt(s[l], k, x)) = IF k = Len(s[l]) + 1 THEN x ELSE LastOf(end, s[l])
  <2>1. \A i \in 1..Len(s[l]) : i # k => prev2[s[l][i]] = prev[s[l][i]]
    BY <1>2
  <2>2. PrevLinks(end, prev, s[l])
    BY DEF AllPrev
  <2> DEFINE q == s[l]
  <2>3. /\ q \in Seq(S) /\ k \in 1..(Len(q) + 1) /\ PrevLinks(end, prev, q)
        /\ prev2[x] = IF k = 1 THEN end ELSE q[k - 1]
        /\ k <= Len(q) => prev2[q[k]] = x
        /\ \A i \in 1..Len(q) : i # k => prev2[q[i]] = prev[q[i]]
    BY <1>1, <2>1, <2>2
  <2> HIDE DEF q
  <2>4. /\ PrevLinks(end, prev2, InsertAt(q, k, x))
        /\ LastOf(end, InsertAt(q, k, x)) = IF k = Len(q) + 1 THEN x ELSE LastOf(end, q)
    BY <2>3, InsertPrev
  <2> QED
    BY <2>4 DEF q
<1>4. t[l] = InsertAt(s[l], k, x) /\ \A m \in L : m # l => t[m] = s[m]
  BY DEF Sequences
<1> HIDE DEF t
<1>5. ASSUME NEW m \in L
      PROVE  tail2[m] = LastOf(end, t[m]) /\ PrevLinks(end, prev2, t[m])
  <2>1. CASE m = l
    BY <1>3, <1>4, <2>1 DEF AllPrev
  <2>2. CASE m # l
    <3>1. \A i \in 1..Len(s[m]) : prev2[s[m][i]] = prev[s[m][i]]
      BY <1>2, <2>2
    <3>2. tail[m] = LastOf(end, s[m]) /\ PrevLinks(end, prev, s[m])
      BY DEF AllPrev
    <3>3. PrevLinks(end, prev2, s[m])
      BY <3>1, <3>2 DEF PrevLinks
    <3> QED
      BY <1>4, <2>2, <3>2, <3>3
  <2> QED
    BY <2>1, <2>2
<1> QED
  BY <1>5 DEF Inserted, t, AllPrev

\* RemoveNext for all the lists.
LEMMA RemoveAllNext ==
  ASSUME NEW L, NEW S, NEW s, Sequences(L, S, s), NEW l \in L, NEW k \in 1..Len(s[l]),
         NEW end, NEW next, NEW next2, NEW head, NEW head2, AllNext(L, end, next, head, s),
         k > 1 => next2[s[l][k - 1]] = next[s[l][k]],
         \A y \in S : y # s[l][k] /\ (k > 1 => y # s[l][k - 1]) => next2[y] = next[y],
         head2[l] = IF k = 1 THEN next[s[l][1]] ELSE head[l],
         \A m \in L : m # l => head2[m] = head[m]
  PROVE  AllNext(L, end, next2, head2, Removed(s, l, k))
<1> DEFINE t == [s EXCEPT ![l] = RemoveAt(s[l], k)]
<1>0. Len(s[l]) \in Nat
  BY SequencesParts
<1>1. s[l] \in Seq(S)
  BY SequencesParts
<1>2. ASSUME NEW m \in L, NEW i \in 1..Len(s[m]), ~(m = l /\ (i = k \/ (k > 1 /\ i = k - 1)))
      PROVE  next2[s[m][i]] = next[s[m][i]]
  <2>1. s[m][i] \in S /\ s[m][i] # s[l][k]
    BY <1>2, SequencesParts, SameSlot
  <2>2. k > 1 => s[m][i] # s[l][k - 1]
    <3>1. k > 1 => k - 1 \in 1..Len(s[l])
      BY <1>0
    <3> QED
      BY <1>2, <3>1, SameSlot
  <2> QED
    BY <2>1, <2>2
<1>3. /\ NextLinks(end, next2, RemoveAt(s[l], k))
      /\ FirstOf(end, RemoveAt(s[l], k)) = IF k = 1 THEN next[s[l][1]] ELSE s[l][1]
  <2>1. \A i \in 1..Len(s[l]) : i # k - 1 /\ i # k => next2[s[l][i]] = next[s[l][i]]
    BY <1>2
  <2>2. NextLinks(end, next, s[l])
    BY DEF AllNext
  <2> DEFINE q == s[l]
  <2>3. /\ q \in Seq(S) /\ k \in 1..Len(q) /\ NextLinks(end, next, q)
        /\ k > 1 => next2[q[k - 1]] = next[q[k]]
        /\ \A i \in 1..Len(q) : i # k - 1 /\ i # k => next2[q[i]] = next[q[i]]
    BY <1>1, <2>1, <2>2
  <2> HIDE DEF q
  <2>4. /\ NextLinks(end, next2, RemoveAt(q, k))
        /\ FirstOf(end, RemoveAt(q, k)) = IF k = 1 THEN next[q[1]] ELSE q[1]
    BY <2>3, RemoveNext
  <2> QED
    BY <2>4 DEF q
<1>4. t[l] = RemoveAt(s[l], k) /\ \A m \in L : m # l => t[m] = s[m]
  BY DEF Sequences
<1> HIDE DEF t
<1>5. ASSUME NEW m \in L
      PROVE  head2[m] = FirstOf(end, t[m]) /\ NextLinks(end, next2, t[m])
  <2>1. CASE m = l
    <3>1. head[l] = s[l][1]
      BY <1>0 DEF AllNext, FirstOf
    <3> QED
      BY <1>3, <1>4, <2>1, <3>1
  <2>2. CASE m # l
    <3>1. \A i \in 1..Len(s[m]) : next2[s[m][i]] = next[s[m][i]]
      BY <1>2, <2>2
    <3>2. head[m] = FirstOf(end, s[m]) /\ NextLinks(end, next, s[m])
      BY DEF AllNext
    <3>3. NextLinks(end, next2, s[m])
      BY <3>1, <3>2 DEF NextLinks
    <3> QED
      BY <1>4, <2>2, <3>2, <3>3
  <2> QED
    BY <2>1, <2>2
<1> QED
  BY <1>5 DEF Removed, t, AllNext

\* RemovePrev for all the lists.
LEMMA RemoveAllPrev ==
  ASSUME NEW L, NEW S, NEW s, Sequences(L, S, s), NEW l \in L, NEW k \in 1..Len(s[l]),
         NEW end, NEW prev, NEW prev2, NEW tail, NEW tail2, AllPrev(L, end, prev, tail, s),
         k < Len(s[l]) => prev2[s[l][k + 1]] = prev[s[l][k]],
         \A y \in S : y # s[l][k] /\ (k < Len(s[l]) => y # s[l][k + 1]) => prev2[y] = prev[y],
         tail2[l] = IF k = Len(s[l]) THEN prev[s[l][k]] ELSE tail[l],
         \A m \in L : m # l => tail2[m] = tail[m]
  PROVE  AllPrev(L, end, prev2, tail2, Removed(s, l, k))
<1> DEFINE t == [s EXCEPT ![l] = RemoveAt(s[l], k)]
<1>0. Len(s[l]) \in Nat
  BY SequencesParts
<1>1. s[l] \in Seq(S)
  BY SequencesParts
<1>2. ASSUME NEW m \in L, NEW i \in 1..Len(s[m]),
             ~(m = l /\ (i = k \/ (k < Len(s[l]) /\ i = k + 1)))
      PROVE  prev2[s[m][i]] = prev[s[m][i]]
  <2>1. s[m][i] \in S /\ s[m][i] # s[l][k]
    BY <1>2, SequencesParts, SameSlot
  <2>2. k < Len(s[l]) => s[m][i] # s[l][k + 1]
    <3>1. k < Len(s[l]) => k + 1 \in 1..Len(s[l])
      BY <1>0
    <3> QED
      BY <1>2, <3>1, SameSlot
  <2> QED
    BY <2>1, <2>2
<1>3. /\ PrevLinks(end, prev2, RemoveAt(s[l], k))
      /\ LastOf(end, RemoveAt(s[l], k)) =
           IF k = Len(s[l]) THEN prev[s[l][k]] ELSE s[l][Len(s[l])]
  <2>1. \A i \in 1..Len(s[l]) : i # k + 1 /\ i # k => prev2[s[l][i]] = prev[s[l][i]]
    BY <1>2
  <2>2. PrevLinks(end, prev, s[l])
    BY DEF AllPrev
  <2> DEFINE q == s[l]
  <2>3. /\ q \in Seq(S) /\ k \in 1..Len(q) /\ PrevLinks(end, prev, q)
        /\ k < Len(q) => prev2[q[k + 1]] = prev[q[k]]
        /\ \A i \in 1..Len(q) : i # k + 1 /\ i # k => prev2[q[i]] = prev[q[i]]
    BY <1>1, <2>1, <2>2
  <2> HIDE DEF q
  <2>4. /\ PrevLinks(end, prev2, RemoveAt(q, k))
        /\ LastOf(end, RemoveAt(q, k)) = IF k = Len(q) THEN prev[q[k]] ELSE q[Len(q)]
    <3>1. q \in Seq(S) /\ k \in 1..Len(q)
      BY <2>3
    <3>2. (/\ PrevLinks(end, prev, q)
           /\ k < Len(q) => prev2[q[k + 1]] = prev[q[k]]
           /\ \A i \in 1..Len(q) : i # k + 1 /\ i # k => prev2[q[i]] = prev[q[i]])
          => /\ PrevLinks(end, prev2, RemoveAt(q, k))
             /\ LastOf(end, RemoveAt(q, k)) = IF k = Len(q) THEN prev[q[k]] ELSE q[Len(q)]
      BY <3>1, RemovePrev
    <3> QED
      BY <2>3, <3>2
  <2> QED
    BY <2>4 DEF q
<1>4. t[l] = RemoveAt(s[l], k) /\ \A m \in L : m # l => t[m] = s[m]
  BY DEF Sequences
<1> HIDE DEF t
<1>5. ASSUME NEW m \in L
      PROVE  tail2[m] = LastOf(end, t[m]) /\ PrevLinks(end, prev2, t[m])
  <2>1. CASE m = l
    <3>1. tail[l] = s[l][Len(s[l])]
      BY <1>0 DEF AllPrev, LastOf
    <3> QED
      BY <1>3, <1>4, <2>1, <3>1
  <2>2. CASE m # l
    <3>1. \A i \in 1..Len(s[m]) : prev2[s[m][i]] = prev[s[m][i]]
      BY <1>2, <2>2
    <3>2. tail[m] = LastOf(end, s[m]) /\ PrevLinks(end, prev, s[m])
      BY DEF AllPrev
    <3>3. PrevLinks(end, prev2, s[m])
      BY <3>1, <3>2 DEF PrevLinks
    <3> QED
      BY <1>4, <2>2, <3>2, <3>3
  <2> QED
    BY <2>1, <2>2
<1> QED
  BY <1>5 DEF Removed, t, AllPrev

\* Swapping two heads swaps what the next links say of the two lists.
LEMMA SwapAllNext ==
  ASSUME NEW L, NEW S, NEW s, Sequences(L, S, s), NEW l \in L, NEW m \in L,
         NEW end, NEW next, NEW head, NEW head2, AllNext(L, end, next, head, s),
         head2[l] = head[m], head2[m] = head[l],
         \A n \in L : n # l /\ n # m => head2[n] = head[n]
  PROVE  AllNext(L, end, next, head2, Swapped(s, l, m))
BY DEF Sequences, AllNext, Swapped

\* Swapping two tails swaps what the previous links say of them.
LEMMA SwapAllPrev ==
  ASSUME NEW L, NEW S, NEW s, Sequences(L, S, s), NEW l \in L, NEW m \in L,
         NEW end, NEW prev, NEW tail, NEW tail2, AllPrev(L, end, prev, tail, s),
         tail2[l] = tail[m], tail2[m] = tail[l],
         \A n \in L : n # l /\ n # m => tail2[n] = tail[n]
  PROVE  AllPrev(L, end, prev, tail2, Swapped(s, l, m))
BY DEF Sequences, AllPrev, Swapped

\* JoinNext for all the lists.
LEMMA JoinAllNext ==
  ASSUME NEW L, NEW S, NEW s, Sequences(L, S, s), NEW l \in L, NEW m \in L, l # m,
         Len(s[l]) # 0, Len(s[m]) # 0,
         NEW end, NEW next, NEW next2, NEW head, NEW head2, AllNext(L, end, next, head, s),
         NEW y, y = s[l][Len(s[l])], NEW z, z = s[m][1],
         \A x \in S : next2[x] = IF x = y THEN z ELSE next[x],
         head2[m] = end, \A n \in L : n # m => head2[n] = head[n]
  PROVE  AllNext(L, end, next2, head2, Joined(s, l, m))
<1> DEFINE t == [s EXCEPT ![l] = s[l] \o s[m], ![m] = <<>>]
<1>0. Len(s[l]) \in Nat /\ Len(s[m]) \in Nat
  BY SequencesParts
<1>1. s[l] \in Seq(S) /\ s[m] \in Seq(S)
  BY SequencesParts
<1>2. ASSUME NEW n \in L, NEW i \in 1..Len(s[n]), ~(n = l /\ i = Len(s[l]))
      PROVE  next2[s[n][i]] = next[s[n][i]]
  <2>1. Len(s[l]) \in 1..Len(s[l])
    BY <1>0
  <2> QED
    BY <1>2, <2>1, SequencesParts, SameSlot
<1>3. NextLinks(end, next2, s[l] \o s[m]) /\ FirstOf(end, s[l] \o s[m]) = s[l][1]
  <2>1. /\ \A i \in 1..Len(s[l]) : i # Len(s[l]) => next2[s[l][i]] = next[s[l][i]]
        /\ \A i \in 1..Len(s[m]) : next2[s[m][i]] = next[s[m][i]]
    BY <1>2
  <2>2. NextLinks(end, next, s[l]) /\ NextLinks(end, next, s[m])
    BY DEF AllNext
  <2> DEFINE p == s[l]
             q == s[m]
  <2>3. /\ p \in Seq(S) /\ q \in Seq(S) /\ Len(p) # 0 /\ Len(q) # 0
        /\ NextLinks(end, next, p) /\ NextLinks(end, next, q)
        /\ next2[p[Len(p)]] = q[1]
        /\ \A i \in 1..Len(p) : i # Len(p) => next2[p[i]] = next[p[i]]
        /\ \A i \in 1..Len(q) : next2[q[i]] = next[q[i]]
    BY <1>1, <2>1, <2>2
  <2> HIDE DEF p, q
  <2>4. NextLinks(end, next2, p \o q) /\ FirstOf(end, p \o q) = p[1]
    BY <2>3, JoinNext, SMTT(40)
  <2> QED
    BY <2>4 DEF p, q
<1>4. t[l] = s[l] \o s[m] /\ t[m] = <<>> /\ \A n \in L : n # l /\ n # m => t[n] = s[n]
  BY DEF Sequences
<1>5. Len(t[m]) = 0
  BY <1>4
<1> HIDE DEF t
<1>6. ASSUME NEW n \in L
      PROVE  head2[n] = FirstOf(end, t[n]) /\ NextLinks(end, next2, t[n])
  <2>1. CASE n = l
    <3>1. head[l] = s[l][1]
      BY <1>0 DEF AllNext, FirstOf
    <3> QED
      BY <1>3, <1>4, <2>1, <3>1
  <2>2. CASE n = m
    BY <1>5, <2>2 DEF FirstOf, NextLinks
  <2>3. CASE n # l /\ n # m
    <3>1. \A i \in 1..Len(s[n]) : next2[s[n][i]] = next[s[n][i]]
      BY <1>2, <2>3
    <3>2. head[n] = FirstOf(end, s[n]) /\ NextLinks(end, next, s[n])
      BY DEF AllNext
    <3>3. NextLinks(end, next2, s[n])
      BY <3>1, <3>2 DEF NextLinks
    <3> QED
      BY <1>4, <2>3, <3>2, <3>3
  <2> QED
    BY <2>1, <2>2, <2>3
<1> QED
  BY <1>6 DEF t, Joined, AllNext

\* JoinPrev for all the lists.
LEMMA JoinAllPrev ==
  ASSUME NEW L, NEW S, NEW s, Sequences(L, S, s), NEW l \in L, NEW m \in L, l # m,
         Len(s[l]) # 0, Len(s[m]) # 0,
         NEW end, NEW prev, NEW prev2, NEW tail, NEW tail2, AllPrev(L, end, prev, tail, s),
         NEW y, y = s[l][Len(s[l])], NEW z, z = s[m][1], prev2[z] = y,
         \A x \in S : x # z => prev2[x] = prev[x],
         tail2[l] = tail[m], tail2[m] = end,
         \A n \in L : n # l /\ n # m => tail2[n] = tail[n]
  PROVE  AllPrev(L, end, prev2, tail2, Joined(s, l, m))
<1> DEFINE t == [s EXCEPT ![l] = s[l] \o s[m], ![m] = <<>>]
<1>0. Len(s[l]) \in Nat /\ Len(s[m]) \in Nat
  BY SequencesParts
<1>1. s[l] \in Seq(S) /\ s[m] \in Seq(S)
  BY SequencesParts
<1>2. ASSUME NEW n \in L, NEW i \in 1..Len(s[n]), ~(n = m /\ i = 1)
      PROVE  prev2[s[n][i]] = prev[s[n][i]]
  <2>1. 1 \in 1..Len(s[m])
    BY <1>0
  <2> QED
    BY <1>2, <2>1, SequencesParts, SameSlot
<1>3. PrevLinks(end, prev2, s[l] \o s[m]) /\ LastOf(end, s[l] \o s[m]) = s[m][Len(s[m])]
  <2>1. /\ \A i \in 1..Len(s[l]) : prev2[s[l][i]] = prev[s[l][i]]
        /\ \A i \in 1..Len(s[m]) : i # 1 => prev2[s[m][i]] = prev[s[m][i]]
    BY <1>2
  <2>2. PrevLinks(end, prev, s[l]) /\ PrevLinks(end, prev, s[m])
    BY DEF AllPrev
  <2> DEFINE p == s[l]
             q == s[m]
  <2>3. /\ p \in Seq(S) /\ q \in Seq(S) /\ Len(p) # 0 /\ Len(q) # 0
        /\ PrevLinks(end, prev, p) /\ PrevLinks(end, prev, q)
        /\ prev2[q[1]] = p[Len(p)]
        /\ \A i \in 1..Len(p) : prev2[p[i]] = prev[p[i]]
        /\ \A i \in 1..Len(q) : i # 1 => prev2[q[i]] = prev[q[i]]
    BY <1>1, <2>1, <2>2
  <2> HIDE DEF p, q
  <2>4. PrevLinks(end, prev2, p \o q) /\ LastOf(end, p \o q) = q[Len(q)]
    BY <2>3, JoinPrev
  <2> QED
    BY <2>4 DEF p, q
<1>4. t[l] = s[l] \o s[m] /\ t[m] = <<>> /\ \A n \in L : n # l /\ n # m => t[n] = s[n]
  BY DEF Sequences
<1>5. Len(t[m]) = 0
  BY <1>4
<1> HIDE DEF t
<1>6. ASSUME NEW n \in L
      PROVE  tail2[n] = LastOf(end, t[n]) /\ PrevLinks(end, prev2, t[n])
  <2>1. CASE n = l
    <3>1. tail[m] = s[m][Len(s[m])]
      BY <1>0 DEF AllPrev, LastOf
    <3> QED
      BY <1>3, <1>4, <2>1, <3>1
  <2>2. CASE n = m
    BY <1>5, <2>2 DEF LastOf, PrevLinks
  <2>3. CASE n # l /\ n # m
    <3>1. \A i \in 1..Len(s[n]) : prev2[s[n][i]] = prev[s[n][i]]
      BY <1>2, <2>3
    <3>2. tail[n] = LastOf(end, s[n]) /\ PrevLinks(end, prev, s[n])
      BY DEF AllPrev
    <3>3. PrevLinks(end, prev2, s[n])
      BY <3>1, <3>2 DEF PrevLinks
    <3> QED
      BY <1>4, <2>3, <3>2, <3>3
  <2> QED
    BY <2>1, <2>2, <2>3
<1> QED
  BY <1>6 DEF t, Joined, AllPrev

-----------------------------------------------------------------------------
(* What the writes to the links do to the lists they represent.            *)

\* The next links and the heads represent the sequences s: an object's link says
\* 0 (unlinked) exactly when it is in no list, but for those of a cleared list
\* (out), whose links clear() leaves as they are.
ForwardRep(L, S, end, unlinked, out, next, head, s) ==
  /\ Sequences(L, S, s) /\ AllNext(L, end, next, head, s)
  /\ next \in [S -> S \union {unlinked, end}] /\ head \in [L -> S \union {end}]
  /\ \A x \in S : next[x] = unlinked <=> x \notin out /\ ~Holds(L, s, x)
  /\ \A x \in out : ~Holds(L, s, x)

\* The same for the previous links and the tails.
BackwardRep(L, S, end, unlinked, out, prev, tail, s) ==
  /\ Sequences(L, S, s) /\ AllPrev(L, end, prev, tail, s)
  /\ prev \in [S -> S \union {unlinked, end}] /\ tail \in [L -> S \union {end}]
  /\ \A x \in S : prev[x] = unlinked <=> x \notin out /\ ~Holds(L, s, x)
  /\ \A x \in out : ~Holds(L, s, x)

\* What stands in a list is held.
LEMMA SlotHeld ==
  ASSUME NEW L, NEW S, NEW s, NEW l \in L, NEW k \in 1..Len(s[l])
  PROVE  Holds(L, s, s[l][k])
BY DEF Holds

\* The writes of an insertion keep the next links a representation.
LEMMA ForwardInsert ==
  ASSUME NEW L, NEW S, NEW end, NEW unlinked, unlinked # end, unlinked \notin S, end \notin S,
         NEW out, NEW next, NEW head, NEW s, ForwardRep(L, S, end, unlinked, out, next, head, s),
         NEW l \in L, NEW x \in S, next[x] = unlinked, NEW k \in 1..(Len(s[l]) + 1),
         NEW next2 \in [S -> S \union {unlinked, end}], NEW head2 \in [L -> S \union {end}],
         next2[x] = IF k = Len(s[l]) + 1 THEN end ELSE s[l][k],
         k > 1 => next2[s[l][k - 1]] = x,
         \A y \in S : y # x /\ (k > 1 => y # s[l][k - 1]) => next2[y] = next[y],
         head2[l] = IF k = 1 THEN x ELSE head[l],
         \A m \in L : m # l => head2[m] = head[m]
  PROVE  ForwardRep(L, S, end, unlinked, out, next2, head2, Inserted(s, l, k, x))
<1> DEFINE t == Inserted(s, l, k, x)
<1>1. Sequences(L, S, s) /\ AllNext(L, end, next, head, s) /\ ~Holds(L, s, x) /\ x \notin out
  BY DEF ForwardRep
<1>2. Sequences(L, S, t) /\ \A y : Holds(L, t, y) <=> y = x \/ Holds(L, s, y)
  BY <1>1, InsertSequences
<1>3. AllNext(L, end, next2, head2, t)
  BY <1>1, InsertAllNext
<1>4. next2[x] # unlinked
  <2>1. Len(s[l]) \in Nat /\ \A i \in 1..Len(s[l]) : s[l][i] \in S
    BY <1>1, SequencesParts
  <2>2. k # Len(s[l]) + 1 => k \in 1..Len(s[l])
    BY <2>1
  <2> QED
    BY <2>1, <2>2
<1>5. k > 1 => Holds(L, s, s[l][k - 1])
  <2>1. Len(s[l]) \in Nat
    BY <1>1, SequencesParts
  <2>2. k > 1 => k - 1 \in 1..Len(s[l])
    BY <2>1
  <2> QED
    BY <2>2, SlotHeld
<1> HIDE DEF t
<1>6. ASSUME NEW y \in S
      PROVE  next2[y] = unlinked <=> y \notin out /\ ~Holds(L, t, y)
  <2>1. CASE y = x
    BY <1>2, <1>4, <2>1
  <2>2. CASE y # x /\ (k > 1 => y # s[l][k - 1])
    BY <1>2, <2>2 DEF ForwardRep
  <2>3. CASE k > 1 /\ y = s[l][k - 1]
    BY <1>2, <1>5, <2>3
  <2> QED
    BY <2>1, <2>2, <2>3
<1>7. \A y \in out : ~Holds(L, t, y)
  BY <1>1, <1>2 DEF ForwardRep
<1> QED
  BY <1>2, <1>3, <1>6, <1>7 DEF ForwardRep, t

\* And the previous links.
LEMMA BackwardInsert ==
  ASSUME NEW L, NEW S, NEW end, NEW unlinked, unlinked # end, unlinked \notin S, end \notin S,
         NEW out, NEW prev, NEW tail, NEW s, BackwardRep(L, S, end, unlinked, out, prev, tail, s),
         NEW l \in L, NEW x \in S, prev[x] = unlinked, NEW k \in 1..(Len(s[l]) + 1),
         NEW prev2 \in [S -> S \union {unlinked, end}], NEW tail2 \in [L -> S \union {end}],
         prev2[x] = IF k = 1 THEN end ELSE s[l][k - 1],
         k <= Len(s[l]) => prev2[s[l][k]] = x,
         \A y \in S : y # x /\ (k <= Len(s[l]) => y # s[l][k]) => prev2[y] = prev[y],
         tail2[l] = IF k = Len(s[l]) + 1 THEN x ELSE tail[l],
         \A m \in L : m # l => tail2[m] = tail[m]
  PROVE  BackwardRep(L, S, end, unlinked, out, prev2, tail2, Inserted(s, l, k, x))
<1> DEFINE t == Inserted(s, l, k, x)
<1>1. Sequences(L, S, s) /\ AllPrev(L, end, prev, tail, s) /\ ~Holds(L, s, x) /\ x \notin out
  BY DEF BackwardRep
<1>2. Sequences(L, S, t) /\ \A y : Holds(L, t, y) <=> y = x \/ Holds(L, s, y)
  BY <1>1, InsertSequences
<1>3. AllPrev(L, end, prev2, tail2, t)
  BY <1>1, InsertAllPrev
<1>4. prev2[x] # unlinked
  <2>1. Len(s[l]) \in Nat /\ \A i \in 1..Len(s[l]) : s[l][i] \in S
    BY <1>1, SequencesParts
  <2>2. k # 1 => k - 1 \in 1..Len(s[l])
    BY <2>1
  <2> QED
    BY <2>1, <2>2
<1>5. k <= Len(s[l]) => Holds(L, s, s[l][k])
  <2>1. Len(s[l]) \in Nat
    BY <1>1, SequencesParts
  <2>2. k <= Len(s[l]) => k \in 1..Len(s[l])
    BY <2>1
  <2> QED
    BY <2>2, SlotHeld
<1> HIDE DEF t
<1>6. ASSUME NEW y \in S
      PROVE  prev2[y] = unlinked <=> y \notin out /\ ~Holds(L, t, y)
  <2>1. CASE y = x
    BY <1>2, <1>4, <2>1
  <2>2. CASE y # x /\ (k <= Len(s[l]) => y # s[l][k])
    BY <1>2, <2>2 DEF BackwardRep
  <2>3. CASE k <= Len(s[l]) /\ y = s[l][k]
    BY <1>2, <1>5, <2>3
  <2> QED
    BY <2>1, <2>2, <2>3
<1>7. \A y \in out : ~Holds(L, t, y)
  BY <1>1, <1>2 DEF BackwardRep
<1> QED
  BY <1>2, <1>3, <1>6, <1>7 DEF BackwardRep, t

\* The writes of a removal keep the next links a representation.
LEMMA ForwardRemove ==
  ASSUME NEW L, NEW S, NEW end, NEW unlinked, unlinked # end, unlinked \notin S, end \notin S,
         NEW out, NEW next, NEW head, NEW s, ForwardRep(L, S, end, unlinked, out, next, head, s),
         NEW l \in L, NEW k \in 1..Len(s[l]),
         NEW next2 \in [S -> S \union {unlinked, end}], NEW head2 \in [L -> S \union {end}],
         next2[s[l][k]] = unlinked,
         k > 1 => next2[s[l][k - 1]] = next[s[l][k]],
         \A y \in S : y # s[l][k] /\ (k > 1 => y # s[l][k - 1]) => next2[y] = next[y],
         head2[l] = IF k = 1 THEN next[s[l][1]] ELSE head[l],
         \A m \in L : m # l => head2[m] = head[m]
  PROVE  ForwardRep(L, S, end, unlinked, out, next2, head2, Removed(s, l, k))
<1> DEFINE t == Removed(s, l, k)
           x == s[l][k]
<1>1. Sequences(L, S, s) /\ AllNext(L, end, next, head, s)
  BY DEF ForwardRep
<1>2. Sequences(L, S, t) /\ \A y : Holds(L, t, y) <=> y # x /\ Holds(L, s, y)
  BY <1>1, RemoveSequences
<1>3. AllNext(L, end, next2, head2, t)
  BY <1>1, RemoveAllNext
<1>4. Holds(L, s, x) /\ x \in S
  BY <1>1, SlotHeld, SequencesParts
<1>5. k > 1 => Holds(L, s, s[l][k - 1]) /\ s[l][k - 1] # x /\ s[l][k - 1] \in S
  <2>1. Len(s[l]) \in Nat
    BY <1>1, SequencesParts
  <2> SUFFICES ASSUME k > 1
               PROVE  Holds(L, s, s[l][k - 1]) /\ s[l][k - 1] # x /\ s[l][k - 1] \in S
    OBVIOUS
  <2> DEFINE j == k - 1
  <2>2. j \in 1..Len(s[l]) /\ j # k
    BY <2>1
  <2> HIDE DEF j
  <2>3. Holds(L, s, s[l][j]) /\ s[l][j] \in S
    BY <1>1, <2>2, SlotHeld, SequencesParts
  <2>4. s[l][j] # s[l][k]
    BY <1>1, <2>2, SameSlot
  <2> QED
    BY <2>3, <2>4 DEF j
<1>6. next[x] # unlinked
  BY <1>4 DEF ForwardRep
<1>7. next2[x] = unlinked /\ (k > 1 => next2[s[l][k - 1]] = next[x])
  OBVIOUS
<1>8. \A y \in S : y # x /\ (k > 1 => y # s[l][k - 1]) => next2[y] = next[y]
  OBVIOUS
<1> HIDE DEF t, x
<1>9. ASSUME NEW y \in S
      PROVE  next2[y] = unlinked <=> y \notin out /\ ~Holds(L, t, y)
  <2>1. CASE y = x
    BY <1>2, <1>4, <1>7, <2>1 DEF ForwardRep
  <2>2. CASE y # x /\ (k > 1 => y # s[l][k - 1])
    BY <1>2, <1>8, <2>2 DEF ForwardRep
  <2>3. CASE k > 1 /\ y = s[l][k - 1]
    BY <1>2, <1>5, <1>6, <1>7, <2>3
  <2> QED
    BY <2>1, <2>2, <2>3
<1>10. \A y \in out : ~Holds(L, t, y)
  BY <1>2 DEF ForwardRep
<1> QED
  BY <1>2, <1>3, <1>9, <1>10 DEF ForwardRep, t

\* And the previous links.
LEMMA BackwardRemove ==
  ASSUME NEW L, NEW S, NEW end, NEW unlinked, unlinked # end, unlinked \notin S, end \notin S,
         NEW out, NEW prev, NEW tail, NEW s, BackwardRep(L, S, end, unlinked, out, prev, tail, s),
         NEW l \in L, NEW k \in 1..Len(s[l]),
         NEW prev2 \in [S -> S \union {unlinked, end}], NEW tail2 \in [L -> S \union {end}],
         prev2[s[l][k]] = unlinked,
         k < Len(s[l]) => prev2[s[l][k + 1]] = prev[s[l][k]],
         \A y \in S : y # s[l][k] /\ (k < Len(s[l]) => y # s[l][k + 1]) => prev2[y] = prev[y],
         tail2[l] = IF k = Len(s[l]) THEN prev[s[l][k]] ELSE tail[l],
         \A m \in L : m # l => tail2[m] = tail[m]
  PROVE  BackwardRep(L, S, end, unlinked, out, prev2, tail2, Removed(s, l, k))
<1> DEFINE t == Removed(s, l, k)
           x == s[l][k]
<1>1. Sequences(L, S, s) /\ AllPrev(L, end, prev, tail, s)
  BY DEF BackwardRep
<1>2. Sequences(L, S, t) /\ \A y : Holds(L, t, y) <=> y # x /\ Holds(L, s, y)
  BY <1>1, RemoveSequences
<1>3. AllPrev(L, end, prev2, tail2, t)
  BY <1>1, RemoveAllPrev
<1>4. Holds(L, s, x) /\ x \in S
  BY <1>1, SlotHeld, SequencesParts
<1>5. k < Len(s[l]) => Holds(L, s, s[l][k + 1]) /\ s[l][k + 1] # x /\ s[l][k + 1] \in S
  <2>1. Len(s[l]) \in Nat
    BY <1>1, SequencesParts
  <2> SUFFICES ASSUME k < Len(s[l])
               PROVE  Holds(L, s, s[l][k + 1]) /\ s[l][k + 1] # x /\ s[l][k + 1] \in S
    OBVIOUS
  <2> DEFINE j == k + 1
  <2>2. j \in 1..Len(s[l]) /\ j # k
    BY <2>1
  <2> HIDE DEF j
  <2>3. Holds(L, s, s[l][j]) /\ s[l][j] \in S
    BY <1>1, <2>2, SlotHeld, SequencesParts
  <2>4. s[l][j] # s[l][k]
    BY <1>1, <2>2, SameSlot
  <2> QED
    BY <2>3, <2>4 DEF j
<1>6. prev[x] # unlinked
  BY <1>4 DEF BackwardRep
<1>7. prev2[x] = unlinked /\ (k < Len(s[l]) => prev2[s[l][k + 1]] = prev[x])
  OBVIOUS
<1>8. \A y \in S : y # x /\ (k < Len(s[l]) => y # s[l][k + 1]) => prev2[y] = prev[y]
  OBVIOUS
<1> HIDE DEF t, x
<1>9. ASSUME NEW y \in S
      PROVE  prev2[y] = unlinked <=> y \notin out /\ ~Holds(L, t, y)
  <2>1. CASE y = x
    BY <1>2, <1>4, <1>7, <2>1 DEF BackwardRep
  <2>2. CASE y # x /\ (k < Len(s[l]) => y # s[l][k + 1])
    BY <1>2, <1>8, <2>2 DEF BackwardRep
  <2>3. CASE k < Len(s[l]) /\ y = s[l][k + 1]
    BY <1>2, <1>5, <1>6, <1>7, <2>3
  <2> QED
    BY <2>1, <2>2, <2>3
<1>10. \A y \in out : ~Holds(L, t, y)
  BY <1>2 DEF BackwardRep
<1> QED
  BY <1>2, <1>3, <1>9, <1>10 DEF BackwardRep, t

\* Swapping the heads keeps the next links a representation.
LEMMA ForwardSwap ==
  ASSUME NEW L, NEW S, NEW end, NEW unlinked,
         NEW out, NEW next, NEW head, NEW s, ForwardRep(L, S, end, unlinked, out, next, head, s),
         NEW l \in L, NEW m \in L,
         NEW head2 \in [L -> S \union {end}], head2[l] = head[m], head2[m] = head[l],
         \A n \in L : n # l /\ n # m => head2[n] = head[n]
  PROVE  ForwardRep(L, S, end, unlinked, out, next, head2, Swapped(s, l, m))
<1> DEFINE t == Swapped(s, l, m)
<1>1. Sequences(L, S, s) /\ AllNext(L, end, next, head, s)
  BY DEF ForwardRep
<1>2. Sequences(L, S, t) /\ \A y : Holds(L, t, y) <=> Holds(L, s, y)
  BY <1>1, SwapSequences
<1>3. AllNext(L, end, next, head2, t)
  BY <1>1, SwapAllNext
<1> HIDE DEF t
<1> QED
  BY <1>2, <1>3 DEF ForwardRep, t

\* Swapping the tails keeps the previous links one.
LEMMA BackwardSwap ==
  ASSUME NEW L, NEW S, NEW end, NEW unlinked,
         NEW out, NEW prev, NEW tail, NEW s, BackwardRep(L, S, end, unlinked, out, prev, tail, s),
         NEW l \in L, NEW m \in L,
         NEW tail2 \in [L -> S \union {end}], tail2[l] = tail[m], tail2[m] = tail[l],
         \A n \in L : n # l /\ n # m => tail2[n] = tail[n]
  PROVE  BackwardRep(L, S, end, unlinked, out, prev, tail2, Swapped(s, l, m))
<1> DEFINE t == Swapped(s, l, m)
<1>1. Sequences(L, S, s) /\ AllPrev(L, end, prev, tail, s)
  BY DEF BackwardRep
<1>2. Sequences(L, S, t) /\ \A y : Holds(L, t, y) <=> Holds(L, s, y)
  BY <1>1, SwapSequences
<1>3. AllPrev(L, end, prev, tail2, t)
  BY <1>1, SwapAllPrev
<1> HIDE DEF t
<1> QED
  BY <1>2, <1>3 DEF BackwardRep, t

\* Linking the last of l to the first of m keeps the next links one.
LEMMA ForwardJoin ==
  ASSUME NEW L, NEW S, NEW end, NEW unlinked, unlinked # end, unlinked \notin S, end \notin S,
         NEW out, NEW next, NEW head, NEW s, ForwardRep(L, S, end, unlinked, out, next, head, s),
         NEW l \in L, NEW m \in L, l # m, Len(s[l]) # 0, Len(s[m]) # 0,
         NEW next2 \in [S -> S \union {unlinked, end}], NEW head2 \in [L -> S \union {end}],
         NEW y, y = s[l][Len(s[l])], NEW z, z = s[m][1],
         \A x \in S : next2[x] = IF x = y THEN z ELSE next[x],
         head2[m] = end, \A n \in L : n # m => head2[n] = head[n]
  PROVE  ForwardRep(L, S, end, unlinked, out, next2, head2,
                    Joined(s, l, m))
<1> DEFINE t == Joined(s, l, m)
<1>1. Sequences(L, S, s) /\ AllNext(L, end, next, head, s)
  BY DEF ForwardRep
<1>2. Sequences(L, S, t) /\ \A x : Holds(L, t, x) <=> Holds(L, s, x)
  BY <1>1, JoinSequences
<1>3. AllNext(L, end, next2, head2, t)
  BY <1>1, JoinAllNext, SMTT(40)
<1>4. Holds(L, s, y) /\ y \in S /\ next2[y] \in S
  <2>1. Len(s[l]) \in Nat /\ Len(s[m]) \in Nat
    BY <1>1, SequencesParts
  <2>2. Len(s[l]) \in 1..Len(s[l]) /\ 1 \in 1..Len(s[m])
    BY <2>1
  <2>3. Holds(L, s, y)
    BY <2>2, SlotHeld
  <2>4. y \in S /\ next2[y] \in S
    BY <1>1, <2>2, SequencesParts
  <2> QED
    BY <2>3, <2>4
<1> HIDE DEF t
<1>5. ASSUME NEW x \in S
      PROVE  next2[x] = unlinked <=> x \notin out /\ ~Holds(L, t, x)
  BY <1>2, <1>4 DEF ForwardRep
<1> QED
  BY <1>2, <1>3, <1>5 DEF ForwardRep, t

\* And linking back the previous links.
LEMMA BackwardJoin ==
  ASSUME NEW L, NEW S, NEW end, NEW unlinked, unlinked # end, unlinked \notin S, end \notin S,
         NEW out, NEW prev, NEW tail, NEW s, BackwardRep(L, S, end, unlinked, out, prev, tail, s),
         NEW l \in L, NEW m \in L, l # m, Len(s[l]) # 0, Len(s[m]) # 0,
         NEW prev2 \in [S -> S \union {unlinked, end}], NEW tail2 \in [L -> S \union {end}],
         NEW y, y = s[l][Len(s[l])], NEW z, z = s[m][1], prev2[z] = y,
         \A x \in S : x # z => prev2[x] = prev[x],
         tail2[l] = tail[m], tail2[m] = end,
         \A n \in L : n # l /\ n # m => tail2[n] = tail[n]
  PROVE  BackwardRep(L, S, end, unlinked, out, prev2, tail2,
                     Joined(s, l, m))
<1> DEFINE t == Joined(s, l, m)
<1>1. Sequences(L, S, s) /\ AllPrev(L, end, prev, tail, s)
  BY DEF BackwardRep
<1>2. Sequences(L, S, t) /\ \A x : Holds(L, t, x) <=> Holds(L, s, x)
  BY <1>1, JoinSequences
<1>3. AllPrev(L, end, prev2, tail2, t)
  BY <1>1, JoinAllPrev, SMTT(40)
<1>4. Holds(L, s, z) /\ z \in S /\ prev2[z] \in S
  <2>1. Len(s[l]) \in Nat /\ Len(s[m]) \in Nat
    BY <1>1, SequencesParts
  <2>2. Len(s[l]) \in 1..Len(s[l]) /\ 1 \in 1..Len(s[m])
    BY <2>1
  <2>3. Holds(L, s, z)
    BY <2>2, SlotHeld
  <2>4. z \in S /\ prev2[z] \in S
    BY <1>1, <2>2, SequencesParts
  <2> QED
    BY <2>3, <2>4
<1> HIDE DEF t
<1>5. ASSUME NEW x \in S
      PROVE  prev2[x] = unlinked <=> x \notin out /\ ~Holds(L, t, x)
  BY <1>2, <1>4 DEF BackwardRep
<1> QED
  BY <1>2, <1>3, <1>5 DEF BackwardRep, t

\* Forgetting the head of l puts its objects out, links and all.
LEMMA ForwardClear ==
  ASSUME NEW L, NEW S, NEW end, NEW unlinked,
         NEW out, NEW next, NEW head, NEW s, ForwardRep(L, S, end, unlinked, out, next, head, s),
         NEW l \in L,
         NEW head2 \in [L -> S \union {end}], head2[l] = end,
         \A n \in L : n # l => head2[n] = head[n],
         NEW out2, out2 = out \union {s[l][i] : i \in 1..Len(s[l])}
  PROVE  ForwardRep(L, S, end, unlinked, out2, next, head2, Cleared(s, l))
<1> DEFINE t == Cleared(s, l)
           q == s[l]
<1>1. Sequences(L, S, s) /\ AllNext(L, end, next, head, s)
  BY DEF ForwardRep
<1>2. Sequences(L, S, t) /\ \A y : Holds(L, t, y) <=> Holds(L, s, y) /\ \A i \in 1..Len(q) : q[i] # y
  BY <1>1, ClearSequences
<1>3. AllNext(L, end, next, head2, t)
  <2>1. t[l] = <<>> /\ \A n \in L : n # l => t[n] = s[n]
    BY <1>1 DEF Sequences, Cleared
  <2>2. FirstOf(end, <<>>) = end /\ NextLinks(end, next, <<>>)
    BY DEF FirstOf, NextLinks
  <2> HIDE DEF t
  <2> QED
    BY <1>1, <2>1, <2>2 DEF AllNext
<1>4. \A y : (\E i \in 1..Len(q) : q[i] = y) => Holds(L, s, y)
  BY DEF Holds
<1>5. \A y : y \in out2 <=> y \in out \/ \E i \in 1..Len(q) : q[i] = y
  OBVIOUS
<1> HIDE DEF t, q
<1>6. ASSUME NEW y \in S
      PROVE  next[y] = unlinked <=> y \notin out2 /\ ~Holds(L, t, y)
  BY <1>2, <1>4, <1>5 DEF ForwardRep
<1>7. \A y \in out2 : ~Holds(L, t, y)
  BY <1>2, <1>5 DEF ForwardRep
<1> QED
  BY <1>2, <1>3, <1>6, <1>7 DEF ForwardRep, t

\* The same for its tail.
LEMMA BackwardClear ==
  ASSUME NEW L, NEW S, NEW end, NEW unlinked,
         NEW out, NEW prev, NEW tail, NEW s, BackwardRep(L, S, end, unlinked, out, prev, tail, s),
         NEW l \in L,
         NEW tail2 \in [L -> S \union {end}], tail2[l] = end,
         \A n \in L : n # l => tail2[n] = tail[n],
         NEW out2, out2 = out \union {s[l][i] : i \in 1..Len(s[l])}
  PROVE  BackwardRep(L, S, end, unlinked, out2, prev, tail2, Cleared(s, l))
<1> DEFINE t == Cleared(s, l)
           q == s[l]
<1>1. Sequences(L, S, s) /\ AllPrev(L, end, prev, tail, s)
  BY DEF BackwardRep
<1>2. Sequences(L, S, t) /\ \A y : Holds(L, t, y) <=> Holds(L, s, y) /\ \A i \in 1..Len(q) : q[i] # y
  BY <1>1, ClearSequences
<1>3. AllPrev(L, end, prev, tail2, t)
  <2>1. t[l] = <<>> /\ \A n \in L : n # l => t[n] = s[n]
    BY <1>1 DEF Sequences, Cleared
  <2>2. LastOf(end, <<>>) = end /\ PrevLinks(end, prev, <<>>)
    BY DEF LastOf, PrevLinks
  <2> HIDE DEF t
  <2> QED
    BY <1>1, <2>1, <2>2 DEF AllPrev
<1>4. \A y : (\E i \in 1..Len(q) : q[i] = y) => Holds(L, s, y)
  BY DEF Holds
<1>5. \A y : y \in out2 <=> y \in out \/ \E i \in 1..Len(q) : q[i] = y
  OBVIOUS
<1> HIDE DEF t, q
<1>6. ASSUME NEW y \in S
      PROVE  prev[y] = unlinked <=> y \notin out2 /\ ~Holds(L, t, y)
  BY <1>2, <1>4, <1>5 DEF BackwardRep
<1>7. \A y \in out2 : ~Holds(L, t, y)
  BY <1>2, <1>5 DEF BackwardRep
<1> QED
  BY <1>2, <1>3, <1>6, <1>7 DEF BackwardRep, t

-----------------------------------------------------------------------------
(* The linked lists, and the lists they are mapped to.                     *)

\* What the refinement maps the links to.
Lists == [l \in List |-> Objects(l)]

\* The instances of the list modules walk as Walks does.
LEMMA SingleWalk ==
  ASSUME NEW S, NEW next, NEW h
  PROVE  Single!Walk(S, next, h) = Walk(S, next, h)
BY DEF Single!Walk, Walk, Single!Cardinality, Cardinality

\* For the queue.
LEMMA QueueWalk ==
  ASSUME NEW S, NEW next, NEW h
  PROVE  Queue!Walk(S, next, h) = Walk(S, next, h)
BY DEF Queue!Walk, Walk, Queue!Cardinality, Cardinality

\* For the double list.
LEMMA DoubleWalk ==
  ASSUME NEW S, NEW next, NEW h
  PROVE  Double!Walk(S, next, h) = Walk(S, next, h)
BY DEF Double!Walk, Walk, Double!Cardinality, Cardinality

\* The operators on sequences are the same in every instance.
LEMMA SameOperators ==
  /\ \A s, k, x : Abstract!InsertAt(s, k, x) = InsertAt(s, k, x)
  /\ \A s, k : Abstract!RemoveAt(s, k) = RemoveAt(s, k)
  /\ \A s, x : Abstract!Contains(s, x) = Contains(s, x)
  /\ \A s : Abstract!Last(s) = Last(s)
  /\ \A s : Abstract!Reverse(s) = Reverse(s)
  /\ \A s, x : Single!Contains(s, x) = Contains(s, x)
  /\ \A s, x : Queue!Contains(s, x) = Contains(s, x)
  /\ \A s, x : Double!Contains(s, x) = Contains(s, x)
  /\ \A s : Single!Last(s) = Last(s)
  /\ \A s : Queue!Last(s) = Last(s)
  /\ \A s : Double!Reverse(s) = Reverse(s)
<1>1. \A s, k, x : Abstract!InsertAt(s, k, x) = InsertAt(s, k, x)
  BY DEF Abstract!InsertAt, InsertAt
<1>2. \A s, k : Abstract!RemoveAt(s, k) = RemoveAt(s, k)
  BY DEF Abstract!RemoveAt, RemoveAt
<1>3. \A s, x : Abstract!Contains(s, x) = Contains(s, x)
  BY DEF Abstract!Contains, Contains
<1>4. \A s : Abstract!Last(s) = Last(s)
  BY DEF Abstract!Last, Last
<1>5. \A s : Abstract!Reverse(s) = Reverse(s)
  BY DEF Abstract!Reverse, Reverse
<1>6. \A s, x : /\ Single!Contains(s, x) = Contains(s, x)
                /\ Queue!Contains(s, x) = Contains(s, x)
                /\ Double!Contains(s, x) = Contains(s, x)
  BY DEF Single!Contains, Queue!Contains, Double!Contains, Contains
<1>7. \A s : Single!Last(s) = Last(s) /\ Queue!Last(s) = Last(s)
  BY DEF Single!Last, Queue!Last, Last
<1>8. \A s : Double!Reverse(s) = Reverse(s)
  BY DEF Double!Reverse, Reverse
<1> QED
  BY <1>1, <1>2, <1>3, <1>4, <1>5, <1>6, <1>7, <1>8

\* Walking from the head of l gives its sequence.
LEMMA WalksAre ==
  ASSUME NEW out, NEW next, NEW head, NEW s,
         ForwardRep(List, Object, End, Free, out, next, head, s), NEW l \in List
  PROVE  Walk(Object, next, head[l]) = s[l]
<1> DEFINE q == s[l]
           h == head[l]
<1>1. q \in Seq(Object) /\ Distinct(q)
  BY SequencesParts DEF ForwardRep
<1>2. NextLinks(End, next, q) /\ h = FirstOf(End, q)
  BY DEF ForwardRep, AllNext
<1> HIDE DEF q, h
<1>3. Walk(Object, next, h) = q
  BY <1>1, <1>2, WalkIs, ObjectAssumption
<1> QED
  BY <1>3 DEF q, h

\* Walking from its tail gives it backwards.
LEMMA WalksBackAre ==
  ASSUME NEW out, NEW prev, NEW tail, NEW s,
         BackwardRep(List, Object, End, Free, out, prev, tail, s), NEW l \in List
  PROVE  Walk(Object, prev, tail[l]) = Reverse(s[l])
<1> DEFINE q == s[l]
           h == tail[l]
<1>1. q \in Seq(Object) /\ Distinct(q)
  BY SequencesParts DEF BackwardRep
<1>2. PrevLinks(End, prev, q) /\ h = LastOf(End, q)
  BY DEF BackwardRep, AllPrev
<1> HIDE DEF q, h
<1>3. Walk(Object, prev, h) = Reverse(q)
  BY <1>1, <1>2, WalkBackIs, ObjectAssumption
<1> QED
  BY <1>3 DEF q, h

\* What a sequence contains stands at one of its places.
LEMMA ContainsSlot ==
  ASSUME NEW S, NEW s \in Seq(S), NEW x
  PROVE  Contains(s, x) <=> \E i \in 1..Len(s) : s[i] = x
BY DEF Contains

\* Holds in the words of ObjectLists.
LEMMA HoldsContains ==
  ASSUME NEW L, NEW S, NEW s, Sequences(L, S, s), NEW x
  PROVE  Holds(L, s, x) <=> \E l \in L : Contains(s[l], x)
BY SequencesParts, ContainsSlot DEF Holds

\* An insertion at place k is one of ObjectLists.
LEMMA AbstractInsert ==
  ASSUME NEW s, NEW t, Lists = s, Lists' = t, Sequences(List, Object, s),
         NEW op, NEW l \in List, NEW k, NEW x, NEW value, ~Holds(List, s, x),
         t = Inserted(s, l, k, x),
         result' = [op |-> op, of |-> l, value |-> value]
  PROVE  Abstract!Insert(op, l, k, x, value)
<1>1. \A m \in List : Objects(m) = s[m]
  BY DEF Lists
<1>2. Abstract!Nowhere(x)
  BY <1>1, HoldsContains, SameOperators DEF Abstract!Nowhere
<1>3. Abstract!Says(op, l, value)
  BY DEF Abstract!Says, Abstract!Answer
<1> QED
  BY <1>2, <1>3, SameOperators DEF Abstract!Insert, Lists, Inserted

\* A removal of place k is one of ObjectLists.
LEMMA AbstractDelete ==
  ASSUME NEW s, NEW t, Lists = s, Lists' = t, Sequences(List, Object, s),
         NEW op, NEW l \in List, NEW k \in 1..Len(s[l]),
         t = Removed(s, l, k),
         result' = [op |-> op, of |-> l, value |-> s[l][k]]
  PROVE  Abstract!Delete(op, l, k)
<1>1. DOMAIN s[l] = 1..Len(s[l])
  BY SequencesParts, LenProperties
<1>2. Objects(l) = s[l]
  BY DEF Lists
<1>3. Abstract!Says(op, l, s[l][k])
  BY DEF Abstract!Says, Abstract!Answer
<1> QED
  BY <1>1, <1>2, <1>3, SameOperators DEF Abstract!Delete, Lists, Removed

\* A call that only answers is one of ObjectLists.
LEMMA AbstractAsk ==
  ASSUME NEW s, Lists = s, Lists' = s, NEW op, NEW l, NEW value,
         result' = [op |-> op, of |-> l, value |-> value]
  PROVE  Abstract!Ask(op, l, value)
BY DEF Abstract!Ask, Abstract!Says, Abstract!Answer, Lists

\* A swap is one of ObjectLists, of a list with itself too.
LEMMA AbstractSwap ==
  ASSUME NEW s, NEW t, Lists = s, Lists' = t, NEW l \in List, NEW m \in List,
         t = Swapped(s, l, m),
         result' = [op |-> "swap", of |-> l, value |-> None]
  PROVE  Abstract!Swap(l, m)
<1>1. Objects(l) = s[l] /\ Objects(m) = s[m]
  BY DEF Lists
<1> QED
  BY <1>1 DEF Abstract!Swap, Abstract!Says, Abstract!Answer, Lists, Swapped

\* A splice is one of ObjectLists; of a list with itself it is nothing.
LEMMA AbstractSplice ==
  ASSUME NEW s, NEW t, Lists = s, Lists' = t, NEW l \in List, NEW m \in List,
         t = IF l = m THEN s ELSE Joined(s, l, m),
         result' = [op |-> "splice", of |-> l, value |-> None]
  PROVE  Abstract!Splice(l, m)
<1>1. Objects(l) = s[l] /\ Objects(m) = s[m]
  BY DEF Lists
<1> QED
  BY <1>1 DEF Abstract!Splice, Abstract!Says, Abstract!Answer, Lists, Joined

\* A clear is one of ObjectLists.
LEMMA AbstractClear ==
  ASSUME NEW s, NEW t, Lists = s, Lists' = t, NEW l \in List,
         t = Cleared(s, l),
         result' = [op |-> "clear", of |-> l, value |-> None]
  PROVE  Abstract!Clear(l)
BY DEF Abstract!Clear, Abstract!Says, Abstract!Answer, Lists, Cleared

-----------------------------------------------------------------------------
(* The writes the three lists share.                                       *)

\* What a representation says of one list.
LEMMA ForwardParts ==
  ASSUME NEW L, NEW S, NEW end, NEW unlinked, NEW out, NEW next, NEW head, NEW s,
         ForwardRep(L, S, end, unlinked, out, next, head, s), NEW l \in L
  PROVE  /\ Sequences(L, S, s) /\ s[l] \in Seq(S) /\ Len(s[l]) \in Nat
         /\ \A i \in 1..Len(s[l]) : s[l][i] \in S
         /\ head[l] = IF Len(s[l]) = 0 THEN end ELSE s[l][1]
         /\ \A i \in 1..Len(s[l]) : next[s[l][i]] = IF i = Len(s[l]) THEN end ELSE s[l][i + 1]
<1>1. Sequences(L, S, s) /\ AllNext(L, end, next, head, s)
  BY DEF ForwardRep
<1>2. head[l] = FirstOf(end, s[l]) /\ NextLinks(end, next, s[l])
  BY <1>1 DEF AllNext
<1> QED
  BY <1>1, <1>2, SequencesParts DEF FirstOf, NextLinks

\* Inside a list every link is an object or the end.
LEMMA NextInside ==
  ASSUME NEW L, NEW S, NEW end, NEW unlinked, NEW out, NEW next, NEW head, NEW s,
         ForwardRep(L, S, end, unlinked, out, next, head, s), NEW l \in L, NEW k \in 1..Len(s[l])
  PROVE  next[s[l][k]] \in S \union {end}
<1> DEFINE n == Len(s[l])
           j == k + 1
<1>1. n \in Nat /\ k \in 1..n
  BY ForwardParts
<1>2. \A i \in 1..n : s[l][i] \in S
  BY ForwardParts
<1>3. next[s[l][k]] = IF k = n THEN end ELSE s[l][j]
  BY ForwardParts
<1> HIDE DEF n
<1>4. k # n => j \in 1..n
  BY <1>1
<1> HIDE DEF j
<1> QED
  BY <1>2, <1>3, <1>4

\* The head is the end exactly when the list is empty.
LEMMA EmptyFirst ==
  ASSUME NEW L, NEW S, NEW end, end \notin S, NEW unlinked, NEW out, NEW next, NEW head, NEW s,
         ForwardRep(L, S, end, unlinked, out, next, head, s), NEW l \in L
  PROVE  /\ head[l] = end <=> Len(s[l]) = 0
         /\ head[l] # end => 1 \in 1..Len(s[l]) /\ head[l] = s[l][1] /\ Len(s[l]) \in 1..Len(s[l])
<1>1. Len(s[l]) \in Nat
  BY ForwardParts
<1>2. Len(s[l]) # 0 => 1 \in 1..Len(s[l]) /\ Len(s[l]) \in 1..Len(s[l])
  BY <1>1
<1>3. Len(s[l]) # 0 => s[l][1] \in S
  BY <1>2, ForwardParts
<1>4. head[l] = IF Len(s[l]) = 0 THEN end ELSE s[l][1]
  BY ForwardParts
<1> QED
  BY <1>2, <1>3, <1>4

\* The two writes of push_front insert an object at the front.
LEMMA FirstIn ==
  ASSUME NEW L, NEW S, NEW end, NEW unlinked, unlinked # end, unlinked \notin S, end \notin S,
         NEW out, NEW next, NEW head, NEW s, ForwardRep(L, S, end, unlinked, out, next, head, s),
         NEW l \in L, NEW x \in S, next[x] = unlinked
  PROVE  /\ ForwardRep(L, S, end, unlinked, out, [next EXCEPT ![x] = head[l]],
                       [head EXCEPT ![l] = x], Inserted(s, l, 1, x))
         /\ ~Holds(L, s, x)
<1> DEFINE next2 == [next EXCEPT ![x] = head[l]]
           head2 == [head EXCEPT ![l] = x]
<1>1. Len(s[l]) \in Nat
  BY ForwardParts
<1>2. 1 \in 1..(Len(s[l]) + 1) /\ ~(1 > 1) /\ (1 = Len(s[l]) + 1 <=> Len(s[l]) = 0)
  BY <1>1
<1>3. next \in [S -> S \union {unlinked, end}] /\ head \in [L -> S \union {end}]
  BY DEF ForwardRep
<1>4. /\ next2 \in [S -> S \union {unlinked, end}] /\ head2 \in [L -> S \union {end}]
      /\ \A y \in S : y # x => next2[y] = next[y]
      /\ next2[x] = head[l] /\ head2[l] = x
      /\ \A m \in L : m # l => head2[m] = head[m]
  BY <1>3
<1>5. next2[x] = IF 1 = Len(s[l]) + 1 THEN end ELSE s[l][1]
  BY <1>2, <1>4, ForwardParts
<1> HIDE DEF next2, head2
<1>6. ForwardRep(L, S, end, unlinked, out, next2, head2, Inserted(s, l, 1, x))
  BY <1>2, <1>4, <1>5, ForwardInsert
<1>7. ~Holds(L, s, x)
  BY DEF ForwardRep
<1> QED
  BY <1>6, <1>7 DEF next2, head2

\* The writes of push_back insert an object at the back, in either order.
LEMMA LastIn ==
  ASSUME NEW L, NEW S, NEW end, NEW unlinked, unlinked # end, unlinked \notin S, end \notin S,
         NEW out, NEW next, NEW head, NEW s, ForwardRep(L, S, end, unlinked, out, next, head, s),
         NEW l \in L, NEW x \in S, next[x] = unlinked,
         NEW next2, NEW head2,
         IF Len(s[l]) = 0
         THEN next2 = [next EXCEPT ![x] = end] /\ head2 = [head EXCEPT ![l] = x]
         ELSE /\ \/ next2 = [next EXCEPT ![s[l][Len(s[l])]] = x, ![x] = end]
                 \/ next2 = [next EXCEPT ![x] = end, ![s[l][Len(s[l])]] = x]
              /\ head2 = head
  PROVE  /\ ForwardRep(L, S, end, unlinked, out, next2, head2, Inserted(s, l, Len(s[l]) + 1, x))
         /\ ~Holds(L, s, x)
<1>1. Len(s[l]) \in Nat
  BY ForwardParts
<1> DEFINE k == Len(s[l]) + 1
<1>2. k \in 1..(Len(s[l]) + 1) /\ (k = 1 <=> Len(s[l]) = 0) /\ k - 1 = Len(s[l]) /\ (k > 1 <=> Len(s[l]) # 0)
  BY <1>1
<1>3. next \in [S -> S \union {unlinked, end}] /\ head \in [L -> S \union {end}]
  BY DEF ForwardRep
<1>4. ~Holds(L, s, x)
  BY DEF ForwardRep
<1>5. Len(s[l]) # 0 => s[l][Len(s[l])] \in S /\ s[l][Len(s[l])] # x
  <2>1. Len(s[l]) # 0 => Len(s[l]) \in 1..Len(s[l])
    BY <1>1
  <2> QED
    BY <1>4, <2>1, ForwardParts, SlotHeld
<1> DEFINE z == s[l][Len(s[l])]
<1>6. /\ next2 \in [S -> S \union {unlinked, end}] /\ head2 \in [L -> S \union {end}]
      /\ next2[x] = end
      /\ Len(s[l]) # 0 => next2[z] = x
      /\ \A y \in S : y # x /\ (Len(s[l]) # 0 => y # z) => next2[y] = next[y]
      /\ head2[l] = IF Len(s[l]) = 0 THEN x ELSE head[l]
      /\ \A m \in L : m # l => head2[m] = head[m]
  <2>1. CASE Len(s[l]) = 0
    BY <1>3, <2>1
  <2>2. CASE Len(s[l]) # 0
    <3> HIDE DEF z
    <3>1. z \in S /\ z # x
      BY <1>5, <2>2 DEF z
    <3>2. next2 = [next EXCEPT ![z] = x, ![x] = end] \/ next2 = [next EXCEPT ![x] = end, ![z] = x]
      BY <2>2 DEF z
    <3>3. head2 = head
      BY <2>2
    <3> QED
      BY <1>3, <2>2, <3>1, <3>2, <3>3
  <2> QED
    BY <2>1, <2>2
<1>7. /\ k > 1 => next2[s[l][k - 1]] = x
      /\ \A y \in S : y # x /\ (k > 1 => y # s[l][k - 1]) => next2[y] = next[y]
      /\ head2[l] = IF k = 1 THEN x ELSE head[l]
      /\ next2[x] = IF k = Len(s[l]) + 1 THEN end ELSE s[l][k]
  BY <1>2, <1>6
<1> HIDE DEF z, k
<1>8. ForwardRep(L, S, end, unlinked, out, next2, head2, Inserted(s, l, k, x))
  BY <1>2, <1>6, <1>7, ForwardInsert
<1> QED
  BY <1>4, <1>8 DEF k

\* The two writes of pop_front take the first object out.
LEMMA FirstOut ==
  ASSUME NEW L, NEW S, NEW end, NEW unlinked, unlinked # end, unlinked \notin S, end \notin S,
         NEW out, NEW next, NEW head, NEW s, ForwardRep(L, S, end, unlinked, out, next, head, s),
         NEW l \in L, Len(s[l]) # 0
  PROVE  ForwardRep(L, S, end, unlinked, out, [next EXCEPT ![head[l]] = unlinked],
                    [head EXCEPT ![l] = next[head[l]]], Removed(s, l, 1))
<1> DEFINE x == head[l]
           next2 == [next EXCEPT ![x] = unlinked]
           head2 == [head EXCEPT ![l] = next[x]]
<1>1. Len(s[l]) \in Nat
  BY ForwardParts
<1>2. 1 \in 1..Len(s[l]) /\ ~(1 > 1) /\ Len(s[l]) \in Nat
  BY <1>1
<1>3. next \in [S -> S \union {unlinked, end}] /\ head \in [L -> S \union {end}]
  BY DEF ForwardRep
<1>4. x = s[l][1] /\ x \in S
  BY <1>2, ForwardParts
<1>5. next[x] \in S \union {end}
  BY <1>2, <1>4, NextInside
<1> HIDE DEF x
<1>6. /\ next2 \in [S -> S \union {unlinked, end}] /\ head2 \in [L -> S \union {end}]
      /\ \A y \in S : y # x => next2[y] = next[y]
      /\ next2[x] = unlinked /\ head2[l] = next[x]
      /\ \A m \in L : m # l => head2[m] = head[m]
  BY <1>3, <1>4, <1>5
<1> HIDE DEF next2, head2
<1>7. /\ next2[s[l][1]] = unlinked
      /\ \A y \in S : y # s[l][1] => next2[y] = next[y]
      /\ head2[l] = next[s[l][1]]
  BY <1>4, <1>6
<1>8. ForwardRep(L, S, end, unlinked, out, next2, head2, Removed(s, l, 1))
  BY <1>2, <1>6, <1>7, ForwardRemove
<1> QED
  BY <1>8 DEF next2, head2, x

\* Skipping a later object takes it out.
LEMMA LaterOut ==
  ASSUME NEW L, NEW S, NEW end, NEW unlinked, unlinked # end, unlinked \notin S, end \notin S,
         NEW out, NEW next, NEW head, NEW s, ForwardRep(L, S, end, unlinked, out, next, head, s),
         NEW l \in L, NEW k \in 1..Len(s[l]), k # 1
  PROVE  ForwardRep(L, S, end, unlinked, out,
                    [next EXCEPT ![s[l][k - 1]] = next[s[l][k]], ![s[l][k]] = unlinked],
                    head, Removed(s, l, k))
<1> DEFINE j == k - 1
           x == s[l][k]
           w == s[l][j]
           next2 == [next EXCEPT ![w] = next[x], ![x] = unlinked]
<1>1. Len(s[l]) \in Nat
  BY ForwardParts
<1>2. k > 1 /\ j \in 1..Len(s[l]) /\ j # k
  BY <1>1
<1>3. next \in [S -> S \union {unlinked, end}] /\ head \in [L -> S \union {end}]
  BY DEF ForwardRep
<1>4. w \in S /\ x \in S /\ w # x
  <2> HIDE DEF j
  <2>1. w \in S /\ x \in S
    BY <1>2, ForwardParts
  <2>2. Sequences(L, S, s)
    BY ForwardParts
  <2>3. w # x
    BY <1>2, <2>2, SameSlot
  <2> QED
    BY <2>1, <2>3
<1> HIDE DEF w, x
<1>5. /\ next2 \in [S -> S \union {unlinked, end}]
      /\ next2[x] = unlinked /\ next2[w] = next[x]
      /\ \A y \in S : y # x /\ y # w => next2[y] = next[y]
  BY <1>3, <1>4
<1> HIDE DEF next2
<1>6. /\ next2[s[l][k]] = unlinked
      /\ k > 1 => next2[s[l][k - 1]] = next[s[l][k]]
      /\ \A y \in S : y # s[l][k] /\ (k > 1 => y # s[l][k - 1]) => next2[y] = next[y]
      /\ head[l] = IF k = 1 THEN next[s[l][1]] ELSE head[l]
      /\ \A m \in L : m # l => head[m] = head[m]
  BY <1>2, <1>5 DEF w, x, j
<1>7. ForwardRep(L, S, end, unlinked, out, next2, head, Removed(s, l, k))
  BY <1>3, <1>5, <1>6, ForwardRemove
<1> QED
  BY <1>7 DEF next2, w, x, j

\* One link joins two lists that are not empty.
LEMMA LinkedBy ==
  ASSUME NEW L, NEW S, NEW end, NEW unlinked, unlinked # end, unlinked \notin S, end \notin S,
         NEW out, NEW next, NEW head, NEW s, ForwardRep(L, S, end, unlinked, out, next, head, s),
         NEW l \in L, NEW m \in L, l # m, Len(s[l]) # 0, Len(s[m]) # 0
  PROVE  ForwardRep(L, S, end, unlinked, out, [next EXCEPT ![s[l][Len(s[l])]] = head[m]],
                    [head EXCEPT ![m] = end], Joined(s, l, m))
<1> DEFINE y == s[l][Len(s[l])]
           z == s[m][1]
           next2 == [next EXCEPT ![y] = head[m]]
           head2 == [head EXCEPT ![m] = end]
<1>1. Len(s[l]) \in Nat /\ Len(s[m]) \in Nat
  BY ForwardParts
<1>2. Len(s[l]) \in 1..Len(s[l]) /\ 1 \in 1..Len(s[m])
  BY <1>1
<1>3. next \in [S -> S \union {unlinked, end}] /\ head \in [L -> S \union {end}]
  BY DEF ForwardRep
<1>4. y \in S /\ z \in S /\ head[m] = z
  BY <1>2, ForwardParts
<1>5. y = s[l][Len(s[l])] /\ z = s[m][1]
  OBVIOUS
<1> HIDE DEF y, z
<1>6. /\ next2 \in [S -> S \union {unlinked, end}] /\ head2 \in [L -> S \union {end}]
      /\ \A x \in S : next2[x] = IF x = y THEN z ELSE next[x]
      /\ head2[m] = end /\ \A n \in L : n # m => head2[n] = head[n]
  BY <1>3, <1>4
<1> HIDE DEF next2, head2
<1>7. ForwardRep(L, S, end, unlinked, out, next2, head2, Joined(s, l, m))
  BY <1>5, <1>6, ForwardJoin
<1> QED
  BY <1>7 DEF next2, head2, y

-----------------------------------------------------------------------------
(* single_list.                                                            *)

\* single_list: its links and heads represent s, and no object is ever lost.
SingleRep(s) == ForwardRep(List, Object, End, Free, {}, link, head_, s)

\* Where the links represent s before a call and t after it, the refinement sees s become t.
LEMMA SingleMove ==
  ASSUME NEW s, SingleRep(s), container = "list", container' = "list", NEW t, SingleRep(t)'
  PROVE  /\ Lists = s /\ Lists' = t /\ Sequences(List, Object, s)
         /\ \A l \in List : Single!Objects(l) = s[l]
<1>1. \A l \in List : Single!Objects(l) = s[l]
  BY WalksAre, SingleWalk DEF SingleRep, Single!Objects
<1>2. \A l \in List : Single!Walk(Object, link', head_'[l]) = t[l]
  BY WalksAre, SingleWalk DEF SingleRep
<1>3. \A l \in List : Objects(l)' = t[l]
  BY <1>2 DEF Objects, Single!Objects
<1>4. \A l \in List : Objects(l) = s[l]
  BY <1>1 DEF Objects
<1>5. s = [l \in List |-> s[l]] /\ t = [l \in List |-> t[l]] /\ Sequences(List, Object, s)
  BY DEF SingleRep, ForwardRep, Sequences
<1> QED
  BY <1>1, <1>3, <1>4, <1>5 DEF Lists

\* push_front of the single list is that of ObjectLists.
LEMMA SinglePushFront ==
  ASSUME NEW s, SingleRep(s), container = "list", container' = "list",
         NEW l \in List, NEW x \in Object, Single!PushFront(l, x)
  PROVE  Abstract!PushFront(l, x) /\ \E t : SingleRep(t)'
<1> DEFINE t == Inserted(s, l, 1, x)
<1>1. /\ link' = [link EXCEPT ![x] = head_[l]] /\ head_' = [head_ EXCEPT ![l] = x]
      /\ link[x] = Free
      /\ result' = [op |-> "push_front", of |-> l, value |-> None]
  BY DEF Single!PushFront, Single!Says, Single!Answer
<1>2. SingleRep(t)' /\ ~Holds(List, s, x)
  BY <1>1, FirstIn, ObjectAssumption DEF SingleRep
<1>3. Abstract!Insert("push_front", l, 1, x, None)
  BY <1>1, <1>2, SingleMove, AbstractInsert
<1>4. Abstract!PushFront(l, x)
  BY <1>3 DEF Abstract!PushFront
<1> QED
  BY <1>2, <1>4

\* push_back of the single list is that of ObjectLists.
LEMMA SinglePushBack ==
  ASSUME NEW s, SingleRep(s), container = "list", container' = "list",
         NEW l \in List, NEW x \in Object, Single!PushBack(l, x)
  PROVE  Abstract!PushBack(l, x) /\ \E t : SingleRep(t)'
<1> DEFINE t == Inserted(s, l, Len(s[l]) + 1, x)
<1>1. link[x] = Free /\ result' = [op |-> "push_back", of |-> l, value |-> None]
  BY DEF Single!PushBack, Single!Says, Single!Answer
<1>2. Single!AtEnd(l, s[l], x)
  BY WalksAre, SingleWalk DEF Single!PushBack, SingleRep, Single!Objects
<1>3. s[l] \in Seq(Object)
  BY ForwardParts DEF SingleRep
<1>4. IF Len(s[l]) = 0
      THEN link' = [link EXCEPT ![x] = End] /\ head_' = [head_ EXCEPT ![l] = x]
      ELSE /\ \/ link' = [link EXCEPT ![s[l][Len(s[l])]] = x, ![x] = End]
              \/ link' = [link EXCEPT ![x] = End, ![s[l][Len(s[l])]] = x]
           /\ head_' = head_
  <2>1. s[l] = <<>> <=> Len(s[l]) = 0
    BY <1>3, EmptySeq
  <2>2. Single!Last(s[l]) = s[l][Len(s[l])]
    BY SameOperators DEF Last
  <2> QED
    BY <1>2, <2>1, <2>2 DEF Single!AtEnd
<1>5. SingleRep(t)' /\ ~Holds(List, s, x)
  BY <1>1, <1>4, LastIn, ObjectAssumption, SMTT(40) DEF SingleRep
<1>6. Objects(l) = s[l]
  BY <1>5, SingleMove DEF Objects
<1>7. Abstract!Insert("push_back", l, Len(Objects(l)) + 1, x, None)
  BY <1>1, <1>5, <1>6, SingleMove, AbstractInsert
<1>8. Abstract!PushBack(l, x)
  BY <1>7 DEF Abstract!PushBack
<1> QED
  BY <1>5, <1>8

\* pop_front of the single list is that of ObjectLists.
LEMMA SinglePopFront ==
  ASSUME NEW s, SingleRep(s), container = "list", container' = "list",
         NEW l \in List, Single!PopFront(l)
  PROVE  Abstract!PopFront(l) /\ \E t : SingleRep(t)'
<1> DEFINE t == Removed(s, l, 1)
<1>1. /\ link' = [link EXCEPT ![head_[l]] = Free] /\ head_' = [head_ EXCEPT ![l] = link[head_[l]]]
      /\ head_[l] # End
      /\ result' = [op |-> "pop_front", of |-> l, value |-> head_[l]]
  BY DEF Single!PopFront, Single!Says, Single!Answer
<1>2. 1 \in 1..Len(s[l]) /\ head_[l] = s[l][1] /\ Len(s[l]) # 0
  BY <1>1, EmptyFirst, ObjectAssumption DEF SingleRep
<1>3. SingleRep(t)'
  BY <1>1, <1>2, FirstOut, ObjectAssumption DEF SingleRep
<1>4. Abstract!PopFront(l)
  BY <1>1, <1>2, <1>3, SingleMove, AbstractDelete DEF Abstract!PopFront
<1> QED
  BY <1>3, <1>4

\* pop_back of the single list is that of ObjectLists.
LEMMA SinglePopBack ==
  ASSUME NEW s, SingleRep(s), container = "list", container' = "list",
         NEW l \in List, Single!PopBack(l)
  PROVE  Abstract!PopBack(l) /\ \E t : SingleRep(t)'
<1> DEFINE k == Len(s[l])
           t == Removed(s, l, k)
<1>1. Single!Objects(l) = s[l]
  BY WalksAre, SingleWalk DEF SingleRep, Single!Objects
<1>2. Single!Last(s[l]) = s[l][k]
  BY SameOperators DEF Last
<1>3. /\ IF k = 1 THEN head_' = [head_ EXCEPT ![l] = End] /\ link' = [link EXCEPT ![s[l][1]] = Free]
         ELSE /\ link' = [link EXCEPT ![s[l][k - 1]] = End, ![s[l][k]] = Free]
              /\ head_' = head_
      /\ result' = [op |-> "pop_back", of |-> l, value |-> s[l][k]]
      /\ head_[l] # End
  BY <1>1, <1>2 DEF Single!PopBack, Single!Says, Single!Answer
<1>4. 1 \in 1..k /\ k \in 1..k /\ head_[l] = s[l][1] /\ k # 0
  BY <1>3, EmptyFirst, ObjectAssumption DEF SingleRep
<1>5. link[s[l][k]] = End
  BY <1>4, ForwardParts DEF SingleRep
<1>6. SingleRep(t)'
  <2>1. CASE k = 1
    <3>1. SingleRep(Removed(s, l, 1))'
      BY <1>3, <1>4, <1>5, <2>1, FirstOut, ObjectAssumption DEF SingleRep
    <3> QED
      BY <2>1, <3>1
  <2>2. CASE k # 1
    <3>1. /\ link' = [link EXCEPT ![s[l][k - 1]] = link[s[l][k]], ![s[l][k]] = Free]
          /\ head_' = head_
      BY <1>3, <1>5, <2>2
    <3>2. ForwardRep(List, Object, End, Free, {},
                     [link EXCEPT ![s[l][k - 1]] = link[s[l][k]], ![s[l][k]] = Free], head_, t)
      BY <1>4, <2>2, LaterOut, ObjectAssumption DEF SingleRep
    <3> QED
      BY <3>1, <3>2 DEF SingleRep
  <2> QED
    BY <2>1, <2>2
<1>7. Objects(l) = s[l]
  BY <1>1 DEF Objects
<1>8. Abstract!PopBack(l)
  BY <1>3, <1>4, <1>6, <1>7, SingleMove, AbstractDelete DEF Abstract!PopBack
<1> QED
  BY <1>6, <1>8

\* A pop of an empty list: what ObjectLists promises.
LEMMA SinglePopEmpty ==
  ASSUME NEW s, SingleRep(s), container = "list", container' = "list",
         NEW l \in List, Single!PopEmpty(l)
  PROVE  Abstract!PopEmpty(l) /\ \E t : SingleRep(t)'
<1>1. SingleRep(s)'
  BY DEF SingleRep, Single!PopEmpty
<1>2. s[l] \in Seq(Object) /\ Len(s[l]) = 0
  BY EmptyFirst, ForwardParts, ObjectAssumption DEF SingleRep, Single!PopEmpty
<1>3. Objects(l) = <<>>
  BY <1>1, <1>2, SingleMove, EmptySeq DEF Objects
<1>4. \E op \in {"pop_front", "pop_back"} : Abstract!Ask(op, l, None)
  BY <1>1, SingleMove, AbstractAsk DEF Single!PopEmpty, Single!Says, Single!Answer
<1> QED
  BY <1>1, <1>3, <1>4 DEF Abstract!PopEmpty

\* remove of an object of the list: what ObjectLists promises.
LEMMA SingleRemoveFrom ==
  ASSUME NEW s, SingleRep(s), container = "list", container' = "list",
         NEW l \in List, NEW x \in Object, Single!RemoveFrom(l, x)
  PROVE  Abstract!RemoveFrom(l, x) /\ \E t : SingleRep(t)'
<1>1. Single!Objects(l) = s[l] /\ s[l] \in Seq(Object) /\ DOMAIN s[l] = 1..Len(s[l])
  BY WalksAre, SingleWalk, ForwardParts, LenProperties DEF SingleRep, Single!Objects
<1>2. PICK k \in 1..Len(s[l]) :
        /\ s[l][k] = x
        /\ IF k = 1 THEN head_' = [head_ EXCEPT ![l] = link[x]] /\ link' = [link EXCEPT ![x] = Free]
           ELSE link' = [link EXCEPT ![s[l][k - 1]] = link[x], ![x] = Free] /\ head_' = head_
  BY <1>1 DEF Single!RemoveFrom
<1>3. result' = [op |-> "remove", of |-> l, value |-> s[l][k]]
  BY <1>2 DEF Single!RemoveFrom, Single!Says, Single!Answer
<1> DEFINE t == Removed(s, l, k)
<1>4. Len(s[l]) # 0 /\ (k = 1 => head_[l] = x)
  BY <1>2, ForwardParts DEF SingleRep
<1>5. SingleRep(t)'
  <2>1. CASE k = 1
    <3>1. SingleRep(Removed(s, l, 1))'
      BY <1>2, <1>4, <2>1, FirstOut, ObjectAssumption DEF SingleRep
    <3> QED
      BY <2>1, <3>1
  <2>2. CASE k # 1
    BY <1>2, <2>2, LaterOut, ObjectAssumption DEF SingleRep
  <2> QED
    BY <2>1, <2>2
<1>6. Abstract!Delete("remove", l, k)
  BY <1>3, <1>5, SingleMove, AbstractDelete
<1>7. Objects(l) = s[l]
  BY <1>1 DEF Objects
<1>8. Abstract!RemoveFrom(l, x)
  BY <1>1, <1>2, <1>6, <1>7 DEF Abstract!RemoveFrom
<1> QED
  BY <1>5, <1>8

\* remove of an object that is not in it: what ObjectLists promises.
LEMMA SingleRemoveOther ==
  ASSUME NEW s, SingleRep(s), container = "list", container' = "list",
         NEW l \in List, NEW x \in Object, Single!RemoveOther(l, x)
  PROVE  Abstract!RemoveOther(l, x) /\ \E t : SingleRep(t)'
<1>1. SingleRep(s)'
  BY DEF SingleRep, Single!RemoveOther
<1>2. Objects(l) = Single!Objects(l)
  BY DEF Objects
<1>3. ~Abstract!Contains(Objects(l), x)
  BY <1>2, SameOperators DEF Single!RemoveOther
<1>4. Abstract!Ask("remove", l, None)
  BY <1>1, SingleMove, AbstractAsk DEF Single!RemoveOther, Single!Says, Single!Answer
<1> QED
  BY <1>1, <1>3, <1>4 DEF Abstract!RemoveOther

\* The calls that only answer: what ObjectLists promises.
LEMMA SingleAsk ==
  ASSUME NEW s, SingleRep(s), container = "list", container' = "list",
         NEW l \in List, Single!Ask(l)
  PROVE  Abstract!Next /\ \E t : SingleRep(t)'
<1>1. SingleRep(s)'
  BY DEF SingleRep, Single!Ask
<1>2. /\ Lists = s /\ Lists' = s /\ Single!Objects(l) = s[l] /\ s[l] \in Seq(Object)
      /\ Objects(l) = s[l]
  BY <1>1, SingleMove, ForwardParts DEF SingleRep, Objects
<1>3. /\ s[l] = <<>> <=> Len(s[l]) = 0
      /\ Len(s[l]) # 0 => Head(s[l]) = s[l][1] /\ s[l][1] \in Object
  <2>1. Len(s[l]) \in Nat /\ \A i \in 1..Len(s[l]) : s[l][i] \in Object
    BY ForwardParts DEF SingleRep
  <2>2. Len(s[l]) # 0 => 1 \in 1..Len(s[l])
    BY <2>1
  <2> QED
    BY <1>2, <2>1, <2>2, EmptySeq, HeadTailProperties
<1>4. head_[l] = IF Len(s[l]) = 0 THEN End ELSE s[l][1]
  BY ForwardParts DEF SingleRep
<1>5. CASE Single!Says("front", l, Single!OrNone(head_[l]))
  <2>1. Single!OrNone(head_[l]) = IF s[l] = <<>> THEN None ELSE Head(s[l])
    BY <1>3, <1>4, ObjectAssumption DEF Single!OrNone
  <2>2. Abstract!First(l)
    BY <1>2, <1>5, <2>1, AbstractAsk DEF Abstract!First, Single!Says, Single!Answer
  <2> QED
    BY <1>1, <2>2 DEF Abstract!Next
<1>6. CASE Single!Says("back", l, IF Single!Objects(l) = <<>> THEN None
                                  ELSE Single!Last(Single!Objects(l)))
  <2>1. Abstract!Back(l)
    BY <1>2, <1>6, AbstractAsk, SameOperators DEF Abstract!Back, Single!Says, Single!Answer
  <2> QED
    BY <1>1, <2>1 DEF Abstract!Next
<1>7. CASE Single!Says("size", l, Len(Single!Objects(l)))
  <2>1. Abstract!Size(l)
    BY <1>2, <1>7, AbstractAsk DEF Abstract!Size, Single!Says, Single!Answer
  <2> QED
    BY <1>1, <2>1 DEF Abstract!Next
<1>8. CASE Single!Says("++", l, Single!Objects(l))
  <2>1. Abstract!Forward(l)
    BY <1>2, <1>8, AbstractAsk DEF Abstract!Forward, Single!Says, Single!Answer
  <2> QED
    BY <1>1, <2>1 DEF Abstract!Next
<1>9. CASE \E x \in Object : Single!Says("find", l, IF Single!Contains(Single!Objects(l), x)
                                                    THEN x ELSE None)
  <2>1. PICK x \in Object : Single!Says("find", l, IF Single!Contains(Single!Objects(l), x)
                                                   THEN x ELSE None)
    BY <1>9
  <2>2. Abstract!Find(l, x)
    BY <1>2, <2>1, AbstractAsk, SameOperators DEF Abstract!Find, Single!Says, Single!Answer
  <2> QED
    BY <1>1, <2>2 DEF Abstract!Next
<1> QED
  BY <1>5, <1>6, <1>7, <1>8, <1>9 DEF Single!Ask

\* Swapping a list with itself changes nothing.
LEMMA SwapSame ==
  ASSUME NEW s, NEW L, NEW S, Sequences(L, S, s), NEW l \in L
  PROVE  Swapped(s, l, l) = s
BY DEF Sequences, Swapped

\* Exchanging two heads swaps the lists.
LEMMA Exchanged ==
  ASSUME NEW L, NEW S, NEW end, NEW unlinked, NEW out, NEW next, NEW head, NEW s,
         ForwardRep(L, S, end, unlinked, out, next, head, s), NEW l \in L, NEW m \in L
  PROVE  ForwardRep(L, S, end, unlinked, out, next, [head EXCEPT ![l] = head[m], ![m] = head[l]],
                    Swapped(s, l, m))
<1> DEFINE head2 == [head EXCEPT ![l] = head[m], ![m] = head[l]]
<1>1. head \in [L -> S \union {end}]
  BY DEF ForwardRep
<1>2. /\ head2 \in [L -> S \union {end}] /\ head2[l] = head[m] /\ head2[m] = head[l]
      /\ \A n \in L : n # l /\ n # m => head2[n] = head[n]
  BY <1>1
<1> HIDE DEF head2
<1>3. ForwardRep(L, S, end, unlinked, out, next, head2, Swapped(s, l, m))
  BY <1>2, ForwardSwap
<1> QED
  BY <1>3 DEF head2

\* swap of the single list is that of ObjectLists.
LEMMA SingleSwap ==
  ASSUME NEW s, SingleRep(s), container = "list", container' = "list",
         NEW l \in List, NEW m \in List, Single!Swap(l, m)
  PROVE  Abstract!Swap(l, m) /\ \E t : SingleRep(t)'
<1> DEFINE t == Swapped(s, l, m)
<1>1. /\ link' = link /\ head_' = [head_ EXCEPT ![l] = head_[m], ![m] = head_[l]]
      /\ result' = [op |-> "swap", of |-> l, value |-> None]
  BY DEF Single!Swap, Single!Says, Single!Answer
<1>2. SingleRep(t)'
  BY <1>1, Exchanged DEF SingleRep
<1>3. Abstract!Swap(l, m)
  BY <1>1, <1>2, SingleMove, AbstractSwap
<1> QED
  BY <1>2, <1>3

\* Joining an empty list changes nothing, joining to one is a swap.
LEMMA JoinEmpty ==
  ASSUME NEW L, NEW S, NEW s, Sequences(L, S, s), NEW l \in L, NEW m \in L, l # m
  PROVE  /\ Len(s[m]) = 0 => Joined(s, l, m) = s
         /\ Len(s[l]) = 0 => Joined(s, l, m) = Swapped(s, l, m)
<1>1. /\ s[l] \in Seq(S) /\ s[m] \in Seq(S) /\ s \in [L -> Seq(S)]
      /\ s[l] = <<>> <=> Len(s[l]) = 0
      /\ s[m] = <<>> <=> Len(s[m]) = 0
  BY SequencesParts, EmptySeq DEF Sequences
<1>2. s[l] \o <<>> = s[l] /\ <<>> \o s[m] = s[m]
  BY <1>1, ConcatEmptySeq
<1>3. ASSUME Len(s[m]) = 0
      PROVE  Joined(s, l, m) = s
  BY <1>1, <1>2, <1>3 DEF Joined
<1>4. ASSUME Len(s[l]) = 0
      PROVE  Joined(s, l, m) = Swapped(s, l, m)
  BY <1>1, <1>2, <1>4 DEF Joined, Swapped
<1> QED
  BY <1>3, <1>4

\* splice of the single list is that of ObjectLists.
LEMMA SingleSplice ==
  ASSUME NEW s, SingleRep(s), container = "list", container' = "list",
         NEW l \in List, NEW m \in List, Single!Splice(l, m)
  PROVE  Abstract!Splice(l, m) /\ \E t : SingleRep(t)'
<1> DEFINE t == IF l = m THEN s ELSE Joined(s, l, m)
<1>1. /\ IF head_[m] = End \/ head_[l] = head_[m] THEN link' = link /\ head_' = head_
         ELSE IF head_[l] = End
              THEN head_' = [head_ EXCEPT ![l] = head_[m], ![m] = End] /\ link' = link
         ELSE /\ link' = [link EXCEPT ![Single!Last(Single!Objects(l))] = head_[m]]
              /\ head_' = [head_ EXCEPT ![m] = End]
      /\ result' = [op |-> "splice", of |-> l, value |-> None]
  BY DEF Single!Splice, Single!Says, Single!Answer
<1>2. Sequences(List, Object, s)
  BY ForwardParts DEF SingleRep
<1>3. Single!Last(Single!Objects(l)) = s[l][Len(s[l])]
  BY WalksAre, SingleWalk, SameOperators DEF SingleRep, Single!Objects, Last
<1>4. ForwardRep(List, Object, End, Free, {}, link, head_, s)
  BY DEF SingleRep
<1>5. \A n \in List : head_[n] = End <=> Len(s[n]) = 0
  BY <1>4, EmptyFirst, ObjectAssumption
<1>6. head_[l] = head_[m] /\ head_[m] # End => l = m
  <2>1. head_[l] = head_[m] /\ head_[m] # End =>
          /\ 1 \in 1..Len(s[l]) /\ head_[l] = s[l][1]
          /\ 1 \in 1..Len(s[m]) /\ head_[m] = s[m][1]
    BY <1>4, EmptyFirst, ObjectAssumption
  <2> QED
    BY <1>2, <2>1, SameSlot
<1>7. SingleRep(t)'
  <2>1. CASE l = m
    BY <1>1, <1>4, <2>1 DEF SingleRep
  <2>2. CASE l # m /\ head_[m] = End
    <3>1. t = s
      BY <1>2, <1>5, <2>2, JoinEmpty
    <3> QED
      BY <1>1, <1>4, <2>2, <3>1 DEF SingleRep
  <2>3. CASE l # m /\ head_[m] # End /\ head_[l] = End
    <3>1. t = Swapped(s, l, m)
      BY <1>2, <1>5, <2>3, JoinEmpty
    <3>2. link' = link /\ head_' = [head_ EXCEPT ![l] = head_[m], ![m] = head_[l]]
      BY <1>1, <2>3
    <3>3. ForwardRep(List, Object, End, Free, {}, link,
                     [head_ EXCEPT ![l] = head_[m], ![m] = head_[l]], Swapped(s, l, m))
      BY <1>4, Exchanged
    <3> QED
      BY <3>1, <3>2, <3>3 DEF SingleRep
  <2>4. CASE l # m /\ head_[m] # End /\ head_[l] # End
    <3>1. /\ link' = [link EXCEPT ![s[l][Len(s[l])]] = head_[m]]
          /\ head_' = [head_ EXCEPT ![m] = End]
      BY <1>1, <1>3, <1>6, <2>4
    <3>2. ForwardRep(List, Object, End, Free, {}, [link EXCEPT ![s[l][Len(s[l])]] = head_[m]],
                     [head_ EXCEPT ![m] = End], Joined(s, l, m))
      BY <1>4, <1>5, <2>4, LinkedBy, ObjectAssumption
    <3> QED
      BY <2>4, <3>1, <3>2 DEF SingleRep
  <2> QED
    BY <2>1, <2>2, <2>3, <2>4
<1>8. Abstract!Splice(l, m)
  BY <1>1, <1>7, SingleMove, AbstractSplice
<1> QED
  BY <1>7, <1>8

\* Every call of the single list is one of ObjectLists.
LEMMA SingleStep ==
  ASSUME NEW s, SingleRep(s), container = "list", container' = "list", Single!Next
  PROVE  Abstract!Next /\ \E t : SingleRep(t)'
<1>1. PICK l \in List :
        \/ Single!PopFront(l) \/ Single!PopBack(l) \/ Single!PopEmpty(l) \/ Single!Ask(l)
        \/ \E m \in List : Single!Swap(l, m) \/ Single!Splice(l, m)
        \/ \E x \in Object : \/ Single!PushFront(l, x) \/ Single!PushBack(l, x)
                             \/ Single!RemoveFrom(l, x) \/ Single!RemoveOther(l, x)
  BY DEF Single!Next
<1>2. CASE Single!PopFront(l) \/ Single!PopBack(l) \/ Single!PopEmpty(l)
  BY <1>2, SinglePopFront, SinglePopBack, SinglePopEmpty DEF Abstract!Next
<1>3. CASE Single!Ask(l)
  BY <1>3, SingleAsk
<1>4. ASSUME NEW m \in List, Single!Swap(l, m) \/ Single!Splice(l, m)
      PROVE  Abstract!Next /\ \E t : SingleRep(t)'
  BY <1>4, SingleSwap, SingleSplice DEF Abstract!Next
<1>5. ASSUME NEW x \in Object, Single!PushFront(l, x) \/ Single!PushBack(l, x)
      PROVE  Abstract!Next /\ \E t : SingleRep(t)'
  BY <1>5, SinglePushFront, SinglePushBack DEF Abstract!Next
<1>6. ASSUME NEW x \in Object, Single!RemoveFrom(l, x) \/ Single!RemoveOther(l, x)
      PROVE  Abstract!Next /\ \E t : SingleRep(t)'
  BY <1>6, SingleRemoveFrom, SingleRemoveOther DEF Abstract!Next
<1> QED
  BY <1>1, <1>2, <1>3, <1>4, <1>5, <1>6

-----------------------------------------------------------------------------
(* single_queue: tails and sizes.                                          *)

\* The tails are those of s.
TailsAre(L, S, end, tail, s) ==
  tail \in [L -> S \union {end}] /\ \A l \in L : tail[l] = LastOf(end, s[l])

\* The sizes are those of s.
SizesAre(L, size, s) ==
  size \in [L -> Nat] /\ \A l \in L : size[l] = Len(s[l])

\* An insertion makes its list one longer.
LEMMA InsertLens ==
  ASSUME NEW L, NEW S, NEW s, Sequences(L, S, s), NEW l \in L, NEW x \in S,
         NEW k \in 1..(Len(s[l]) + 1)
  PROVE  /\ Len(Inserted(s, l, k, x)[l]) = Len(s[l]) + 1
         /\ \A m \in L : m # l => Inserted(s, l, k, x)[m] = s[m]
<1> DEFINE q == s[l]
           t == Inserted(s, l, k, x)
           r == InsertAt(q, k, x)
<1>1. t[l] = r /\ \A m \in L : m # l => t[m] = s[m]
  BY DEF Inserted, Sequences
<1>2. q \in Seq(S) /\ Len(q) \in Nat
  BY SequencesParts
<1>3. k \in 1..(Len(q) + 1)
  OBVIOUS
<1> HIDE DEF q, t
<1>4. /\ Len(r) = Len(q) + 1
      /\ \A i \in 1..(Len(q) + 1) : r[i] = IF i < k THEN q[i] ELSE IF i = k THEN x ELSE q[i - 1]
  BY <1>2, <1>3, InsertAtFacts
<1> QED
  BY <1>1, <1>4 DEF q, t

\* An insertion changes the last object only at the end.
LEMMA InsertLasts ==
  ASSUME NEW L, NEW S, NEW s, Sequences(L, S, s), NEW l \in L, NEW x \in S,
         NEW k \in 1..(Len(s[l]) + 1), NEW end
  PROVE  LastOf(end, Inserted(s, l, k, x)[l]) = IF k = Len(s[l]) + 1 THEN x ELSE LastOf(end, s[l])
<1> DEFINE q == s[l]
           t == Inserted(s, l, k, x)
           r == InsertAt(q, k, x)
<1>1. t[l] = r
  BY DEF Inserted, Sequences
<1>2. q \in Seq(S) /\ Len(q) \in Nat
  BY SequencesParts
<1>3. k \in 1..(Len(q) + 1)
  OBVIOUS
<1> HIDE DEF q, t
<1>4. /\ Len(r) = Len(q) + 1
      /\ \A i \in 1..(Len(q) + 1) : r[i] = IF i < k THEN q[i] ELSE IF i = k THEN x ELSE q[i - 1]
  BY <1>2, <1>3, InsertAtFacts
<1> HIDE DEF r
<1> DEFINE n == Len(q)
<1>5. n \in Nat /\ k \in 1..(n + 1)
  BY <1>2, <1>3
<1>6. r[n + 1] = IF k = n + 1 THEN x ELSE q[n]
  <2> HIDE DEF n
  <2>1. n + 1 \in 1..(n + 1) /\ ~(n + 1 < k) /\ n + 1 - 1 = n
    BY <1>5
  <2>2. r[n + 1] = IF n + 1 < k THEN q[n + 1] ELSE IF n + 1 = k THEN x ELSE q[n + 1 - 1]
    BY <1>4, <2>1 DEF n
  <2> QED
    BY <2>1, <2>2
<1>7. n = 0 => k = n + 1
  BY <1>5
<1>8. LastOf(end, r) = r[n + 1]
  BY <1>4, <1>5 DEF LastOf
<1>9. LastOf(end, r) = IF k = n + 1 THEN x ELSE LastOf(end, q)
  BY <1>6, <1>7, <1>8 DEF LastOf
<1> QED
  BY <1>1, <1>9 DEF q, t

\* The place before the last one, when there is one.
LEMMA BeforeLast ==
  ASSUME NEW n \in Nat, NEW k \in 1..n, n # 1
  PROVE  /\ n - 1 \in 1..(n - 1) /\ n - 1 # 0 /\ n - 1 + 1 = n
         /\ n - 1 < k <=> k = n
         /\ k = n => k # 1 /\ n - 1 = k - 1
OBVIOUS

\* A removal makes its list one shorter.
LEMMA RemoveLens ==
  ASSUME NEW L, NEW S, NEW s, Sequences(L, S, s), NEW l \in L, NEW k \in 1..Len(s[l])
  PROVE  /\ Len(Removed(s, l, k)[l]) = Len(s[l]) - 1
         /\ \A m \in L : m # l => Removed(s, l, k)[m] = s[m]
<1> DEFINE q == s[l]
           t == Removed(s, l, k)
           r == RemoveAt(q, k)
           n == Len(q)
<1>1. t[l] = r /\ \A m \in L : m # l => t[m] = s[m]
  BY DEF Removed, Sequences
<1>2. q \in Seq(S) /\ n \in Nat /\ k \in 1..n
  BY SequencesParts
<1> HIDE DEF q, t
<1>3. /\ Len(r) = n - 1
      /\ \A i \in 1..(n - 1) : r[i] = IF i < k THEN q[i] ELSE q[i + 1]
  BY <1>2, RemoveAtFacts
<1> QED
  BY <1>1, <1>3 DEF q, t

\* A removal changes the last object only at the end.
LEMMA RemoveLasts ==
  ASSUME NEW L, NEW S, NEW s, Sequences(L, S, s), NEW l \in L, NEW k \in 1..Len(s[l]), NEW end,
         NEW z, z = IF k # Len(s[l]) THEN LastOf(end, s[l]) ELSE IF k = 1 THEN end ELSE s[l][k - 1]
  PROVE  LastOf(end, Removed(s, l, k)[l]) = z
<1> DEFINE q == s[l]
           t == Removed(s, l, k)
           r == RemoveAt(q, k)
           n == Len(q)
<1>1. t[l] = r
  BY DEF Removed, Sequences
<1>2. q \in Seq(S) /\ n \in Nat /\ k \in 1..n
  BY SequencesParts
<1> HIDE DEF q, t
<1>3. /\ Len(r) = n - 1
      /\ \A i \in 1..(n - 1) : r[i] = IF i < k THEN q[i] ELSE q[i + 1]
  BY <1>2, RemoveAtFacts
<1> HIDE DEF r
<1>4. LastOf(end, r) = IF k # n THEN LastOf(end, q) ELSE IF k = 1 THEN end ELSE q[k - 1]
  <2> DEFINE j == n - 1
  <2>1. CASE n = 1
    BY <1>2, <1>3, <2>1 DEF LastOf
  <2>2. CASE n # 1
    <3>1. j \in 1..j /\ j # 0 /\ j + 1 = n /\ (j < k <=> k = n) /\ (k = n => k # 1 /\ j = k - 1)
      BY <1>2, <2>2, BeforeLast
    <3>2. LastOf(end, q) = q[n] /\ LastOf(end, r) = r[j]
      BY <1>2, <1>3, <3>1 DEF LastOf
    <3>3. r[j] = IF j < k THEN q[j] ELSE q[j + 1]
      BY <1>3, <3>1
    <3> QED
      BY <3>1, <3>2, <3>3
  <2> QED
    BY <2>1, <2>2
<1> QED
  BY <1>1, <1>4 DEF q, t

\* What each list is after a swap.
LEMMA SwapEnds ==
  ASSUME NEW L, NEW S, NEW s, Sequences(L, S, s), NEW l \in L, NEW m \in L
  PROVE  LET t == Swapped(s, l, m) IN
         t[l] = s[m] /\ t[m] = s[l] /\ \A n \in L : n # l /\ n # m => t[n] = s[n]
BY DEF Sequences, Swapped

\* What the other lists are after a join.
LEMMA JoinEnds ==
  ASSUME NEW L, NEW S, NEW s, Sequences(L, S, s), NEW l \in L, NEW m \in L, l # m
  PROVE  /\ Len(Joined(s, l, m)[m]) = 0
         /\ \A n \in L : n # l /\ n # m => Joined(s, l, m)[n] = s[n]
BY DEF Joined, Sequences

\* A join adds the lengths.
LEMMA JoinLens ==
  ASSUME NEW L, NEW S, NEW s, Sequences(L, S, s), NEW l \in L, NEW m \in L, l # m,
         NEW size, \A n \in L : size[n] = Len(s[n])
  PROVE  Len(Joined(s, l, m)[l]) = size[l] + size[m]
BY DEF Joined, Sequences

\* After a join the last object of m is that of l.
LEMMA JoinLasts ==
  ASSUME NEW L, NEW S, NEW s, Sequences(L, S, s), NEW l \in L, NEW m \in L, l # m,
         Len(s[m]) # 0, NEW end
  PROVE  /\ LastOf(end, Joined(s, l, m)[l]) = LastOf(end, s[m])
         /\ LastOf(end, Joined(s, l, m)[m]) = end
<1> DEFINE p == s[l]
           q == s[m]
           t == Joined(s, l, m)
           r == p \o q
<1>1. t[l] = r /\ t[m] = <<>> /\ Len(q) # 0
  BY DEF Joined, Sequences
<1>2. p \in Seq(S) /\ q \in Seq(S) /\ Len(p) \in Nat /\ Len(q) \in Nat
  BY SequencesParts
<1> HIDE DEF p, q, t
<1>3. /\ Len(r) = Len(p) + Len(q)
      /\ \A i \in 1..(Len(p) + Len(q)) : r[i] = IF i <= Len(p) THEN p[i] ELSE q[i - Len(p)]
  BY <1>2, ConcatProperties
<1> HIDE DEF r
<1>4. Len(q) # 0 => LastOf(end, r) = LastOf(end, q)
  <2> DEFINE a == Len(p)
             b == Len(q)
  <2>1. b # 0 => /\ a + b # 0 /\ a + b \in 1..(a + b) /\ ~(a + b <= a) /\ a + b - a = b
    BY <1>2
  <2>2. b # 0 => r[a + b] = q[b]
    BY <1>3, <2>1
  <2> QED
    BY <1>3, <2>1, <2>2 DEF LastOf
<1>5. LastOf(end, t[m]) = end
  BY <1>1 DEF LastOf
<1> QED
  BY <1>1, <1>4, <1>5 DEF p, q, t

\* The count push keeps is right.
LEMMA SizesInsert ==
  ASSUME NEW L, NEW S, NEW s, Sequences(L, S, s), NEW l \in L, NEW x \in S,
         NEW k \in 1..(Len(s[l]) + 1), NEW size, SizesAre(L, size, s)
  PROVE  SizesAre(L, [size EXCEPT ![l] = size[l] + 1], Inserted(s, l, k, x))
<1> DEFINE t == Inserted(s, l, k, x)
<1>1. Len(t[l]) = Len(s[l]) + 1 /\ \A m \in L : m # l => t[m] = s[m]
  BY InsertLens
<1> HIDE DEF t
<1> QED
  BY <1>1 DEF SizesAre, t

\* The count pop and remove keep is right.
LEMMA SizesRemove ==
  ASSUME NEW L, NEW S, NEW s, Sequences(L, S, s), NEW l \in L,
         NEW k \in 1..Len(s[l]), NEW size, SizesAre(L, size, s)
  PROVE  SizesAre(L, [size EXCEPT ![l] = size[l] - 1], Removed(s, l, k))
<1> DEFINE t == Removed(s, l, k)
           n == Len(s[l])
<1>1. Len(t[l]) = n - 1 /\ \A m \in L : m # l => t[m] = s[m]
  BY RemoveLens
<1>2. size[l] = n /\ n \in Nat /\ k \in 1..n
  BY DEF SizesAre
<1> HIDE DEF t, n
<1>3. n - 1 \in Nat
  BY <1>2
<1> QED
  BY <1>1, <1>2, <1>3 DEF SizesAre, t

\* The counts swap exchanges are right.
LEMMA SizesSwap ==
  ASSUME NEW L, NEW S, NEW s, Sequences(L, S, s), NEW l \in L, NEW m \in L,
         NEW size, SizesAre(L, size, s)
  PROVE  SizesAre(L, [size EXCEPT ![l] = size[m], ![m] = size[l]], Swapped(s, l, m))
<1> DEFINE t == Swapped(s, l, m)
<1>1. t[l] = s[m] /\ t[m] = s[l] /\ \A n \in L : n # l /\ n # m => t[n] = s[n]
  BY SwapEnds
<1> HIDE DEF t
<1> QED
  BY <1>1 DEF SizesAre, t

\* The counts splice adds are right.
LEMMA SizesJoin ==
  ASSUME NEW L, NEW S, NEW s, Sequences(L, S, s), NEW l \in L, NEW m \in L, l # m,
         NEW size, SizesAre(L, size, s)
  PROVE  SizesAre(L, [size EXCEPT ![l] = size[l] + size[m], ![m] = 0], Joined(s, l, m))
<1> DEFINE t == Joined(s, l, m)
<1>1. \A n \in L : size[n] = Len(s[n])
  BY DEF SizesAre
<1>2. Len(t[l]) = size[l] + size[m]
  BY <1>1, JoinLens
<1>3. Len(t[m]) = 0 /\ \A n \in L : n # l /\ n # m => t[n] = s[n]
  BY JoinEnds
<1>4. size[l] + size[m] \in Nat
  BY DEF SizesAre
<1> HIDE DEF t
<1> QED
  BY <1>2, <1>3, <1>4 DEF SizesAre, t

\* The tail a push keeps is right.
LEMMA TailsInsert ==
  ASSUME NEW L, NEW S, NEW s, Sequences(L, S, s), NEW l \in L, NEW x \in S,
         NEW k \in 1..(Len(s[l]) + 1), NEW end, NEW tail, TailsAre(L, S, end, tail, s)
  PROVE  TailsAre(L, S, end, [tail EXCEPT ![l] = IF k = Len(s[l]) + 1 THEN x ELSE tail[l]],
                  Inserted(s, l, k, x))
<1> DEFINE t == Inserted(s, l, k, x)
           z == IF k = Len(s[l]) + 1 THEN x ELSE tail[l]
<1>1. /\ LastOf(end, t[l]) = IF k = Len(s[l]) + 1 THEN x ELSE LastOf(end, s[l])
      /\ \A m \in L : m # l => t[m] = s[m]
  BY InsertLasts, InsertLens
<1>2. z \in S \union {end} /\ z = LastOf(end, t[l])
  BY <1>1 DEF TailsAre
<1> HIDE DEF t, z
<1> QED
  BY <1>1, <1>2 DEF TailsAre, t, z

\* The tail pop and remove keep is right.
LEMMA TailsRemove ==
  ASSUME NEW L, NEW S, NEW s, Sequences(L, S, s), NEW l \in L, NEW k \in 1..Len(s[l]),
         NEW end, NEW tail, TailsAre(L, S, end, tail, s), NEW z,
         z = IF k # Len(s[l]) THEN tail[l] ELSE IF k = 1 THEN end ELSE s[l][k - 1]
  PROVE  TailsAre(L, S, end, [tail EXCEPT ![l] = z], Removed(s, l, k))
<1> DEFINE t == Removed(s, l, k)
<1>1. \A m \in L : m # l => t[m] = s[m]
  BY RemoveLens
<1>2. z = LastOf(end, t[l])
  <2>1. z = IF k # Len(s[l]) THEN LastOf(end, s[l]) ELSE IF k = 1 THEN end ELSE s[l][k - 1]
    BY DEF TailsAre
  <2> QED
    BY <2>1, RemoveLasts
<1>3. z \in S \union {end}
  <2>1. k # 1 => k - 1 \in 1..Len(s[l])
    <3>1. Len(s[l]) \in Nat
      BY SequencesParts
    <3> QED
      BY <3>1
  <2>2. k # 1 => s[l][k - 1] \in S
    BY <2>1, SequencesParts
  <2> QED
    BY <2>2 DEF TailsAre
<1> HIDE DEF t
<1> QED
  BY <1>1, <1>2, <1>3 DEF TailsAre, t

\* The tails swap exchanges are right.
LEMMA TailsSwap ==
  ASSUME NEW L, NEW S, NEW s, Sequences(L, S, s), NEW l \in L, NEW m \in L,
         NEW end, NEW tail, TailsAre(L, S, end, tail, s)
  PROVE  TailsAre(L, S, end, [tail EXCEPT ![l] = tail[m], ![m] = tail[l]], Swapped(s, l, m))
<1> DEFINE t == Swapped(s, l, m)
<1>1. t[l] = s[m] /\ t[m] = s[l] /\ \A n \in L : n # l /\ n # m => t[n] = s[n]
  BY SwapEnds
<1> HIDE DEF t
<1> QED
  BY <1>1 DEF TailsAre, t

\* The tail splice hands over is right.
LEMMA TailsJoin ==
  ASSUME NEW L, NEW S, NEW s, Sequences(L, S, s), NEW l \in L, NEW m \in L, l # m,
         Len(s[m]) # 0, NEW end, NEW tail, TailsAre(L, S, end, tail, s)
  PROVE  TailsAre(L, S, end, [tail EXCEPT ![l] = tail[m], ![m] = end], Joined(s, l, m))
<1> DEFINE t == Joined(s, l, m)
<1>1. /\ LastOf(end, t[l]) = LastOf(end, s[m]) /\ LastOf(end, t[m]) = end
      /\ \A n \in L : n # l /\ n # m => t[n] = s[n]
  BY JoinLasts, JoinEnds
<1> HIDE DEF t
<1> QED
  BY <1>1 DEF TailsAre, t

\* single_queue: the list with its tail and its size.
QueueRep(s) ==
  /\ ForwardRep(List, Object, End, Free, {}, link, head_, s)
  /\ TailsAre(List, Object, End, tail_, s) /\ SizesAre(List, size_, s)

\* Where the queue represents s before a call and t after it, the refinement sees s become t.
LEMMA QueueMove ==
  ASSUME NEW s, QueueRep(s), container = "queue", container' = "queue", NEW t, QueueRep(t)'
  PROVE  /\ Lists = s /\ Lists' = t /\ Sequences(List, Object, s)
         /\ \A l \in List : Queue!Objects(l) = s[l]
<1>1. \A l \in List : Queue!Objects(l) = s[l]
  BY WalksAre, QueueWalk DEF QueueRep, Queue!Objects
<1>2. \A l \in List : Queue!Walk(Object, link', head_'[l]) = t[l]
  BY WalksAre, QueueWalk DEF QueueRep
<1>3. \A l \in List : Objects(l)' = t[l]
  BY <1>2 DEF Objects, Queue!Objects
<1>4. \A l \in List : Objects(l) = s[l]
  BY <1>1 DEF Objects
<1>5. s = [l \in List |-> s[l]] /\ t = [l \in List |-> t[l]] /\ Sequences(List, Object, s)
  BY DEF QueueRep, ForwardRep, Sequences
<1> QED
  BY <1>1, <1>3, <1>4, <1>5 DEF Lists

\* What QueueRep says of one queue.
LEMMA QueueParts ==
  ASSUME NEW s, QueueRep(s), NEW l \in List
  PROVE  /\ ForwardRep(List, Object, End, Free, {}, link, head_, s)
         /\ Sequences(List, Object, s) /\ s[l] \in Seq(Object) /\ Len(s[l]) \in Nat
         /\ \A i \in 1..Len(s[l]) : s[l][i] \in Object
         /\ size_[l] = Len(s[l])
         /\ head_[l] = IF Len(s[l]) = 0 THEN End ELSE s[l][1]
         /\ tail_[l] = IF Len(s[l]) = 0 THEN End ELSE s[l][Len(s[l])]
         /\ head_[l] = End <=> Len(s[l]) = 0
         /\ Len(s[l]) # 0 => 1 \in 1..Len(s[l]) /\ Len(s[l]) \in 1..Len(s[l])
         /\ Queue!Objects(l) = s[l]
         /\ DOMAIN s[l] = 1..Len(s[l])
<1>1. ForwardRep(List, Object, End, Free, {}, link, head_, s)
  BY DEF QueueRep
<1>2. /\ Sequences(List, Object, s) /\ s[l] \in Seq(Object) /\ Len(s[l]) \in Nat
      /\ \A i \in 1..Len(s[l]) : s[l][i] \in Object
      /\ head_[l] = IF Len(s[l]) = 0 THEN End ELSE s[l][1]
  BY <1>1, ForwardParts
<1>3. /\ head_[l] = End <=> Len(s[l]) = 0
      /\ Len(s[l]) # 0 => 1 \in 1..Len(s[l]) /\ Len(s[l]) \in 1..Len(s[l])
  BY <1>1, EmptyFirst, ObjectAssumption
<1>4. size_[l] = Len(s[l]) /\ tail_[l] = IF Len(s[l]) = 0 THEN End ELSE s[l][Len(s[l])]
  BY DEF QueueRep, SizesAre, TailsAre, LastOf
<1>5. Queue!Objects(l) = s[l]
  BY <1>1, WalksAre, QueueWalk DEF Queue!Objects
<1>6. DOMAIN s[l] = 1..Len(s[l])
  BY <1>2, LenProperties
<1> QED
  BY <1>1, <1>2, <1>3, <1>4, <1>5, <1>6

-----------------------------------------------------------------------------
(* The calls of single_queue.                                              *)

\* push_front of the queue is that of ObjectLists.
LEMMA QueuePushFront ==
  ASSUME NEW s, QueueRep(s), container = "queue", container' = "queue",
         NEW l \in List, NEW x \in Object, Queue!PushFront(l, x)
  PROVE  Abstract!PushFront(l, x) /\ \E t : QueueRep(t)'
<1> DEFINE t == Inserted(s, l, 1, x)
<1>1. /\ link' = [link EXCEPT ![x] = head_[l]] /\ head_' = [head_ EXCEPT ![l] = x]
      /\ link[x] = Free
      /\ tail_' = [tail_ EXCEPT ![l] = IF size_[l] = 0 THEN x ELSE tail_[l]]
      /\ size_' = [size_ EXCEPT ![l] = size_[l] + 1]
      /\ result' = [op |-> "push_front", of |-> l, value |-> None]
  BY DEF Queue!PushFront, Queue!Says, Queue!Answer
<1>2. /\ ForwardRep(List, Object, End, Free, {}, link, head_, s) /\ Sequences(List, Object, s)
      /\ size_[l] = Len(s[l]) /\ Len(s[l]) \in Nat
  BY QueueParts
<1>3. ForwardRep(List, Object, End, Free, {}, link, head_, t)' /\ ~Holds(List, s, x)
  BY <1>1, <1>2, FirstIn, ObjectAssumption
<1>4. 1 \in 1..(Len(s[l]) + 1) /\ (1 = Len(s[l]) + 1 <=> Len(s[l]) = 0)
  BY <1>2
<1>5. TailsAre(List, Object, End, tail_, t)'
  <2>1. TailsAre(List, Object, End, [tail_ EXCEPT ![l] = IF 1 = Len(s[l]) + 1 THEN x ELSE tail_[l]], t)
    BY <1>2, <1>4, TailsInsert DEF QueueRep
  <2> QED
    BY <1>1, <1>2, <1>4, <2>1
<1>6. SizesAre(List, size_, t)'
  <2>1. SizesAre(List, [size_ EXCEPT ![l] = size_[l] + 1], t)
    BY <1>2, <1>4, SizesInsert DEF QueueRep
  <2> QED
    BY <1>1, <2>1
<1>7. QueueRep(t)'
  BY <1>3, <1>5, <1>6 DEF QueueRep
<1>8. Abstract!Insert("push_front", l, 1, x, None)
  BY <1>1, <1>3, <1>7, QueueMove, AbstractInsert
<1>9. Abstract!PushFront(l, x)
  BY <1>8 DEF Abstract!PushFront
<1> QED
  BY <1>7, <1>9

\* push_back of the queue is that of ObjectLists.
LEMMA QueuePushBack ==
  ASSUME NEW s, QueueRep(s), container = "queue", container' = "queue",
         NEW l \in List, NEW x \in Object, Queue!PushBack(l, x)
  PROVE  Abstract!PushBack(l, x) /\ \E t : QueueRep(t)'
<1> DEFINE k == Len(s[l]) + 1
           t == Inserted(s, l, k, x)
<1>1. /\ link[x] = Free /\ tail_' = [tail_ EXCEPT ![l] = x]
      /\ size_' = [size_ EXCEPT ![l] = size_[l] + 1]
      /\ result' = [op |-> "push_back", of |-> l, value |-> None]
  BY DEF Queue!PushBack, Queue!Says, Queue!Answer
<1>2. /\ ForwardRep(List, Object, End, Free, {}, link, head_, s) /\ Sequences(List, Object, s)
      /\ size_[l] = Len(s[l]) /\ Len(s[l]) \in Nat
      /\ Len(s[l]) # 0 => tail_[l] = s[l][Len(s[l])]
  BY QueueParts
<1>3. IF Len(s[l]) = 0
      THEN link' = [link EXCEPT ![x] = End] /\ head_' = [head_ EXCEPT ![l] = x]
      ELSE /\ \/ link' = [link EXCEPT ![s[l][Len(s[l])]] = x, ![x] = End]
              \/ link' = [link EXCEPT ![x] = End, ![s[l][Len(s[l])]] = x]
           /\ head_' = head_
  BY <1>2 DEF Queue!PushBack
<1>4. ForwardRep(List, Object, End, Free, {}, link, head_, t)' /\ ~Holds(List, s, x)
  BY <1>1, <1>2, <1>3, LastIn, ObjectAssumption
<1>5. k \in 1..(Len(s[l]) + 1)
  BY <1>2
<1>6. TailsAre(List, Object, End, tail_, t)'
  <2>1. TailsAre(List, Object, End, [tail_ EXCEPT ![l] = IF k = Len(s[l]) + 1 THEN x ELSE tail_[l]], t)
    BY <1>2, <1>5, TailsInsert DEF QueueRep
  <2> QED
    BY <1>1, <2>1
<1>7. SizesAre(List, size_, t)'
  <2>1. SizesAre(List, [size_ EXCEPT ![l] = size_[l] + 1], t)
    BY <1>2, <1>5, SizesInsert DEF QueueRep
  <2> QED
    BY <1>1, <2>1
<1>8. QueueRep(t)'
  BY <1>4, <1>6, <1>7 DEF QueueRep
<1>9. Objects(l) = s[l]
  BY QueueParts DEF Objects
<1>10. Abstract!Insert("push_back", l, Len(Objects(l)) + 1, x, None)
  BY <1>1, <1>4, <1>8, <1>9, QueueMove, AbstractInsert
<1>11. Abstract!PushBack(l, x)
  BY <1>10 DEF Abstract!PushBack
<1> QED
  BY <1>8, <1>11

\* The writes by which the queue gives up its first object.
LEMMA QueueTakeFirst ==
  ASSUME NEW s, QueueRep(s), NEW l \in List, NEW op, Queue!TakeFirst(op, l), Len(s[l]) # 0
  PROVE  /\ QueueRep(Removed(s, l, 1))'
         /\ result' = [op |-> op, of |-> l, value |-> s[l][1]] /\ 1 \in 1..Len(s[l])
<1> DEFINE t == Removed(s, l, 1)
<1>1. /\ link' = [link EXCEPT ![head_[l]] = Free] /\ head_' = [head_ EXCEPT ![l] = link[head_[l]]]
      /\ tail_' = [tail_ EXCEPT ![l] = IF size_[l] = 1 THEN link[head_[l]] ELSE tail_[l]]
      /\ size_' = [size_ EXCEPT ![l] = size_[l] - 1]
      /\ result' = [op |-> op, of |-> l, value |-> head_[l]]
  BY DEF Queue!TakeFirst, Queue!Says, Queue!Answer
<1>2. /\ ForwardRep(List, Object, End, Free, {}, link, head_, s) /\ Sequences(List, Object, s)
      /\ size_[l] = Len(s[l]) /\ head_[l] = s[l][1] /\ 1 \in 1..Len(s[l])
  BY QueueParts
<1>3. ForwardRep(List, Object, End, Free, {}, link, head_, t)'
  BY <1>1, <1>2, FirstOut, ObjectAssumption
<1>4. size_[l] = 1 => link[head_[l]] = End
  <2>1. \A i \in 1..Len(s[l]) : i = Len(s[l]) => link[s[l][i]] = End
    BY <1>2, ForwardParts
  <2> QED
    BY <1>2, <2>1
<1>5. TailsAre(List, Object, End, tail_, t)'
  <2> DEFINE z == IF 1 # Len(s[l]) THEN tail_[l] ELSE End
  <2>1. z = IF 1 # Len(s[l]) THEN tail_[l] ELSE IF 1 = 1 THEN End ELSE s[l][1 - 1]
    OBVIOUS
  <2>2. tail_' = [tail_ EXCEPT ![l] = z]
    BY <1>1, <1>2, <1>4
  <2> HIDE DEF z
  <2>3. TailsAre(List, Object, End, [tail_ EXCEPT ![l] = z], t)
    BY <1>2, <2>1, TailsRemove DEF QueueRep
  <2> QED
    BY <2>2, <2>3
<1>6. SizesAre(List, size_, t)'
  <2>1. SizesAre(List, [size_ EXCEPT ![l] = size_[l] - 1], t)
    BY <1>2, SizesRemove DEF QueueRep
  <2> QED
    BY <1>1, <2>1
<1> QED
  BY <1>1, <1>2, <1>3, <1>5, <1>6 DEF QueueRep

\* Those by which it gives up a later one, the tail with it when it is the last.
LEMMA QueueTakeLater ==
  ASSUME NEW s, QueueRep(s), NEW l \in List, NEW k \in 1..Len(s[l]), k # 1,
         link' = [link EXCEPT ![s[l][k - 1]] = link[s[l][k]], ![s[l][k]] = Free],
         head_' = head_,
         tail_' = IF k = Len(s[l]) THEN [tail_ EXCEPT ![l] = s[l][k - 1]] ELSE tail_,
         size_' = [size_ EXCEPT ![l] = size_[l] - 1]
  PROVE  QueueRep(Removed(s, l, k))'
<1> DEFINE t == Removed(s, l, k)
<1>1. ForwardRep(List, Object, End, Free, {}, link, head_, s) /\ Sequences(List, Object, s)
  BY QueueParts
<1>2. ForwardRep(List, Object, End, Free, {},
                 [link EXCEPT ![s[l][k - 1]] = link[s[l][k]], ![s[l][k]] = Free], head_, t)
  BY <1>1, LaterOut, ObjectAssumption
<1>3. TailsAre(List, Object, End, tail_, t)'
  <2> DEFINE z == IF k # Len(s[l]) THEN tail_[l] ELSE s[l][k - 1]
  <2>1. z = IF k # Len(s[l]) THEN tail_[l] ELSE IF k = 1 THEN End ELSE s[l][k - 1]
    OBVIOUS
  <2>2. tail_ \in [List -> Object \union {End}]
    BY DEF QueueRep, TailsAre
  <2>3. tail_' = [tail_ EXCEPT ![l] = z]
    BY <2>2
  <2> HIDE DEF z
  <2>4. TailsAre(List, Object, End, [tail_ EXCEPT ![l] = z], t)
    BY <1>1, <2>1, TailsRemove DEF QueueRep
  <2> QED
    BY <2>3, <2>4
<1>4. SizesAre(List, size_, t)'
  <2>1. SizesAre(List, [size_ EXCEPT ![l] = size_[l] - 1], t)
    BY <1>1, SizesRemove DEF QueueRep
  <2> QED
    BY <2>1
<1> QED
  BY <1>2, <1>3, <1>4 DEF QueueRep

\* Those by which it gives up its last one when it has two or more.
LEMMA QueueTakeLast ==
  ASSUME NEW s, QueueRep(s), NEW l \in List, NEW op, Queue!TakeLast(op, l),
         Len(s[l]) # 0, Len(s[l]) # 1
  PROVE  /\ QueueRep(Removed(s, l, Len(s[l])))'
         /\ result' = [op |-> op, of |-> l, value |-> s[l][Len(s[l])]]
         /\ Len(s[l]) \in 1..Len(s[l])
<1> DEFINE k == Len(s[l])
<1>1. Queue!Objects(l) = s[l] /\ tail_[l] = s[l][k] /\ k \in 1..k /\ link[s[l][k]] = End
  BY QueueParts, ForwardParts
<1>2. /\ link' = [link EXCEPT ![s[l][k - 1]] = End, ![s[l][k]] = Free]
      /\ tail_' = [tail_ EXCEPT ![l] = s[l][k - 1]]
      /\ size_' = [size_ EXCEPT ![l] = size_[l] - 1] /\ head_' = head_
      /\ result' = [op |-> op, of |-> l, value |-> s[l][k]]
  BY <1>1 DEF Queue!TakeLast, Queue!Says, Queue!Answer
<1>3. link' = [link EXCEPT ![s[l][k - 1]] = link[s[l][k]], ![s[l][k]] = Free]
  BY <1>1, <1>2
<1>4. tail_' = IF k = Len(s[l]) THEN [tail_ EXCEPT ![l] = s[l][k - 1]] ELSE tail_
  BY <1>2
<1>5. k \in 1..Len(s[l]) /\ k # 1
  BY <1>1
<1>6. QueueRep(Removed(s, l, k))'
  BY <1>2, <1>3, <1>4, <1>5, QueueTakeLater
<1> QED
  BY <1>1, <1>2, <1>6

\* pop_front of the queue is that of ObjectLists.
LEMMA QueuePopFront ==
  ASSUME NEW s, QueueRep(s), container = "queue", container' = "queue",
         NEW l \in List, Queue!PopFront(l)
  PROVE  Abstract!PopFront(l) /\ \E t : QueueRep(t)'
<1>1. Len(s[l]) # 0
  BY QueueParts DEF Queue!PopFront
<1>2. /\ QueueRep(Removed(s, l, 1))'
      /\ result' = [op |-> "pop_front", of |-> l, value |-> s[l][1]] /\ 1 \in 1..Len(s[l])
  BY <1>1, QueueTakeFirst DEF Queue!PopFront
<1>3. Abstract!PopFront(l)
  BY <1>2, QueueMove, AbstractDelete DEF Abstract!PopFront
<1> QED
  BY <1>2, <1>3

\* pop_back of the queue is that of ObjectLists.
LEMMA QueuePopBack ==
  ASSUME NEW s, QueueRep(s), container = "queue", container' = "queue",
         NEW l \in List, Queue!PopBack(l)
  PROVE  Abstract!PopBack(l) /\ \E t : QueueRep(t)'
<1> DEFINE k == Len(s[l])
<1>1. k # 0 /\ k \in Nat /\ size_[l] = k /\ Queue!Objects(l) = s[l]
  BY QueueParts DEF Queue!PopBack
<1>2. /\ QueueRep(Removed(s, l, k))'
      /\ result' = [op |-> "pop_back", of |-> l, value |-> s[l][k]] /\ k \in 1..Len(s[l])
  <2>1. CASE k = 1
    <3>1. Queue!TakeFirst("pop_back", l)
      BY <1>1, <2>1 DEF Queue!PopBack
    <3>2. /\ QueueRep(Removed(s, l, 1))'
          /\ result' = [op |-> "pop_back", of |-> l, value |-> s[l][1]] /\ 1 \in 1..Len(s[l])
      BY <1>1, <3>1, QueueTakeFirst
    <3> QED
      BY <2>1, <3>2
  <2>2. CASE k # 1
    <3>1. ~(k <= 1)
      <4> HIDE DEF k
      <4> QED
        BY <1>1, <2>2
    <3>2. Queue!TakeLast("pop_back", l)
      BY <1>1, <3>1 DEF Queue!PopBack
    <3> QED
      BY <1>1, <2>2, <3>2, QueueTakeLast
  <2> QED
    BY <2>1, <2>2
<1>3. Objects(l) = s[l]
  BY <1>1 DEF Objects
<1>4. Abstract!PopBack(l)
  BY <1>2, <1>3, QueueMove, AbstractDelete DEF Abstract!PopBack
<1> QED
  BY <1>2, <1>4

\* remove of an object of the queue is that of ObjectLists.
LEMMA QueueRemoveFrom ==
  ASSUME NEW s, QueueRep(s), container = "queue", container' = "queue",
         NEW l \in List, NEW x \in Object, Queue!RemoveFrom(l, x)
  PROVE  Abstract!RemoveFrom(l, x) /\ \E t : QueueRep(t)'
<1> DEFINE n == Len(s[l])
<1>1. /\ Queue!Objects(l) = s[l] /\ DOMAIN s[l] = 1..n /\ size_[l] = n
      /\ head_[l] = IF n = 0 THEN End ELSE s[l][1]
      /\ tail_[l] = IF n = 0 THEN End ELSE s[l][n]
  BY QueueParts
<1>2. \E k \in 1..n : /\ QueueRep(Removed(s, l, k))' /\ s[l][k] = x
                      /\ result' = [op |-> "remove", of |-> l, value |-> s[l][k]]
  <2>1. CASE head_[l] = x
    <3>1. n # 0 /\ s[l][1] = x
      BY <1>1, <2>1, ObjectAssumption
    <3>2. Queue!TakeFirst("remove", l)
      BY <2>1 DEF Queue!RemoveFrom
    <3> QED
      BY <3>1, <3>2, QueueTakeFirst
  <2>2. CASE head_[l] # x /\ tail_[l] = x
    <3>1. n # 0 /\ n # 1 /\ s[l][n] = x
      BY <1>1, <2>2, ObjectAssumption
    <3>2. Queue!TakeLast("remove", l)
      BY <2>2 DEF Queue!RemoveFrom
    <3> QED
      BY <3>1, <3>2, QueueTakeLast
  <2>3. CASE head_[l] # x /\ tail_[l] # x
    <3>1. PICK k \in 1..n :
            /\ s[l][k] = x
            /\ link' = [link EXCEPT ![s[l][k - 1]] = link[x], ![x] = Free]
            /\ size_' = [size_ EXCEPT ![l] = size_[l] - 1] /\ head_' = head_ /\ tail_' = tail_
            /\ result' = [op |-> "remove", of |-> l, value |-> x]
      BY <1>1, <2>3 DEF Queue!RemoveFrom, Queue!Says, Queue!Answer
    <3>2. n # 0 /\ k # 1 /\ k # n
      <4>1. n # 0
        BY QueueParts, <3>1
      <4> QED
        BY <1>1, <2>3, <3>1, <4>1
    <3>3. link' = [link EXCEPT ![s[l][k - 1]] = link[s[l][k]], ![s[l][k]] = Free]
      BY <3>1
    <3>4. tail_' = IF k = Len(s[l]) THEN [tail_ EXCEPT ![l] = s[l][k - 1]] ELSE tail_
      BY <3>1, <3>2
    <3>5. QueueRep(Removed(s, l, k))'
      BY <3>1, <3>2, <3>3, <3>4, QueueTakeLater
    <3> QED
      BY <3>1, <3>5
  <2> QED
    BY <2>1, <2>2, <2>3
<1>3. PICK k \in 1..n : /\ QueueRep(Removed(s, l, k))' /\ s[l][k] = x
                        /\ result' = [op |-> "remove", of |-> l, value |-> s[l][k]]
  BY <1>2
<1>4. Abstract!Delete("remove", l, k)
  BY <1>3, QueueMove, AbstractDelete
<1>5. Objects(l) = s[l]
  BY <1>1 DEF Objects
<1>6. Abstract!RemoveFrom(l, x)
  BY <1>1, <1>3, <1>4, <1>5 DEF Abstract!RemoveFrom
<1> QED
  BY <1>3, <1>6

\* A call that writes nothing.
LEMMA QueueStays ==
  ASSUME NEW s, QueueRep(s), container = "queue", container' = "queue",
         link' = link, head_' = head_, tail_' = tail_, size_' = size_
  PROVE  QueueRep(s)' /\ Lists = s /\ Lists' = s
<1>1. QueueRep(s)'
  BY DEF QueueRep
<1> QED
  BY <1>1, QueueMove

\* A pop of an empty queue: what ObjectLists promises.
LEMMA QueuePopEmpty ==
  ASSUME NEW s, QueueRep(s), container = "queue", container' = "queue",
         NEW l \in List, Queue!PopEmpty(l)
  PROVE  Abstract!PopEmpty(l) /\ \E t : QueueRep(t)'
<1>1. QueueRep(s)' /\ Lists = s /\ Lists' = s
  BY QueueStays DEF Queue!PopEmpty
<1>2. s[l] \in Seq(Object) /\ Len(s[l]) = 0 /\ Queue!Objects(l) = s[l]
  BY QueueParts DEF Queue!PopEmpty
<1>3. Objects(l) = <<>>
  BY <1>2, EmptySeq DEF Objects
<1>4. \E op \in {"pop_front", "pop_back"} : Abstract!Ask(op, l, None)
  BY <1>1, AbstractAsk DEF Queue!PopEmpty, Queue!Says, Queue!Answer
<1> QED
  BY <1>1, <1>3, <1>4 DEF Abstract!PopEmpty

\* remove of an object that is not in it: what ObjectLists promises.
LEMMA QueueRemoveOther ==
  ASSUME NEW s, QueueRep(s), container = "queue", container' = "queue",
         NEW l \in List, NEW x \in Object, Queue!RemoveOther(l, x)
  PROVE  Abstract!RemoveOther(l, x) /\ \E t : QueueRep(t)'
<1>1. QueueRep(s)' /\ Lists = s /\ Lists' = s
  BY QueueStays DEF Queue!RemoveOther
<1>2. Objects(l) = Queue!Objects(l)
  BY DEF Objects
<1>3. ~Abstract!Contains(Objects(l), x)
  BY <1>2, SameOperators DEF Queue!RemoveOther
<1>4. Abstract!Ask("remove", l, None)
  BY <1>1, AbstractAsk DEF Queue!RemoveOther, Queue!Says, Queue!Answer
<1> QED
  BY <1>1, <1>3, <1>4 DEF Abstract!RemoveOther

\* The first and the last element, by their places.
LEMMA FirstAndLast ==
  ASSUME NEW S, NEW q \in Seq(S)
  PROVE  /\ q = <<>> <=> Len(q) = 0
         /\ Len(q) # 0 => Head(q) = q[1]
         /\ Last(q) = q[Len(q)]
<1>1. q = <<>> <=> Len(q) = 0
  BY EmptySeq
<1>2. q # <<>> => Head(q) = q[1]
  BY HeadTailProperties
<1> QED
  BY <1>1, <1>2 DEF Last

\* The calls that only answer: what ObjectLists promises.
LEMMA QueueAsk ==
  ASSUME NEW s, QueueRep(s), container = "queue", container' = "queue",
         NEW l \in List, Queue!Ask(l)
  PROVE  Abstract!Next /\ \E t : QueueRep(t)'
<1>1. QueueRep(s)' /\ Lists = s /\ Lists' = s
  BY QueueStays DEF Queue!Ask
<1>2. /\ Queue!Objects(l) = s[l] /\ s[l] \in Seq(Object) /\ size_[l] = Len(s[l])
      /\ head_[l] = IF Len(s[l]) = 0 THEN End ELSE s[l][1]
      /\ tail_[l] = IF Len(s[l]) = 0 THEN End ELSE s[l][Len(s[l])]
  BY QueueParts
<1>3. Objects(l) = s[l]
  BY <1>2 DEF Objects
<1>4. /\ s[l] = <<>> <=> Len(s[l]) = 0
      /\ Len(s[l]) # 0 => Head(s[l]) = s[l][1]
      /\ Last(s[l]) = s[l][Len(s[l])]
  BY <1>2, FirstAndLast
<1>5. CASE Queue!Says("front", l, IF size_[l] = 0 THEN None ELSE head_[l])
  <2>1. (IF size_[l] = 0 THEN None ELSE head_[l]) = IF s[l] = <<>> THEN None ELSE Head(s[l])
    BY <1>2, <1>4
  <2>2. Abstract!First(l)
    BY <1>1, <1>3, <1>5, <2>1, AbstractAsk DEF Abstract!First, Queue!Says, Queue!Answer
  <2> QED
    BY <1>1, <2>2 DEF Abstract!Next
<1>6. CASE Queue!Says("back", l, IF size_[l] = 0 THEN None ELSE tail_[l])
  <2>1. (IF size_[l] = 0 THEN None ELSE tail_[l]) = IF s[l] = <<>> THEN None ELSE Last(s[l])
    BY <1>2, <1>4
  <2>2. Abstract!Back(l)
    BY <1>1, <1>3, <1>6, <2>1, AbstractAsk, SameOperators DEF Abstract!Back, Queue!Says, Queue!Answer
  <2> QED
    BY <1>1, <2>2 DEF Abstract!Next
<1>7. CASE Queue!Says("size", l, size_[l])
  <2>1. Abstract!Size(l)
    BY <1>1, <1>2, <1>3, <1>7, AbstractAsk DEF Abstract!Size, Queue!Says, Queue!Answer
  <2> QED
    BY <1>1, <2>1 DEF Abstract!Next
<1>8. CASE Queue!Says("++", l, Queue!Objects(l))
  <2>1. Abstract!Forward(l)
    BY <1>1, <1>2, <1>3, <1>8, AbstractAsk DEF Abstract!Forward, Queue!Says, Queue!Answer
  <2> QED
    BY <1>1, <2>1 DEF Abstract!Next
<1>9. CASE \E x \in Object : Queue!Says("find", l, IF Queue!Contains(Queue!Objects(l), x)
                                                   THEN x ELSE None)
  <2>1. PICK x \in Object : Queue!Says("find", l, IF Queue!Contains(Queue!Objects(l), x)
                                                  THEN x ELSE None)
    BY <1>9
  <2>2. Abstract!Find(l, x)
    BY <1>1, <1>2, <1>3, <2>1, AbstractAsk, SameOperators DEF Abstract!Find, Queue!Says, Queue!Answer
  <2> QED
    BY <1>1, <2>2 DEF Abstract!Next
<1> QED
  BY <1>5, <1>6, <1>7, <1>8, <1>9 DEF Queue!Ask

\* swap of two queues is that of ObjectLists.
LEMMA QueueSwap ==
  ASSUME NEW s, QueueRep(s), container = "queue", container' = "queue",
         NEW l \in List, NEW m \in List, Queue!Swap(l, m)
  PROVE  Abstract!Swap(l, m) /\ \E t : QueueRep(t)'
<1> DEFINE t == Swapped(s, l, m)
<1>1. /\ link' = link /\ head_' = [head_ EXCEPT ![l] = head_[m], ![m] = head_[l]]
      /\ tail_' = [tail_ EXCEPT ![l] = tail_[m], ![m] = tail_[l]]
      /\ size_' = [size_ EXCEPT ![l] = size_[m], ![m] = size_[l]]
      /\ result' = [op |-> "swap", of |-> l, value |-> None]
  BY DEF Queue!Swap, Queue!Says, Queue!Answer
<1>2. ForwardRep(List, Object, End, Free, {}, link, head_, s) /\ Sequences(List, Object, s)
  BY QueueParts
<1>3. /\ ForwardRep(List, Object, End, Free, {}, link, [head_ EXCEPT ![l] = head_[m], ![m] = head_[l]], t)
      /\ TailsAre(List, Object, End, [tail_ EXCEPT ![l] = tail_[m], ![m] = tail_[l]], t)
      /\ SizesAre(List, [size_ EXCEPT ![l] = size_[m], ![m] = size_[l]], t)
  BY <1>2, Exchanged, TailsSwap, SizesSwap DEF QueueRep
<1>4. QueueRep(t)'
  BY <1>1, <1>3 DEF QueueRep
<1>5. Abstract!Swap(l, m)
  BY <1>1, <1>4, QueueMove, AbstractSwap
<1> QED
  BY <1>4, <1>5

\* splice of two queues is that of ObjectLists.
LEMMA QueueSplice ==
  ASSUME NEW s, QueueRep(s), container = "queue", container' = "queue",
         NEW l \in List, NEW m \in List, Queue!Splice(l, m)
  PROVE  Abstract!Splice(l, m) /\ \E t : QueueRep(t)'
<1> DEFINE t == IF l = m THEN s ELSE Joined(s, l, m)
<1>1. /\ IF size_[m] = 0 \/ (size_[l] # 0 /\ head_[l] = head_[m])
         THEN link' = link /\ head_' = head_ /\ tail_' = tail_ /\ size_' = size_
         ELSE /\ IF size_[l] = 0
                 THEN head_' = [head_ EXCEPT ![l] = head_[m], ![m] = End] /\ link' = link
                 ELSE /\ link' = [link EXCEPT ![tail_[l]] = head_[m]]
                      /\ head_' = [head_ EXCEPT ![m] = End]
              /\ tail_' = [tail_ EXCEPT ![l] = tail_[m], ![m] = End]
              /\ size_' = [size_ EXCEPT ![l] = size_[l] + size_[m], ![m] = 0]
      /\ result' = [op |-> "splice", of |-> l, value |-> None]
  BY DEF Queue!Splice, Queue!Says, Queue!Answer
<1>2. ForwardRep(List, Object, End, Free, {}, link, head_, s) /\ Sequences(List, Object, s)
  BY QueueParts
<1>3. \A n \in List : /\ size_[n] = Len(s[n])
                      /\ Len(s[n]) # 0 => /\ 1 \in 1..Len(s[n]) /\ head_[n] = s[n][1]
                                          /\ tail_[n] = s[n][Len(s[n])]
                      /\ Len(s[n]) = 0 => head_[n] = End
  BY QueueParts
<1>4. size_[m] # 0 /\ size_[l] # 0 /\ head_[l] = head_[m] => l = m
  BY <1>2, <1>3, SameSlot
<1>5. QueueRep(t)'
  <2>1. CASE size_[m] = 0 \/ l = m
    <3>1. t = s
      BY <1>2, <1>3, <2>1, JoinEmpty
    <3>2. link' = link /\ head_' = head_ /\ tail_' = tail_ /\ size_' = size_
      BY <1>1, <2>1
    <3> QED
      BY <3>1, <3>2 DEF QueueRep
  <2>2. CASE size_[m] # 0 /\ l # m
    <3>1. Len(s[m]) # 0
      BY <1>3, <2>2
    <3>2. /\ tail_' = [tail_ EXCEPT ![l] = tail_[m], ![m] = End]
          /\ size_' = [size_ EXCEPT ![l] = size_[l] + size_[m], ![m] = 0]
      BY <1>1, <1>4, <2>2
    <3>3. /\ TailsAre(List, Object, End, [tail_ EXCEPT ![l] = tail_[m], ![m] = End], Joined(s, l, m))
          /\ SizesAre(List, [size_ EXCEPT ![l] = size_[l] + size_[m], ![m] = 0], Joined(s, l, m))
      BY <1>2, <2>2, <3>1, TailsJoin, SizesJoin DEF QueueRep
    <3>4. ForwardRep(List, Object, End, Free, {}, link, head_, Joined(s, l, m))'
      <4>1. CASE size_[l] = 0
        <5>1. Joined(s, l, m) = Swapped(s, l, m) /\ head_[l] = End
          BY <1>2, <1>3, <2>2, <4>1, JoinEmpty
        <5>2. link' = link /\ head_' = [head_ EXCEPT ![l] = head_[m], ![m] = head_[l]]
          BY <1>1, <2>2, <4>1, <5>1
        <5>3. ForwardRep(List, Object, End, Free, {}, link,
                         [head_ EXCEPT ![l] = head_[m], ![m] = head_[l]], Swapped(s, l, m))
          BY <1>2, Exchanged
        <5> QED
          BY <5>1, <5>2, <5>3
      <4>2. CASE size_[l] # 0
        <5>1. Len(s[l]) # 0 /\ tail_[l] = s[l][Len(s[l])]
          BY <1>3, <4>2
        <5>2. /\ link' = [link EXCEPT ![s[l][Len(s[l])]] = head_[m]]
              /\ head_' = [head_ EXCEPT ![m] = End]
          BY <1>1, <1>4, <2>2, <4>2, <5>1
        <5>3. ForwardRep(List, Object, End, Free, {}, [link EXCEPT ![s[l][Len(s[l])]] = head_[m]],
                         [head_ EXCEPT ![m] = End], Joined(s, l, m))
          BY <1>2, <2>2, <3>1, <5>1, LinkedBy, ObjectAssumption
        <5> QED
          BY <5>2, <5>3
      <4> QED
        BY <4>1, <4>2
    <3>5. TailsAre(List, Object, End, tail_, Joined(s, l, m))' /\ SizesAre(List, size_, Joined(s, l, m))'
      BY <3>2, <3>3
    <3> QED
      BY <2>2, <3>4, <3>5 DEF QueueRep
  <2> QED
    BY <2>1, <2>2
<1>6. Abstract!Splice(l, m)
  BY <1>1, <1>5, QueueMove, AbstractSplice
<1> QED
  BY <1>5, <1>6

\* Every call of the queue is one of ObjectLists.
LEMMA QueueStep ==
  ASSUME NEW s, QueueRep(s), container = "queue", container' = "queue", Queue!Next
  PROVE  Abstract!Next /\ \E t : QueueRep(t)'
<1>1. PICK l \in List :
        \/ Queue!PopFront(l) \/ Queue!PopBack(l) \/ Queue!PopEmpty(l) \/ Queue!Ask(l)
        \/ \E m \in List : Queue!Swap(l, m) \/ Queue!Splice(l, m)
        \/ \E x \in Object : \/ Queue!PushFront(l, x) \/ Queue!PushBack(l, x)
                             \/ Queue!RemoveFrom(l, x) \/ Queue!RemoveOther(l, x)
  BY DEF Queue!Next
<1>2. CASE Queue!PopFront(l) \/ Queue!PopBack(l) \/ Queue!PopEmpty(l)
  BY <1>2, QueuePopFront, QueuePopBack, QueuePopEmpty DEF Abstract!Next
<1>3. CASE Queue!Ask(l)
  BY <1>3, QueueAsk
<1>4. ASSUME NEW m \in List, Queue!Swap(l, m) \/ Queue!Splice(l, m)
      PROVE  Abstract!Next /\ \E t : QueueRep(t)'
  BY <1>4, QueueSwap, QueueSplice DEF Abstract!Next
<1>5. ASSUME NEW x \in Object, Queue!PushFront(l, x) \/ Queue!PushBack(l, x)
      PROVE  Abstract!Next /\ \E t : QueueRep(t)'
  BY <1>5, QueuePushFront, QueuePushBack DEF Abstract!Next
<1>6. ASSUME NEW x \in Object, Queue!RemoveFrom(l, x) \/ Queue!RemoveOther(l, x)
      PROVE  Abstract!Next /\ \E t : QueueRep(t)'
  BY <1>6, QueueRemoveFrom, QueueRemoveOther DEF Abstract!Next
<1> QED
  BY <1>1, <1>2, <1>3, <1>4, <1>5, <1>6

-----------------------------------------------------------------------------
(* double_list: links both ways.                                           *)

\* double_list: the links both ways represent the same sequences, with their sizes.
DoubleRep(s) ==
  /\ ForwardRep(List, Object, End, Free, cleared, next_, head_, s)
  /\ BackwardRep(List, Object, End, Free, cleared, prev_, tail_, s)
  /\ SizesAre(List, size_, s)

\* What the previous links say of one list.
LEMMA BackwardParts ==
  ASSUME NEW L, NEW S, NEW end, NEW unlinked, NEW out, NEW prev, NEW tail, NEW s,
         BackwardRep(L, S, end, unlinked, out, prev, tail, s), NEW l \in L
  PROVE  /\ tail[l] = IF Len(s[l]) = 0 THEN end ELSE s[l][Len(s[l])]
         /\ \A i \in 1..Len(s[l]) : prev[s[l][i]] = IF i = 1 THEN end ELSE s[l][i - 1]
<1>1. AllPrev(L, end, prev, tail, s)
  BY DEF BackwardRep
<1>2. tail[l] = LastOf(end, s[l]) /\ PrevLinks(end, prev, s[l])
  BY <1>1 DEF AllPrev
<1> QED
  BY <1>2 DEF LastOf, PrevLinks

\* What DoubleRep says of one list.
LEMMA DoubleParts ==
  ASSUME NEW s, DoubleRep(s), NEW l \in List
  PROVE  /\ ForwardRep(List, Object, End, Free, cleared, next_, head_, s)
         /\ BackwardRep(List, Object, End, Free, cleared, prev_, tail_, s)
         /\ SizesAre(List, size_, s)
         /\ Sequences(List, Object, s) /\ s[l] \in Seq(Object) /\ Len(s[l]) \in Nat
         /\ \A i \in 1..Len(s[l]) : s[l][i] \in Object
         /\ size_[l] = Len(s[l])
         /\ head_[l] = IF Len(s[l]) = 0 THEN End ELSE s[l][1]
         /\ tail_[l] = IF Len(s[l]) = 0 THEN End ELSE s[l][Len(s[l])]
         /\ head_[l] = End <=> Len(s[l]) = 0
         /\ Len(s[l]) # 0 => 1 \in 1..Len(s[l]) /\ Len(s[l]) \in 1..Len(s[l])
         /\ Double!Objects(l) = s[l] /\ Double!Backwards(l) = Reverse(s[l])
         /\ DOMAIN s[l] = 1..Len(s[l])
<1>1. /\ ForwardRep(List, Object, End, Free, cleared, next_, head_, s)
      /\ BackwardRep(List, Object, End, Free, cleared, prev_, tail_, s)
      /\ SizesAre(List, size_, s)
  BY DEF DoubleRep
<1>2. /\ Sequences(List, Object, s) /\ s[l] \in Seq(Object) /\ Len(s[l]) \in Nat
      /\ \A i \in 1..Len(s[l]) : s[l][i] \in Object
      /\ head_[l] = IF Len(s[l]) = 0 THEN End ELSE s[l][1]
  BY <1>1, ForwardParts
<1>3. /\ head_[l] = End <=> Len(s[l]) = 0
      /\ Len(s[l]) # 0 => 1 \in 1..Len(s[l]) /\ Len(s[l]) \in 1..Len(s[l])
  BY <1>1, EmptyFirst, ObjectAssumption
<1>4. size_[l] = Len(s[l])
  BY <1>1 DEF SizesAre
<1>5. tail_[l] = IF Len(s[l]) = 0 THEN End ELSE s[l][Len(s[l])]
  BY <1>1, BackwardParts
<1>6. Double!Objects(l) = s[l]
  BY <1>1, WalksAre, DoubleWalk DEF Double!Objects
<1>7. Double!Backwards(l) = Reverse(s[l])
  BY <1>1, WalksBackAre, DoubleWalk DEF Double!Backwards
<1>8. DOMAIN s[l] = 1..Len(s[l])
  BY <1>2, LenProperties
<1> QED
  BY <1>1, <1>2, <1>3, <1>4, <1>5, <1>6, <1>7, <1>8

\* Where the links represent s before a call and t after it, the refinement sees s become t.
LEMMA DoubleMove ==
  ASSUME NEW s, DoubleRep(s), container = "double", container' = "double", NEW t, DoubleRep(t)'
  PROVE  /\ Lists = s /\ Lists' = t /\ Sequences(List, Object, s)
         /\ \A l \in List : Double!Objects(l) = s[l]
<1>1. \A l \in List : Double!Objects(l) = s[l]
  BY DoubleParts
<1>2. \A l \in List : Double!Walk(Object, next_', head_'[l]) = t[l]
  BY WalksAre, DoubleWalk DEF DoubleRep
<1>3. \A l \in List : Objects(l)' = t[l]
  BY <1>2 DEF Objects, Double!Objects
<1>4. \A l \in List : Objects(l) = s[l]
  BY <1>1 DEF Objects
<1>5. s = [l \in List |-> s[l]] /\ t = [l \in List |-> t[l]] /\ Sequences(List, Object, s)
  BY DEF DoubleRep, ForwardRep, Sequences
<1> QED
  BY <1>1, <1>3, <1>4, <1>5 DEF Lists

\* The next links after x is put between x1 and x2; the previous links with x1 and x2 exchanged.
Put(S, next, x, x2, x1) == [y \in S |-> IF y = x THEN x2 ELSE IF y = x1 THEN x ELSE next[y]]

\* The links after x is cut out from between x1 and x2.
Cut(S, next, x, x2, x1, unlinked) ==
  [y \in S |-> IF y = x THEN unlinked ELSE IF y = x1 THEN x2 ELSE next[y]]

\* The head after it, when x1 is the end; the tail with x1 and x2 exchanged.
Moved(head, l, x1, end, x) == [head EXCEPT ![l] = IF x1 = end THEN x ELSE head[l]]

\* The writes of insert_impl put x at place k, in the links both ways.
LEMMA BetweenIn ==
  ASSUME NEW L, NEW S, NEW end, NEW unlinked, unlinked # end, unlinked \notin S, end \notin S,
         NEW out, NEW next, NEW head, NEW s, ForwardRep(L, S, end, unlinked, out, next, head, s),
         NEW prev, NEW tail, BackwardRep(L, S, end, unlinked, out, prev, tail, s),
         NEW l \in L, NEW x \in S, next[x] = unlinked, prev[x] = unlinked,
         NEW k \in 1..(Len(s[l]) + 1),
         NEW x1, x1 = IF k = 1 THEN end ELSE s[l][k - 1],
         NEW x2, x2 = IF k = Len(s[l]) + 1 THEN end ELSE s[l][k]
  PROVE  /\ ForwardRep(L, S, end, unlinked, out, Put(S, next, x, x2, x1),
                       Moved(head, l, x1, end, x), Inserted(s, l, k, x))
         /\ BackwardRep(L, S, end, unlinked, out, Put(S, prev, x, x1, x2),
                        Moved(tail, l, x2, end, x), Inserted(s, l, k, x))
         /\ ~Holds(L, s, x)
<1> DEFINE next2 == Put(S, next, x, x2, x1)
           prev2 == Put(S, prev, x, x1, x2)
           head2 == Moved(head, l, x1, end, x)
           tail2 == Moved(tail, l, x2, end, x)
<1>1. /\ Len(s[l]) \in Nat /\ \A i \in 1..Len(s[l]) : s[l][i] \in S
      /\ ~Holds(L, s, x)
  <2>1. ~Holds(L, s, x)
    BY DEF ForwardRep
  <2> QED
    BY <2>1, ForwardParts
<1>2. /\ k > 1 <=> k # 1
      /\ k <= Len(s[l]) <=> k # Len(s[l]) + 1
      /\ k # 1 => k - 1 \in 1..Len(s[l])
      /\ k # Len(s[l]) + 1 => k \in 1..Len(s[l])
  BY <1>1
<1>3. /\ k # 1 => x1 \in S /\ x1 # x /\ x1 # end
      /\ k # Len(s[l]) + 1 => x2 \in S /\ x2 # x /\ x2 # end
  BY <1>1, <1>2, SlotHeld
<1>4. (k = 1 => x1 = end) /\ (k = Len(s[l]) + 1 => x2 = end)
  OBVIOUS
<1>5. /\ next \in [S -> S \union {unlinked, end}] /\ head \in [L -> S \union {end}]
      /\ prev \in [S -> S \union {unlinked, end}] /\ tail \in [L -> S \union {end}]
  BY DEF ForwardRep, BackwardRep
<1>6. /\ next2 \in [S -> S \union {unlinked, end}] /\ head2 \in [L -> S \union {end}]
      /\ prev2 \in [S -> S \union {unlinked, end}] /\ tail2 \in [L -> S \union {end}]
  <2>1. (x1 = end \/ x1 \in S) /\ (x2 = end \/ x2 \in S)
    BY <1>3, <1>4
  <2> QED
    BY <1>5, <2>1 DEF Put, Moved
<1>7. /\ next2[x] = IF k = Len(s[l]) + 1 THEN end ELSE s[l][k]
      /\ k > 1 => next2[s[l][k - 1]] = x
      /\ \A y \in S : y # x /\ (k > 1 => y # s[l][k - 1]) => next2[y] = next[y]
      /\ head2[l] = IF k = 1 THEN x ELSE head[l]
      /\ \A m \in L : m # l => head2[m] = head[m]
  BY <1>2, <1>3, <1>4, <1>5 DEF Put, Moved
<1>8. /\ prev2[x] = IF k = 1 THEN end ELSE s[l][k - 1]
      /\ k <= Len(s[l]) => prev2[s[l][k]] = x
      /\ \A y \in S : y # x /\ (k <= Len(s[l]) => y # s[l][k]) => prev2[y] = prev[y]
      /\ tail2[l] = IF k = Len(s[l]) + 1 THEN x ELSE tail[l]
      /\ \A m \in L : m # l => tail2[m] = tail[m]
  BY <1>2, <1>3, <1>4, <1>5 DEF Put, Moved
<1> HIDE DEF next2, prev2, head2, tail2
<1>9. ForwardRep(L, S, end, unlinked, out, next2, head2, Inserted(s, l, k, x))
  BY <1>6, <1>7, ForwardInsert
<1>10. BackwardRep(L, S, end, unlinked, out, prev2, tail2, Inserted(s, l, k, x))
  BY <1>6, <1>8, BackwardInsert
<1> QED
  BY <1>1, <1>9, <1>10 DEF next2, prev2, head2, tail2

\* Those of remove_impl take place k out of both.
LEMMA BetweenOut ==
  ASSUME NEW L, NEW S, NEW end, NEW unlinked, unlinked # end, unlinked \notin S, end \notin S,
         NEW out, NEW next, NEW head, NEW s, ForwardRep(L, S, end, unlinked, out, next, head, s),
         NEW prev, NEW tail, BackwardRep(L, S, end, unlinked, out, prev, tail, s),
         NEW l \in L, NEW k \in 1..Len(s[l]), NEW x, x = s[l][k],
         NEW x1, x1 = prev[x], NEW x2, x2 = next[x]
  PROVE  /\ ForwardRep(L, S, end, unlinked, out, Cut(S, next, x, x2, x1, unlinked),
                       Moved(head, l, x1, end, x2), Removed(s, l, k))
         /\ BackwardRep(L, S, end, unlinked, out, Cut(S, prev, x, x1, x2, unlinked),
                        Moved(tail, l, x2, end, x1), Removed(s, l, k))
<1> DEFINE next2 == Cut(S, next, x, x2, x1, unlinked)
           prev2 == Cut(S, prev, x, x1, x2, unlinked)
           head2 == Moved(head, l, x1, end, x2)
           tail2 == Moved(tail, l, x2, end, x1)
<1>1. /\ Len(s[l]) \in Nat /\ \A i \in 1..Len(s[l]) : s[l][i] \in S
      /\ Sequences(L, S, s)
  BY ForwardParts
<1>2. /\ k > 1 <=> k # 1
      /\ k < Len(s[l]) <=> k # Len(s[l])
      /\ k # 1 => k - 1 \in 1..Len(s[l]) /\ k - 1 # k
      /\ k # Len(s[l]) => k + 1 \in 1..Len(s[l]) /\ k + 1 # k
  BY <1>1
<1>3. x1 = IF k = 1 THEN end ELSE s[l][k - 1]
  BY BackwardParts
<1>4. x2 = IF k = Len(s[l]) THEN end ELSE s[l][k + 1]
  BY ForwardParts
<1>5. x \in S
  BY <1>1
<1>6. k # 1 => x1 \in S /\ x1 # x /\ x1 # end
  <2> DEFINE j == k - 1
  <2>1. k # 1 => j \in 1..Len(s[l]) /\ j # k
    BY <1>2
  <2>2. k # 1 => x1 = s[l][j]
    BY <1>3
  <2> HIDE DEF j
  <2> QED
    BY <1>1, <2>1, <2>2, SameSlot
<1>7. k # Len(s[l]) => x2 \in S /\ x2 # x /\ x2 # end
  <2> DEFINE j == k + 1
  <2>1. k # Len(s[l]) => j \in 1..Len(s[l]) /\ j # k
    BY <1>2
  <2>2. k # Len(s[l]) => x2 = s[l][j]
    BY <1>4
  <2> HIDE DEF j
  <2> QED
    BY <1>1, <2>1, <2>2, SameSlot
<1>8. (k = 1 => x1 = end) /\ (k = Len(s[l]) => x2 = end)
  BY <1>3, <1>4
<1>9. /\ next \in [S -> S \union {unlinked, end}] /\ head \in [L -> S \union {end}]
      /\ prev \in [S -> S \union {unlinked, end}] /\ tail \in [L -> S \union {end}]
  BY DEF ForwardRep, BackwardRep
<1>10. x1 = prev[x] /\ x2 = next[x]
  OBVIOUS
<1>11. /\ next2 \in [S -> S \union {unlinked, end}] /\ head2 \in [L -> S \union {end}]
       /\ prev2 \in [S -> S \union {unlinked, end}] /\ tail2 \in [L -> S \union {end}]
  <2>1. (x1 = end \/ x1 \in S) /\ (x2 = end \/ x2 \in S)
    BY <1>6, <1>7, <1>8
  <2> QED
    BY <1>9, <2>1 DEF Cut, Moved
<1>12. k = 1 => s[l][1] = x
  OBVIOUS
<1>13. /\ next2[s[l][k]] = unlinked
       /\ k > 1 => next2[s[l][k - 1]] = next[s[l][k]]
       /\ \A y \in S : y # s[l][k] /\ (k > 1 => y # s[l][k - 1]) => next2[y] = next[y]
       /\ head2[l] = IF k = 1 THEN next[s[l][1]] ELSE head[l]
       /\ \A m \in L : m # l => head2[m] = head[m]
  BY <1>2, <1>3, <1>5, <1>6, <1>8, <1>9, <1>10, <1>12 DEF Cut, Moved
<1>14. /\ prev2[s[l][k]] = unlinked
       /\ k < Len(s[l]) => prev2[s[l][k + 1]] = prev[s[l][k]]
       /\ \A y \in S : y # s[l][k] /\ (k < Len(s[l]) => y # s[l][k + 1]) => prev2[y] = prev[y]
       /\ tail2[l] = IF k = Len(s[l]) THEN prev[s[l][k]] ELSE tail[l]
       /\ \A m \in L : m # l => tail2[m] = tail[m]
  BY <1>2, <1>4, <1>5, <1>7, <1>8, <1>9, <1>10 DEF Cut, Moved
<1> HIDE DEF next2, prev2, head2, tail2
<1>15. ForwardRep(L, S, end, unlinked, out, next2, head2, Removed(s, l, k))
  BY <1>11, <1>13, ForwardRemove
<1>16. BackwardRep(L, S, end, unlinked, out, prev2, tail2, Removed(s, l, k))
  BY <1>11, <1>14, BackwardRemove
<1> QED
  BY <1>15, <1>16 DEF next2, prev2, head2, tail2

\* insert_impl inserts before x2.
LEMMA DoubleInsert ==
  ASSUME NEW s, DoubleRep(s), NEW op, NEW l \in List, NEW x \in Object,
         NEW x2, Double!InsertImpl(op, l, x, x2), NEW k \in 1..(Len(s[l]) + 1),
         x2 = IF k = Len(s[l]) + 1 THEN End ELSE s[l][k]
  PROVE  /\ DoubleRep(Inserted(s, l, k, x))' /\ ~Holds(List, s, x)
         /\ result' = [op |-> op, of |-> l, value |-> x]
<1> DEFINE x1 == IF x2 = End THEN tail_[l] ELSE prev_[x2]
           t == Inserted(s, l, k, x)
<1>1. /\ next_[x] = Free /\ prev_[x] = Free
      /\ next_' = [y \in Object |-> IF y = x THEN x2 ELSE IF y = x1 THEN x ELSE next_[y]]
      /\ prev_' = [y \in Object |-> IF y = x THEN x1 ELSE IF y = x2 THEN x ELSE prev_[y]]
      /\ head_' = [head_ EXCEPT ![l] = IF x1 = End THEN x ELSE head_[l]]
      /\ tail_' = [tail_ EXCEPT ![l] = IF x2 = End THEN x ELSE tail_[l]]
      /\ size_' = [size_ EXCEPT ![l] = size_[l] + 1] /\ cleared' = cleared
      /\ result' = [op |-> op, of |-> l, value |-> x]
  BY DEF Double!InsertImpl, Double!Says, Double!Answer
<1>2. /\ ForwardRep(List, Object, End, Free, cleared, next_, head_, s)
      /\ BackwardRep(List, Object, End, Free, cleared, prev_, tail_, s)
      /\ SizesAre(List, size_, s) /\ Sequences(List, Object, s) /\ Len(s[l]) \in Nat
      /\ \A i \in 1..Len(s[l]) : s[l][i] \in Object
  BY DoubleParts
<1>3. x1 = IF k = 1 THEN End ELSE s[l][k - 1]
  <2>1. CASE k = Len(s[l]) + 1
    <3>1. x1 = IF Len(s[l]) = 0 THEN End ELSE s[l][Len(s[l])]
      BY <2>1, DoubleParts
    <3>2. (Len(s[l]) = 0 <=> k = 1) /\ k - 1 = Len(s[l])
      BY <1>2, <2>1
    <3> QED
      BY <3>1, <3>2
  <2>2. CASE k # Len(s[l]) + 1
    <3>1. k \in 1..Len(s[l])
      BY <1>2, <2>2
    <3>2. x2 = s[l][k] /\ x2 # End
      BY <1>2, <2>2, <3>1, ObjectAssumption
    <3>3. prev_[s[l][k]] = IF k = 1 THEN End ELSE s[l][k - 1]
      BY <1>2, <3>1, BackwardParts
    <3> QED
      BY <3>2, <3>3
  <2> QED
    BY <2>1, <2>2
<1> HIDE DEF x1
<1>4. /\ ForwardRep(List, Object, End, Free, cleared, Put(Object, next_, x, x2, x1),
                    Moved(head_, l, x1, End, x), t)
      /\ BackwardRep(List, Object, End, Free, cleared, Put(Object, prev_, x, x1, x2),
                     Moved(tail_, l, x2, End, x), t)
      /\ ~Holds(List, s, x)
  BY <1>1, <1>2, <1>3, BetweenIn, ObjectAssumption
<1>5. SizesAre(List, [size_ EXCEPT ![l] = size_[l] + 1], t)
  BY <1>2, SizesInsert
<1> QED
  BY <1>1, <1>4, <1>5 DEF DoubleRep, Put, Moved

\* remove_impl removes x.
LEMMA DoubleRemove ==
  ASSUME NEW s, DoubleRep(s), NEW op, NEW l \in List, NEW k \in 1..Len(s[l]),
         NEW x, x = s[l][k], Double!RemoveImpl(op, l, x)
  PROVE  /\ DoubleRep(Removed(s, l, k))'
         /\ result' = [op |-> op, of |-> l, value |-> s[l][k]]
<1> DEFINE t == Removed(s, l, k)
<1>1. /\ next_' = [y \in Object |-> IF y = x THEN Free ELSE IF y = prev_[x] THEN next_[x] ELSE next_[y]]
      /\ prev_' = [y \in Object |-> IF y = x THEN Free ELSE IF y = next_[x] THEN prev_[x] ELSE prev_[y]]
      /\ head_' = [head_ EXCEPT ![l] = IF prev_[x] = End THEN next_[x] ELSE head_[l]]
      /\ tail_' = [tail_ EXCEPT ![l] = IF next_[x] = End THEN prev_[x] ELSE tail_[l]]
      /\ size_' = [size_ EXCEPT ![l] = size_[l] - 1] /\ cleared' = cleared
      /\ result' = [op |-> op, of |-> l, value |-> x]
  BY DEF Double!RemoveImpl, Double!Says, Double!Answer
<1>2. /\ ForwardRep(List, Object, End, Free, cleared, next_, head_, s)
      /\ BackwardRep(List, Object, End, Free, cleared, prev_, tail_, s)
      /\ SizesAre(List, size_, s) /\ Sequences(List, Object, s)
  BY DoubleParts
<1> DEFINE x1 == prev_[x]
           x2 == next_[x]
<1>3. /\ ForwardRep(List, Object, End, Free, cleared, Cut(Object, next_, x, x2, x1, Free),
                    Moved(head_, l, x1, End, x2), t)
      /\ BackwardRep(List, Object, End, Free, cleared, Cut(Object, prev_, x, x1, x2, Free),
                     Moved(tail_, l, x2, End, x1), t)
  <2>1. x1 = prev_[x] /\ x2 = next_[x]
    OBVIOUS
  <2> HIDE DEF x1, x2
  <2> QED
    BY <1>2, <2>1, BetweenOut, ObjectAssumption
<1>4. SizesAre(List, [size_ EXCEPT ![l] = size_[l] - 1], t)
  BY <1>2, SizesRemove
<1> QED
  BY <1>1, <1>3, <1>4 DEF DoubleRep, Cut, Moved

-----------------------------------------------------------------------------
(* The calls of double_list.                                               *)

\* push_front of the double list is that of ObjectLists.
LEMMA DoublePushFront ==
  ASSUME NEW s, DoubleRep(s), container = "double", container' = "double",
         NEW l \in List, NEW x \in Object, Double!PushFront(l, x)
  PROVE  Abstract!PushFront(l, x) /\ \E t : DoubleRep(t)'
<1>1. Len(s[l]) \in Nat /\ head_[l] = IF Len(s[l]) = 0 THEN End ELSE s[l][1]
  BY DoubleParts
<1>2. 1 \in 1..(Len(s[l]) + 1) /\ (1 = Len(s[l]) + 1 <=> Len(s[l]) = 0)
  BY <1>1
<1>3. head_[l] = IF 1 = Len(s[l]) + 1 THEN End ELSE s[l][1]
  BY <1>1, <1>2
<1>4. Double!InsertImpl("push_front", l, x, head_[l])
  BY DEF Double!PushFront
<1>5. /\ DoubleRep(Inserted(s, l, 1, x))' /\ ~Holds(List, s, x)
      /\ result' = [op |-> "push_front", of |-> l, value |-> x]
  BY <1>2, <1>3, <1>4, DoubleInsert
<1>6. Abstract!Insert("push_front", l, 1, x, x)
  BY <1>5, DoubleMove, AbstractInsert
<1>7. Abstract!PushFront(l, x)
  BY <1>6 DEF Abstract!PushFront
<1> QED
  BY <1>5, <1>7

\* push_back of the double list is that of ObjectLists.
LEMMA DoublePushBack ==
  ASSUME NEW s, DoubleRep(s), container = "double", container' = "double",
         NEW l \in List, NEW x \in Object, Double!PushBack(l, x)
  PROVE  Abstract!PushBack(l, x) /\ \E t : DoubleRep(t)'
<1> DEFINE k == Len(s[l]) + 1
<1>1. Len(s[l]) \in Nat /\ Double!Objects(l) = s[l]
  BY DoubleParts
<1>2. k \in 1..(Len(s[l]) + 1) /\ k = Len(s[l]) + 1
  BY <1>1
<1> HIDE DEF k
<1>3. End = IF k = Len(s[l]) + 1 THEN End ELSE s[l][k]
  BY <1>2
<1>4. Double!InsertImpl("push_back", l, x, End)
  BY DEF Double!PushBack
<1>5. /\ DoubleRep(Inserted(s, l, k, x))' /\ ~Holds(List, s, x)
      /\ result' = [op |-> "push_back", of |-> l, value |-> x]
  BY <1>2, <1>3, <1>4, DoubleInsert
<1>6. Objects(l) = s[l]
  BY <1>1 DEF Objects
<1>7. Abstract!Insert("push_back", l, k, x, x)
  BY <1>5, DoubleMove, AbstractInsert
<1>8. Abstract!PushBack(l, x)
  BY <1>2, <1>6, <1>7 DEF Abstract!PushBack
<1> QED
  BY <1>5, <1>8

\* insert before an object is that of ObjectLists.
LEMMA DoubleInsertBefore ==
  ASSUME NEW s, DoubleRep(s), container = "double", container' = "double",
         NEW l \in List, NEW x \in Object, NEW where \in Object, Double!InsertBefore(l, x, where)
  PROVE  Abstract!Next /\ \E t : DoubleRep(t)'
<1>1. /\ Len(s[l]) \in Nat /\ Double!Objects(l) = s[l] /\ s[l] \in Seq(Object)
      /\ DOMAIN s[l] = 1..Len(s[l]) /\ \A i \in 1..Len(s[l]) : s[l][i] \in Object
  BY DoubleParts
<1>2. Contains(s[l], where)
  BY <1>1, SameOperators DEF Double!InsertBefore
<1>3. PICK k \in 1..Len(s[l]) : s[l][k] = where
  BY <1>1, <1>2, ContainsSlot
<1>4. k \in 1..(Len(s[l]) + 1) /\ k # Len(s[l]) + 1
  BY <1>1
<1>5. where = IF k = Len(s[l]) + 1 THEN End ELSE s[l][k]
  BY <1>3, <1>4
<1>6. Double!InsertImpl("insert", l, x, where)
  BY DEF Double!InsertBefore
<1>7. /\ DoubleRep(Inserted(s, l, k, x))' /\ ~Holds(List, s, x)
      /\ result' = [op |-> "insert", of |-> l, value |-> x]
  BY <1>4, <1>5, <1>6, DoubleInsert
<1>8. Objects(l) = s[l]
  BY <1>1 DEF Objects
<1>9. Abstract!Insert("insert", l, k, x, x)
  BY <1>7, DoubleMove, AbstractInsert
<1>10. k \in DOMAIN Objects(l) /\ Abstract!InsertBefore(l, k, x)
  BY <1>1, <1>8, <1>9 DEF Abstract!InsertBefore
<1> QED
  BY <1>7, <1>10 DEF Abstract!Next

\* pop_front of the double list is that of ObjectLists.
LEMMA DoublePopFront ==
  ASSUME NEW s, DoubleRep(s), container = "double", container' = "double",
         NEW l \in List, Double!PopFront(l)
  PROVE  Abstract!PopFront(l) /\ \E t : DoubleRep(t)'
<1>1. head_[l] # End /\ Double!RemoveImpl("pop_front", l, head_[l])
  BY DEF Double!PopFront
<1>2. 1 \in 1..Len(s[l]) /\ head_[l] = s[l][1]
  BY <1>1, DoubleParts
<1>3. DoubleRep(Removed(s, l, 1))' /\ result' = [op |-> "pop_front", of |-> l, value |-> s[l][1]]
  BY <1>1, <1>2, DoubleRemove
<1>4. Abstract!PopFront(l)
  BY <1>2, <1>3, DoubleMove, AbstractDelete DEF Abstract!PopFront
<1> QED
  BY <1>3, <1>4

\* pop_back of the double list is that of ObjectLists.
LEMMA DoublePopBack ==
  ASSUME NEW s, DoubleRep(s), container = "double", container' = "double",
         NEW l \in List, Double!PopBack(l)
  PROVE  Abstract!PopBack(l) /\ \E t : DoubleRep(t)'
<1> DEFINE k == Len(s[l])
<1>1. tail_[l] # End /\ Double!RemoveImpl("pop_back", l, tail_[l])
  BY DEF Double!PopBack
<1>2. k \in 1..Len(s[l]) /\ tail_[l] = s[l][k] /\ Double!Objects(l) = s[l]
  BY <1>1, DoubleParts
<1>3. DoubleRep(Removed(s, l, k))' /\ result' = [op |-> "pop_back", of |-> l, value |-> s[l][k]]
  BY <1>1, <1>2, DoubleRemove
<1>4. Objects(l) = s[l]
  BY <1>2 DEF Objects
<1>5. Abstract!PopBack(l)
  BY <1>2, <1>3, <1>4, DoubleMove, AbstractDelete DEF Abstract!PopBack
<1> QED
  BY <1>3, <1>5

\* remove of an object of the list is that of ObjectLists.
LEMMA DoubleRemoveFrom ==
  ASSUME NEW s, DoubleRep(s), container = "double", container' = "double",
         NEW l \in List, NEW x \in Object, Double!RemoveFrom(l, x)
  PROVE  Abstract!RemoveFrom(l, x) /\ \E t : DoubleRep(t)'
<1>1. /\ Double!Objects(l) = s[l] /\ s[l] \in Seq(Object) /\ DOMAIN s[l] = 1..Len(s[l])
  BY DoubleParts
<1>2. Contains(s[l], x) /\ Double!RemoveImpl("remove", l, x)
  BY <1>1, SameOperators DEF Double!RemoveFrom
<1>3. PICK k \in 1..Len(s[l]) : s[l][k] = x
  BY <1>1, <1>2, ContainsSlot
<1>4. DoubleRep(Removed(s, l, k))' /\ result' = [op |-> "remove", of |-> l, value |-> s[l][k]]
  BY <1>2, <1>3, DoubleRemove
<1>5. Abstract!Delete("remove", l, k)
  BY <1>4, DoubleMove, AbstractDelete
<1>6. Objects(l) = s[l]
  BY <1>1 DEF Objects
<1>7. Abstract!RemoveFrom(l, x)
  BY <1>1, <1>3, <1>5, <1>6 DEF Abstract!RemoveFrom
<1> QED
  BY <1>4, <1>7

\* A call that writes nothing.
LEMMA DoubleStays ==
  ASSUME NEW s, DoubleRep(s), container = "double", container' = "double",
         next_' = next_, prev_' = prev_, head_' = head_, tail_' = tail_, size_' = size_,
         cleared' = cleared
  PROVE  DoubleRep(s)' /\ Lists = s /\ Lists' = s
<1>1. DoubleRep(s)'
  BY DEF DoubleRep
<1> QED
  BY <1>1, DoubleMove

\* A pop of an empty list: what ObjectLists promises.
LEMMA DoublePopEmpty ==
  ASSUME NEW s, DoubleRep(s), container = "double", container' = "double",
         NEW l \in List, Double!PopEmpty(l)
  PROVE  Abstract!PopEmpty(l) /\ \E t : DoubleRep(t)'
<1>1. DoubleRep(s)' /\ Lists = s /\ Lists' = s
  BY DoubleStays DEF Double!PopEmpty, Double!linkVars, Double!listVars
<1>2. s[l] \in Seq(Object) /\ Len(s[l]) = 0 /\ Double!Objects(l) = s[l]
  BY DoubleParts DEF Double!PopEmpty
<1>3. Objects(l) = <<>>
  BY <1>2, EmptySeq DEF Objects
<1>4. \E op \in {"pop_front", "pop_back"} : Abstract!Ask(op, l, None)
  BY <1>1, AbstractAsk DEF Double!PopEmpty, Double!Says, Double!Answer
<1> QED
  BY <1>1, <1>3, <1>4 DEF Abstract!PopEmpty

\* remove of an object that is not in it: what ObjectLists promises.
LEMMA DoubleRemoveOther ==
  ASSUME NEW s, DoubleRep(s), container = "double", container' = "double",
         NEW l \in List, NEW x \in Object, Double!RemoveOther(l, x)
  PROVE  Abstract!RemoveOther(l, x) /\ \E t : DoubleRep(t)'
<1>1. DoubleRep(s)' /\ Lists = s /\ Lists' = s
  BY DoubleStays DEF Double!RemoveOther, Double!linkVars, Double!listVars
<1>2. \A m \in List : Double!Objects(m) = s[m] /\ s[m] \in Seq(Object)
  BY DoubleParts
<1>3. Sequences(List, Object, s)
  BY DoubleParts
<1>4. PICK m \in List \ {l} : Contains(s[m], x)
  BY <1>2, SameOperators DEF Double!RemoveOther
<1>5. ~Contains(s[l], x)
  <2>1. PICK j \in 1..Len(s[m]) : s[m][j] = x
    BY <1>2, <1>4, ContainsSlot
  <2>2. \A i \in 1..Len(s[l]) : s[l][i] # x
    BY <1>3, <1>4, <2>1, SameSlot
  <2> QED
    BY <1>2, <2>2, ContainsSlot
<1>6. ~Abstract!Contains(Objects(l), x)
  BY <1>2, <1>5, SameOperators DEF Objects
<1>7. Abstract!Ask("remove", l, None)
  BY <1>1, AbstractAsk DEF Double!RemoveOther, Double!Says, Double!Answer
<1> QED
  BY <1>1, <1>6, <1>7 DEF Abstract!RemoveOther

\* The calls that only answer, walking either way: what ObjectLists promises.
LEMMA DoubleAsk ==
  ASSUME NEW s, DoubleRep(s), container = "double", container' = "double",
         NEW l \in List, Double!Ask(l)
  PROVE  Abstract!Next /\ \E t : DoubleRep(t)'
<1>1. DoubleRep(s)' /\ Lists = s /\ Lists' = s
  BY DoubleStays DEF Double!Ask, Double!linkVars, Double!listVars
<1>2. /\ Double!Objects(l) = s[l] /\ s[l] \in Seq(Object) /\ size_[l] = Len(s[l])
      /\ Double!Backwards(l) = Reverse(s[l])
      /\ head_[l] = IF Len(s[l]) = 0 THEN End ELSE s[l][1]
      /\ tail_[l] = IF Len(s[l]) = 0 THEN End ELSE s[l][Len(s[l])]
  BY DoubleParts
<1>3. Objects(l) = s[l]
  BY <1>2 DEF Objects
<1>4. /\ s[l] = <<>> <=> Len(s[l]) = 0
      /\ Len(s[l]) # 0 => Head(s[l]) = s[l][1]
      /\ Last(s[l]) = s[l][Len(s[l])]
  BY <1>2, FirstAndLast
<1>5. CASE Double!Says("front", l, IF size_[l] = 0 THEN None ELSE head_[l])
  <2>1. (IF size_[l] = 0 THEN None ELSE head_[l]) = IF s[l] = <<>> THEN None ELSE Head(s[l])
    BY <1>2, <1>4
  <2>2. Abstract!First(l)
    BY <1>1, <1>3, <1>5, <2>1, AbstractAsk DEF Abstract!First, Double!Says, Double!Answer
  <2> QED
    BY <1>1, <2>2 DEF Abstract!Next
<1>6. CASE Double!Says("back", l, IF size_[l] = 0 THEN None ELSE tail_[l])
  <2>1. (IF size_[l] = 0 THEN None ELSE tail_[l]) = IF s[l] = <<>> THEN None ELSE Last(s[l])
    BY <1>2, <1>4
  <2>2. Abstract!Back(l)
    BY <1>1, <1>3, <1>6, <2>1, AbstractAsk, SameOperators
    DEF Abstract!Back, Double!Says, Double!Answer
  <2> QED
    BY <1>1, <2>2 DEF Abstract!Next
<1>7. CASE Double!Says("size", l, size_[l])
  <2>1. Abstract!Size(l)
    BY <1>1, <1>2, <1>3, <1>7, AbstractAsk DEF Abstract!Size, Double!Says, Double!Answer
  <2> QED
    BY <1>1, <2>1 DEF Abstract!Next
<1>8. CASE Double!Says("++", l, Double!Objects(l))
  <2>1. Abstract!Forward(l)
    BY <1>1, <1>2, <1>3, <1>8, AbstractAsk DEF Abstract!Forward, Double!Says, Double!Answer
  <2> QED
    BY <1>1, <2>1 DEF Abstract!Next
<1>9. CASE Double!Says("--", l, Double!Backwards(l))
  <2>1. Abstract!Backward(l)
    BY <1>1, <1>2, <1>3, <1>9, AbstractAsk, SameOperators
    DEF Abstract!Backward, Double!Says, Double!Answer
  <2> QED
    BY <1>1, <2>1 DEF Abstract!Next
<1> QED
  BY <1>5, <1>6, <1>7, <1>8, <1>9 DEF Double!Ask

\* Exchanging two tails swaps the lists in the previous links.
LEMMA ExchangedBack ==
  ASSUME NEW L, NEW S, NEW end, NEW unlinked, NEW out, NEW prev, NEW tail, NEW s,
         BackwardRep(L, S, end, unlinked, out, prev, tail, s), NEW l \in L, NEW m \in L
  PROVE  BackwardRep(L, S, end, unlinked, out, prev, [tail EXCEPT ![l] = tail[m], ![m] = tail[l]],
                     Swapped(s, l, m))
<1> DEFINE tail2 == [tail EXCEPT ![l] = tail[m], ![m] = tail[l]]
<1>1. tail \in [L -> S \union {end}]
  BY DEF BackwardRep
<1>2. /\ tail2 \in [L -> S \union {end}] /\ tail2[l] = tail[m] /\ tail2[m] = tail[l]
      /\ \A n \in L : n # l /\ n # m => tail2[n] = tail[n]
  BY <1>1
<1> HIDE DEF tail2
<1>3. BackwardRep(L, S, end, unlinked, out, prev, tail2, Swapped(s, l, m))
  BY <1>2, BackwardSwap
<1> QED
  BY <1>3 DEF tail2

\* One link back joins two lists that are not empty.
LEMMA LinkedBack ==
  ASSUME NEW L, NEW S, NEW end, NEW unlinked, unlinked # end, unlinked \notin S, end \notin S,
         NEW out, NEW prev, NEW tail, NEW s, BackwardRep(L, S, end, unlinked, out, prev, tail, s),
         NEW l \in L, NEW m \in L, l # m, Len(s[l]) # 0, Len(s[m]) # 0
  PROVE  BackwardRep(L, S, end, unlinked, out, [prev EXCEPT ![s[m][1]] = tail[l]],
                     [tail EXCEPT ![l] = tail[m], ![m] = end], Joined(s, l, m))
<1> DEFINE y == s[l][Len(s[l])]
           z == s[m][1]
           prev2 == [prev EXCEPT ![z] = tail[l]]
           tail2 == [tail EXCEPT ![l] = tail[m], ![m] = end]
<1>1. Sequences(L, S, s)
  BY DEF BackwardRep
<1>2. Len(s[l]) \in Nat /\ Len(s[m]) \in Nat
  BY <1>1, SequencesParts
<1>3. Len(s[l]) \in 1..Len(s[l]) /\ 1 \in 1..Len(s[m])
  BY <1>2
<1>4. prev \in [S -> S \union {unlinked, end}] /\ tail \in [L -> S \union {end}]
  BY DEF BackwardRep
<1>5. y \in S /\ z \in S
  BY <1>1, <1>3, SequencesParts
<1>6. tail[l] = y
  BY BackwardParts
<1>7. y = s[l][Len(s[l])] /\ z = s[m][1]
  OBVIOUS
<1> HIDE DEF y, z
<1>8. /\ prev2 \in [S -> S \union {unlinked, end}] /\ tail2 \in [L -> S \union {end}]
      /\ prev2[z] = y /\ \A x \in S : x # z => prev2[x] = prev[x]
      /\ tail2[l] = tail[m] /\ tail2[m] = end
      /\ \A n \in L : n # l /\ n # m => tail2[n] = tail[n]
  BY <1>4, <1>5, <1>6
<1> HIDE DEF prev2, tail2
<1>9. BackwardRep(L, S, end, unlinked, out, prev2, tail2, Joined(s, l, m))
  BY <1>7, <1>8, BackwardJoin
<1> QED
  BY <1>9 DEF prev2, tail2, z

\* The writes of swap.
LEMMA DoubleSwapLists ==
  ASSUME NEW s, DoubleRep(s), NEW l \in List, NEW m \in List, Double!SwapLists(l, m)
  PROVE  DoubleRep(Swapped(s, l, m))'
<1> DEFINE t == Swapped(s, l, m)
<1>1. /\ head_' = [head_ EXCEPT ![l] = head_[m], ![m] = head_[l]]
      /\ tail_' = [tail_ EXCEPT ![l] = tail_[m], ![m] = tail_[l]]
      /\ size_' = [size_ EXCEPT ![l] = size_[m], ![m] = size_[l]]
      /\ next_' = next_ /\ prev_' = prev_ /\ cleared' = cleared
  BY DEF Double!SwapLists, Double!linkVars
<1>2. /\ ForwardRep(List, Object, End, Free, cleared, next_, head_, s)
      /\ BackwardRep(List, Object, End, Free, cleared, prev_, tail_, s)
      /\ SizesAre(List, size_, s) /\ Sequences(List, Object, s)
  BY DoubleParts
<1>3. ForwardRep(List, Object, End, Free, cleared, next_,
                 [head_ EXCEPT ![l] = head_[m], ![m] = head_[l]], t)
  BY <1>2, Exchanged
<1>4. BackwardRep(List, Object, End, Free, cleared, prev_,
                  [tail_ EXCEPT ![l] = tail_[m], ![m] = tail_[l]], t)
  BY <1>2, ExchangedBack
<1>5. SizesAre(List, [size_ EXCEPT ![l] = size_[m], ![m] = size_[l]], t)
  BY <1>2, SizesSwap
<1> QED
  BY <1>1, <1>3, <1>4, <1>5 DEF DoubleRep

\* The writes of splice when neither list is empty.
LEMMA DoubleJoinLists ==
  ASSUME NEW s, DoubleRep(s), NEW l \in List, NEW m \in List, Double!JoinLists(l, m),
         l # m, Len(s[l]) # 0, Len(s[m]) # 0
  PROVE  DoubleRep(Joined(s, l, m))'
<1> DEFINE t == Joined(s, l, m)
<1>1. /\ next_' = [next_ EXCEPT ![tail_[l]] = head_[m]]
      /\ prev_' = [prev_ EXCEPT ![head_[m]] = tail_[l]]
      /\ head_' = [head_ EXCEPT ![m] = End]
      /\ tail_' = [tail_ EXCEPT ![l] = tail_[m], ![m] = End]
      /\ size_' = [size_ EXCEPT ![l] = size_[l] + size_[m], ![m] = 0] /\ cleared' = cleared
  BY DEF Double!JoinLists
<1>2. /\ ForwardRep(List, Object, End, Free, cleared, next_, head_, s)
      /\ BackwardRep(List, Object, End, Free, cleared, prev_, tail_, s)
      /\ SizesAre(List, size_, s) /\ Sequences(List, Object, s)
      /\ tail_[l] = s[l][Len(s[l])] /\ head_[m] = s[m][1]
  BY DoubleParts
<1>3. ForwardRep(List, Object, End, Free, cleared, [next_ EXCEPT ![s[l][Len(s[l])]] = head_[m]],
                 [head_ EXCEPT ![m] = End], t)
  BY <1>2, LinkedBy, ObjectAssumption
<1>4. BackwardRep(List, Object, End, Free, cleared, [prev_ EXCEPT ![s[m][1]] = tail_[l]],
                  [tail_ EXCEPT ![l] = tail_[m], ![m] = End], t)
  BY <1>2, LinkedBack, ObjectAssumption
<1>5. SizesAre(List, [size_ EXCEPT ![l] = size_[l] + size_[m], ![m] = 0], t)
  BY <1>2, SizesJoin
<1>6. ForwardRep(List, Object, End, Free, cleared, next_, head_, t)'
  BY <1>1, <1>2, <1>3
<1>7. BackwardRep(List, Object, End, Free, cleared, prev_, tail_, t)'
  BY <1>1, <1>2, <1>4
<1>8. SizesAre(List, size_, t)'
  BY <1>1, <1>5
<1> QED
  BY <1>6, <1>7, <1>8 DEF DoubleRep

\* swap of two double lists is that of ObjectLists.
LEMMA DoubleSwap ==
  ASSUME NEW s, DoubleRep(s), container = "double", container' = "double",
         NEW l \in List, NEW m \in List, Double!Swap(l, m)
  PROVE  Abstract!Swap(l, m) /\ \E t : DoubleRep(t)'
<1>1. Double!SwapLists(l, m) /\ result' = [op |-> "swap", of |-> l, value |-> None]
  BY DEF Double!Swap, Double!Says, Double!Answer
<1>2. DoubleRep(Swapped(s, l, m))'
  BY <1>1, DoubleSwapLists
<1>3. Abstract!Swap(l, m)
  BY <1>1, <1>2, DoubleMove, AbstractSwap
<1> QED
  BY <1>2, <1>3

\* splice of two double lists is that of ObjectLists.
LEMMA DoubleSplice ==
  ASSUME NEW s, DoubleRep(s), container = "double", container' = "double",
         NEW l \in List, NEW m \in List, Double!Splice(l, m)
  PROVE  Abstract!Splice(l, m) /\ \E t : DoubleRep(t)'
<1> DEFINE t == IF l = m THEN s ELSE Joined(s, l, m)
<1>1. /\ result' = [op |-> "splice", of |-> l, value |-> None]
      /\ \/ (l = m \/ size_[m] = 0) /\ UNCHANGED <<next_, prev_, head_, tail_, size_, cleared>>
         \/ l # m /\ size_[m] # 0 /\ size_[l] = 0 /\ Double!SwapLists(l, m)
         \/ l # m /\ size_[m] # 0 /\ size_[l] # 0 /\ Double!JoinLists(l, m)
  BY DEF Double!Splice, Double!Says, Double!Answer, Double!linkVars, Double!listVars
<1>2. Sequences(List, Object, s) /\ size_[l] = Len(s[l]) /\ size_[m] = Len(s[m])
  BY DoubleParts
<1>3. DoubleRep(t)'
  <2>1. CASE (l = m \/ size_[m] = 0) /\ UNCHANGED <<next_, prev_, head_, tail_, size_, cleared>>
    <3>1. t = s
      BY <1>2, <2>1, JoinEmpty
    <3>2. DoubleRep(s)'
      BY <2>1, DoubleStays
    <3> QED
      BY <3>1, <3>2
  <2>2. CASE l # m /\ size_[m] # 0 /\ size_[l] = 0 /\ Double!SwapLists(l, m)
    <3>1. Len(s[l]) = 0 /\ l # m
      BY <1>2, <2>2
    <3>3. Joined(s, l, m) = Swapped(s, l, m)
      BY <1>2, <3>1, JoinEmpty
    <3>2. DoubleRep(Swapped(s, l, m))'
      BY <2>2, DoubleSwapLists
    <3> QED
      BY <3>1, <3>2, <3>3
  <2>3. CASE l # m /\ size_[m] # 0 /\ size_[l] # 0 /\ Double!JoinLists(l, m)
    BY <1>2, <2>3, DoubleJoinLists
  <2> QED
    BY <1>1, <2>1, <2>2, <2>3
<1>4. Abstract!Splice(l, m)
  BY <1>1, <1>3, DoubleMove, AbstractSplice
<1> QED
  BY <1>3, <1>4

\* The count clear sets is right.
LEMMA SizesClear ==
  ASSUME NEW L, NEW S, NEW s, Sequences(L, S, s), NEW l \in L, NEW size, SizesAre(L, size, s)
  PROVE  SizesAre(L, [size EXCEPT ![l] = 0], Cleared(s, l))
<1> DEFINE t == Cleared(s, l)
<1>1. Len(t[l]) = 0 /\ \A n \in L : n # l => t[n] = s[n]
  BY DEF Cleared, Sequences
<1> HIDE DEF t
<1> QED
  BY <1>1 DEF SizesAre, t

\* clear, which leaves the links of the objects, is that of ObjectLists.
LEMMA DoubleClear ==
  ASSUME NEW s, DoubleRep(s), container = "double", container' = "double",
         NEW l \in List, Double!Clear(l)
  PROVE  Abstract!Clear(l) /\ \E t : DoubleRep(t)'
<1> DEFINE t == Cleared(s, l)
           out2 == cleared \union {s[l][i] : i \in 1..Len(s[l])}
<1>1. /\ ForwardRep(List, Object, End, Free, cleared, next_, head_, s)
      /\ BackwardRep(List, Object, End, Free, cleared, prev_, tail_, s)
      /\ SizesAre(List, size_, s) /\ Sequences(List, Object, s)
      /\ Double!Objects(l) = s[l] /\ DOMAIN s[l] = 1..Len(s[l])
  BY DoubleParts
<1>2. /\ cleared' = out2 /\ head_' = [head_ EXCEPT ![l] = End] /\ tail_' = [tail_ EXCEPT ![l] = End]
      /\ size_' = [size_ EXCEPT ![l] = 0] /\ next_' = next_ /\ prev_' = prev_
      /\ result' = [op |-> "clear", of |-> l, value |-> None]
  BY <1>1 DEF Double!Clear, Double!ToSet, Double!Says, Double!Answer, Double!linkVars
<1>3. head_ \in [List -> Object \union {End}] /\ tail_ \in [List -> Object \union {End}]
  BY <1>1 DEF ForwardRep, BackwardRep
<1>4. /\ head_' \in [List -> Object \union {End}] /\ head_'[l] = End
      /\ \A n \in List : n # l => head_'[n] = head_[n]
  BY <1>2, <1>3
<1>5. /\ tail_' \in [List -> Object \union {End}] /\ tail_'[l] = End
      /\ \A n \in List : n # l => tail_'[n] = tail_[n]
  BY <1>2, <1>3
<1>6. out2 = cleared \union {s[l][i] : i \in 1..Len(s[l])}
  OBVIOUS
<1> HIDE DEF out2
<1>7. ForwardRep(List, Object, End, Free, out2, next_, head_', t)
  BY <1>1, <1>4, <1>6, ForwardClear
<1>8. BackwardRep(List, Object, End, Free, out2, prev_, tail_', t)
  BY <1>1, <1>5, <1>6, BackwardClear
<1>9. SizesAre(List, [size_ EXCEPT ![l] = 0], t)
  BY <1>1, SizesClear
<1>10. DoubleRep(t)'
  BY <1>2, <1>7, <1>8, <1>9 DEF DoubleRep
<1>11. Abstract!Clear(l)
  BY <1>2, <1>10, DoubleMove, AbstractClear
<1> QED
  BY <1>10, <1>11

\* Every call of the double list is one of ObjectLists.
LEMMA DoubleStep ==
  ASSUME NEW s, DoubleRep(s), container = "double", container' = "double", Double!Next
  PROVE  Abstract!Next /\ \E t : DoubleRep(t)'
<1>1. PICK l \in List :
        \/ Double!PopFront(l) \/ Double!PopBack(l) \/ Double!PopEmpty(l) \/ Double!Ask(l)
        \/ Double!Clear(l)
        \/ \E m \in List : Double!Swap(l, m) \/ Double!Splice(l, m)
        \/ \E x \in Object : \/ Double!PushFront(l, x) \/ Double!PushBack(l, x)
                             \/ Double!RemoveFrom(l, x) \/ Double!RemoveOther(l, x)
        \/ \E x, y \in Object : Double!InsertBefore(l, x, y)
  BY DEF Double!Next
<1>2. CASE Double!PopFront(l) \/ Double!PopBack(l) \/ Double!PopEmpty(l)
  BY <1>2, DoublePopFront, DoublePopBack, DoublePopEmpty DEF Abstract!Next
<1>3. CASE Double!Ask(l)
  BY <1>3, DoubleAsk
<1>4. CASE Double!Clear(l)
  BY <1>4, DoubleClear DEF Abstract!Next
<1>5. ASSUME NEW m \in List, Double!Swap(l, m) \/ Double!Splice(l, m)
      PROVE  Abstract!Next /\ \E t : DoubleRep(t)'
  BY <1>5, DoubleSwap, DoubleSplice DEF Abstract!Next
<1>6. ASSUME NEW x \in Object, Double!PushFront(l, x) \/ Double!PushBack(l, x)
      PROVE  Abstract!Next /\ \E t : DoubleRep(t)'
  BY <1>6, DoublePushFront, DoublePushBack DEF Abstract!Next
<1>7. ASSUME NEW x \in Object, Double!RemoveFrom(l, x) \/ Double!RemoveOther(l, x)
      PROVE  Abstract!Next /\ \E t : DoubleRep(t)'
  BY <1>7, DoubleRemoveFrom, DoubleRemoveOther DEF Abstract!Next
<1>8. ASSUME NEW x \in Object, NEW y \in Object, Double!InsertBefore(l, x, y)
      PROVE  Abstract!Next /\ \E t : DoubleRep(t)'
  BY <1>8, DoubleInsertBefore
<1> QED
  BY <1>1, <1>2, <1>3, <1>4, <1>5, <1>6, <1>7, <1>8

-----------------------------------------------------------------------------
(* The linked lists together.                                              *)

\* The inductive invariant of the linked lists: there are sequences that the links
\* of the list, the queue or the double list represent.
ListsInv ==
  /\ container = "list" => \E s : SingleRep(s)
  /\ container = "queue" => \E s : QueueRep(s)
  /\ container = "double" => \E s : DoubleRep(s)

\* At the start all the lists are empty.
LEMMA EmptyRep ==
  ASSUME NEW L, NEW S, NEW end, NEW unlinked, unlinked # end
  PROVE  LET s == [l \in L |-> <<>>]
             no == [x \in S |-> unlinked]
             none == [l \in L |-> end]
         IN  /\ ForwardRep(L, S, end, unlinked, {}, no, none, s)
             /\ BackwardRep(L, S, end, unlinked, {}, no, none, s)
             /\ TailsAre(L, S, end, none, s) /\ SizesAre(L, [l \in L |-> 0], s)
<1> DEFINE s == [l \in L |-> <<>>]
           no == [x \in S |-> unlinked]
           none == [l \in L |-> end]
<1>1. \A l \in L : s[l] = <<>> /\ Len(s[l]) = 0
  OBVIOUS
<1>2. s \in [L -> Seq(S)]
  OBVIOUS
<1>3. no \in [S -> S \union {unlinked, end}] /\ none \in [L -> S \union {end}]
  OBVIOUS
<1>4. \A x : ~Holds(L, s, x)
  BY <1>1 DEF Holds
<1>5. Sequences(L, S, s)
  BY <1>1, <1>2 DEF Sequences
<1>6. AllNext(L, end, no, none, s) /\ AllPrev(L, end, no, none, s)
  BY <1>1 DEF AllNext, AllPrev, NextLinks, PrevLinks, FirstOf, LastOf
<1>7. TailsAre(L, S, end, none, s)
  BY <1>1, <1>3 DEF TailsAre, LastOf
<1>8. SizesAre(L, [l \in L |-> 0], s)
  BY <1>1 DEF SizesAre
<1> QED
  BY <1>3, <1>4, <1>5, <1>6, <1>7, <1>8 DEF ForwardRep, BackwardRep

\* The invariant holds at the start, which is a start of ObjectLists.
LEMMA ListsStart == Init => ListsInv /\ Abstract!Init
<1> DEFINE s == [l \in List |-> <<>>]
           no == [x \in Object |-> Free]
           none == [l \in List |-> End]
           zero == [l \in List |-> 0]
<1>1. /\ ForwardRep(List, Object, End, Free, {}, no, none, s)
      /\ BackwardRep(List, Object, End, Free, {}, no, none, s)
      /\ TailsAre(List, Object, End, none, s) /\ SizesAre(List, zero, s)
  BY EmptyRep, ObjectAssumption
<1> SUFFICES ASSUME Init
             PROVE  ListsInv /\ Abstract!Init
  OBVIOUS
<1>2. /\ link = no /\ next_ = no /\ prev_ = no /\ head_ = none /\ tail_ = none
      /\ size_ = zero /\ cleared = {}
      /\ result = [op |-> "none", of |-> None, value |-> None]
  BY DEF Init, Single!Init, Queue!Init, Double!Init, Single!Answer
<1>3. SingleRep(s) /\ QueueRep(s) /\ DoubleRep(s)
  BY <1>1, <1>2 DEF SingleRep, QueueRep, DoubleRep
<1>4. ASSUME NEW l \in List
      PROVE  Objects(l) = <<>>
  <2>1. s[l] = <<>>
    OBVIOUS
  <2> HIDE DEF s
  <2>2. Single!Objects(l) = s[l]
    BY <1>3, WalksAre, SingleWalk DEF SingleRep, Single!Objects
  <2>3. Queue!Objects(l) = s[l]
    BY <1>3, QueueParts
  <2>4. Double!Objects(l) = s[l]
    BY <1>3, DoubleParts
  <2> QED
    BY <2>1, <2>2, <2>3, <2>4 DEF Objects
<1>5. Abstract!Init
  BY <1>2, <1>4 DEF Abstract!Init, Abstract!Answer
<1> QED
  BY <1>3, <1>5 DEF ListsInv

\* Every step keeps the invariant and is one of ObjectLists or changes nothing there.
LEMMA ListsStep == ListsInv /\ [Next]_vars => ListsInv' /\ [Abstract!Next]_(Abstract!vars)
<1> SUFFICES ASSUME ListsInv, [Next]_vars
             PROVE  ListsInv' /\ [Abstract!Next]_(Abstract!vars)
  OBVIOUS
<1>1. CASE UNCHANGED <<container, linkedVars>>
  <2>1. UNCHANGED <<container, link, next_, prev_, head_, tail_, size_, cleared, result>>
    BY <1>1 DEF linkedVars
  <2>2. ListsInv'
    BY <2>1 DEF ListsInv, SingleRep, QueueRep, DoubleRep
  <2>3. \A l \in List : Objects(l)' = Objects(l)
    BY <2>1 DEF Objects, Single!Objects, Queue!Objects, Double!Objects
  <2> QED
    BY <2>1, <2>2, <2>3 DEF Abstract!vars
<1>2. CASE LinkedNext
  <2>1. CASE container = "list" /\ Single!Next
    <3>1. container' = "list"
      BY <1>2, <2>1 DEF LinkedNext
    <3>2. PICK s : SingleRep(s)
      BY <2>1 DEF ListsInv
    <3> QED
      BY <2>1, <3>1, <3>2, SingleStep DEF ListsInv
  <2>2. CASE container = "queue" /\ Queue!Next
    <3>1. container' = "queue"
      BY <1>2, <2>2 DEF LinkedNext
    <3>2. PICK s : QueueRep(s)
      BY <2>2 DEF ListsInv
    <3> QED
      BY <2>2, <3>1, <3>2, QueueStep DEF ListsInv
  <2>3. CASE container = "double" /\ Double!Next
    <3>1. container' = "double"
      BY <1>2, <2>3 DEF LinkedNext
    <3>2. PICK s : DoubleRep(s)
      BY <2>3 DEF ListsInv
    <3> QED
      BY <2>3, <3>1, <3>2, DoubleStep DEF ListsInv
  <2> QED
    BY <1>2, <2>1, <2>2, <2>3 DEF LinkedNext
<1>3. CASE NodesNext \/ TableNext \/ UNCHANGED vars
  BY <1>1, <1>3 DEF NodesNext, TableNext, vars
<1> QED
  BY <1>2, <1>3 DEF Next

\* The invariant says what LinksRight asks.
LEMMA ListsRight == ListsInv => LinksRight
<1> SUFFICES ASSUME ListsInv
             PROVE  LinksRight
  OBVIOUS
<1>1. ASSUME container = "list"
      PROVE  Single!FreeIffOut
  <2>1. PICK s : SingleRep(s)
    BY <1>1 DEF ListsInv
  <2>2. \A l \in List : Single!Objects(l) = s[l]
    BY <2>1, WalksAre, SingleWalk DEF SingleRep, Single!Objects
  <2>3. \A x \in Object : link[x] = Free <=> ~Holds(List, s, x)
    BY <2>1 DEF SingleRep, ForwardRep
  <2>4. Sequences(List, Object, s)
    BY <2>1 DEF SingleRep, ForwardRep
  <2>5. \A x : Holds(List, s, x) <=> \E l \in List : Contains(s[l], x)
    BY <2>4, HoldsContains
  <2>6. \A x : Holds(List, s, x) <=> \E l \in List : Single!Contains(Single!Objects(l), x)
    BY <2>2, <2>5, SameOperators
  <2> QED
    BY <2>3, <2>6 DEF Single!FreeIffOut
<1>2. ASSUME container = "queue"
      PROVE  Queue!TailRight
  <2>1. PICK s : QueueRep(s)
    BY <1>2 DEF ListsInv
  <2>2. ASSUME NEW l \in List
        PROVE  tail_[l] = IF Queue!Objects(l) = <<>> THEN End ELSE Queue!Last(Queue!Objects(l))
    <3>1. /\ Queue!Objects(l) = s[l] /\ s[l] \in Seq(Object)
          /\ tail_[l] = IF Len(s[l]) = 0 THEN End ELSE s[l][Len(s[l])]
      BY <2>1, QueueParts
    <3>2. (s[l] = <<>> <=> Len(s[l]) = 0) /\ Last(s[l]) = s[l][Len(s[l])]
      BY <3>1, FirstAndLast
    <3> QED
      BY <3>1, <3>2, SameOperators
  <2> QED
    BY <2>2 DEF Queue!TailRight
<1>3. ASSUME container = "double"
      PROVE  Double!FreeIffOut /\ Double!BothWays
  <2>1. PICK s : DoubleRep(s)
    BY <1>3 DEF ListsInv
  <2>2. \A l \in List : /\ Double!Objects(l) = s[l] /\ Double!Backwards(l) = Reverse(s[l])
                        /\ size_[l] = Len(s[l])
    BY <2>1, DoubleParts
  <2>3. Double!BothWays
    BY <2>2, SameOperators DEF Double!BothWays
  <2>4. \A x \in Object : /\ next_[x] = Free <=> x \notin cleared /\ ~Holds(List, s, x)
                          /\ prev_[x] = Free <=> x \notin cleared /\ ~Holds(List, s, x)
    BY <2>1 DEF DoubleRep, ForwardRep, BackwardRep
  <2>5. Sequences(List, Object, s)
    BY <2>1 DEF DoubleRep, ForwardRep
  <2>6. \A x : Holds(List, s, x) <=> \E l \in List : Contains(s[l], x)
    BY <2>5, HoldsContains
  <2>7. \A x : Holds(List, s, x) <=> \E l \in List : Double!Contains(Double!Objects(l), x)
    BY <2>2, <2>6, SameOperators
  <2>8. Double!FreeIffOut
    BY <2>4, <2>7 DEF Double!FreeIffOut
  <2> QED
    BY <2>3, <2>8
<1> QED
  BY <1>1, <1>2, <1>3 DEF LinksRight

\* For any objects and any number of lists: the links of the single list, of the
\* queue and of the double list are sequences, and every call (push, pop, insert,
\* remove, swap, splice, clear and those that ask) does to them, and answers,
\* what it promises (Single_List_T.h:240-816, Double_List_T.h:309-494).
THEOREM ListsAreSequences == Spec => ListsSpec
<1>1. Init => ListsInv /\ Abstract!Init
  BY ListsStart
<1>2. ListsInv /\ [Next]_vars => ListsInv' /\ [Abstract!Next]_(Abstract!vars)
  BY ListsStep
<1> QED
  BY <1>1, <1>2, PTL DEF Spec, ListsSpec, Abstract!Spec

\* For any objects and lists: an object says that it may be pushed again exactly
\* when it has left its list, the queue's tail and size are those of its links, and
\* the double list is the same from both ends (Single_List_T.h:247-816,
\* Double_List_T.h:309-485).
THEOREM LinksAreRight == Spec => []LinksRight
<1>1. Init => ListsInv
  BY ListsStart
<1>2. ListsInv /\ [Next]_vars => ListsInv'
  BY ListsStep
<1>3. ListsInv => LinksRight
  BY ListsRight
<1> QED
  BY <1>1, <1>2, <1>3, PTL DEF Spec

-----------------------------------------------------------------------------
(* CLinkedlist: the nodes of one sequence.                                 *)

\* x is in s.
InSeq(s, x) == \E i \in 1..Len(s) : s[i] = x

\* The next pointers, the two ends, the count and the free list of CLinkedlist
\* represent s: the nodes that are not in s are those of the pool.
NodesRep(next, head, tail, count, pool, s) ==
  /\ s \in Seq(Node) /\ Distinct(s) /\ NextLinks(Null, next, s)
  /\ next \in [Node -> Node \union {Null}]
  /\ head = FirstOf(Null, s) /\ tail = LastOf(Null, s) /\ count = Len(s)
  /\ pool \subseteq Node /\ \A m \in Node : m \in pool <=> ~InSeq(s, m)

\* What is in a sequence after an insertion.
LEMMA InsertInSeq ==
  ASSUME NEW S, NEW s \in Seq(S), NEW x \in S, NEW k \in 1..(Len(s) + 1)
  PROVE  \A y : InSeq(InsertAt(s, k, x), y) <=> y = x \/ InSeq(s, y)
<1>1. /\ Len(s) \in Nat /\ Len(InsertAt(s, k, x)) = Len(s) + 1
      /\ \A i \in 1..(Len(s) + 1) :
           InsertAt(s, k, x)[i] = IF i < k THEN s[i] ELSE IF i = k THEN x ELSE s[i - 1]
  BY InsertAtFacts, LenProperties
<1> DEFINE t == InsertAt(s, k, x)
<1> HIDE DEF t
<1>2. ASSUME NEW y, InSeq(t, y)
      PROVE  y = x \/ InSeq(s, y)
  <2>1. PICK i \in 1..(Len(s) + 1) : t[i] = y
    BY <1>1, <1>2 DEF InSeq, t
  <2>2. CASE i < k
    BY <1>1, <2>1, <2>2 DEF InSeq, t
  <2>3. CASE i = k
    BY <1>1, <2>1, <2>3 DEF t
  <2>4. CASE i > k
    <3>1. i - 1 \in 1..Len(s)
      BY <1>1, <2>4
    <3>2. t[i] = s[i - 1]
      BY <1>1, <2>4 DEF t
    <3> QED
      BY <2>1, <3>1, <3>2 DEF InSeq
  <2> QED
    BY <1>1, <2>2, <2>3, <2>4
<1>3. InSeq(t, x)
  BY <1>1 DEF InSeq, t
<1>4. ASSUME NEW y, InSeq(s, y)
      PROVE  InSeq(t, y)
  <2>1. PICK i \in 1..Len(s) : s[i] = y
    BY <1>4 DEF InSeq
  <2>2. CASE i < k
    BY <1>1, <2>1, <2>2 DEF InSeq, t
  <2>3. CASE i >= k
    <3>1. i + 1 \in 1..(Len(s) + 1) /\ i + 1 # k /\ ~(i + 1 < k) /\ i + 1 - 1 = i
      BY <1>1, <2>3
    <3>2. t[i + 1] = s[i]
      BY <1>1, <3>1 DEF t
    <3> QED
      BY <1>1, <2>1, <3>1, <3>2 DEF InSeq, t
  <2> QED
    BY <1>1, <2>2, <2>3
<1> QED
  BY <1>2, <1>3, <1>4 DEF t

\* An insertion of something new repeats nothing.
LEMMA InsertDistinct ==
  ASSUME NEW S, NEW s \in Seq(S), Distinct(s), NEW x \in S, ~InSeq(s, x), NEW k \in 1..(Len(s) + 1)
  PROVE  Distinct(InsertAt(s, k, x))
<1>1. /\ Len(s) \in Nat /\ Len(InsertAt(s, k, x)) = Len(s) + 1
      /\ \A i \in 1..(Len(s) + 1) :
           InsertAt(s, k, x)[i] = IF i < k THEN s[i] ELSE IF i = k THEN x ELSE s[i - 1]
  BY InsertAtFacts, LenProperties
<1> DEFINE t == InsertAt(s, k, x)
           From(i) == IF i < k THEN i ELSE i - 1
<1>2. \A i \in 1..(Len(s) + 1) : i # k => From(i) \in 1..Len(s) /\ t[i] = s[From(i)]
  BY <1>1
<1>3. \A i, j \in 1..(Len(s) + 1) : i # k /\ j # k /\ From(i) = From(j) => i = j
  BY <1>1
<1>4. t[k] = x
  BY <1>1
<1> HIDE DEF t, From
<1>5. \A i, j \in 1..(Len(s) + 1) : t[i] = t[j] => i = j
  <2>1. ASSUME NEW i \in 1..(Len(s) + 1), NEW j \in 1..(Len(s) + 1), t[i] = t[j], i # k, j # k
        PROVE  i = j
    <3>1. From(i) = From(j)
      BY <1>2, <2>1 DEF Distinct
    <3> QED
      BY <1>3, <2>1, <3>1
  <2>2. ASSUME NEW i \in 1..(Len(s) + 1), i # k
        PROVE  t[i] # t[k]
    BY <1>2, <1>4, <2>2 DEF InSeq
  <2> QED
    BY <2>1, <2>2
<1> QED
  BY <1>1, <1>5 DEF Distinct, t

\* The first and the last after an insertion.
LEMMA InsertEnds ==
  ASSUME NEW S, NEW s \in Seq(S), NEW x \in S, NEW k \in 1..(Len(s) + 1), NEW end
  PROVE  /\ FirstOf(end, InsertAt(s, k, x)) = IF k = 1 THEN x ELSE FirstOf(end, s)
         /\ LastOf(end, InsertAt(s, k, x)) = IF k = Len(s) + 1 THEN x ELSE LastOf(end, s)
<1>1. /\ Len(s) \in Nat /\ Len(InsertAt(s, k, x)) = Len(s) + 1
      /\ \A i \in 1..(Len(s) + 1) :
           InsertAt(s, k, x)[i] = IF i < k THEN s[i] ELSE IF i = k THEN x ELSE s[i - 1]
  BY InsertAtFacts, LenProperties
<1> DEFINE t == InsertAt(s, k, x)
<1>2. t[1] = IF k = 1 THEN x ELSE s[1]
  BY <1>1
<1>3. t[Len(s) + 1] = IF k = Len(s) + 1 THEN x ELSE s[Len(s)]
  BY <1>1
<1>4. (k # 1 \/ k # Len(s) + 1) => Len(s) # 0
  BY <1>1
<1>5. Len(t) # 0 /\ Len(t) = Len(s) + 1
  BY <1>1
<1> HIDE DEF t
<1>6. FirstOf(end, t) = t[1] /\ LastOf(end, t) = t[Len(s) + 1]
  BY <1>5 DEF FirstOf, LastOf
<1>7. FirstOf(end, t) = IF k = 1 THEN x ELSE FirstOf(end, s)
  BY <1>1, <1>2, <1>6 DEF FirstOf
<1>8. LastOf(end, t) = IF k = Len(s) + 1 THEN x ELSE LastOf(end, s)
  BY <1>1, <1>3, <1>6 DEF LastOf
<1> QED
  BY <1>7, <1>8 DEF t

\* What is in a sequence after a removal.
LEMMA RemoveInSeq ==
  ASSUME NEW S, NEW s \in Seq(S), Distinct(s), NEW k \in 1..Len(s)
  PROVE  \A y : InSeq(RemoveAt(s, k), y) <=> y # s[k] /\ InSeq(s, y)
<1>1. /\ Len(s) \in Nat /\ Len(RemoveAt(s, k)) = Len(s) - 1
      /\ \A i \in 1..(Len(s) - 1) : RemoveAt(s, k)[i] = IF i < k THEN s[i] ELSE s[i + 1]
  BY RemoveAtFacts, LenProperties
<1> DEFINE t == RemoveAt(s, k)
           To(i) == IF i < k THEN i ELSE i + 1
<1>2. \A i \in 1..(Len(s) - 1) : To(i) \in 1..Len(s) /\ To(i) # k /\ t[i] = s[To(i)]
  BY <1>1
<1>3. \A j \in 1..Len(s) : j # k => \E i \in 1..(Len(s) - 1) : To(i) = j
  <2>1. ASSUME NEW j \in 1..Len(s), j < k
        PROVE  j \in 1..(Len(s) - 1) /\ To(j) = j
    BY <1>1, <2>1
  <2>2. ASSUME NEW j \in 1..Len(s), j > k
        PROVE  j - 1 \in 1..(Len(s) - 1) /\ To(j - 1) = j
    BY <1>1, <2>2
  <2>3. ASSUME NEW j \in 1..Len(s), j # k
        PROVE  \E i \in 1..(Len(s) - 1) : To(i) = j
    <3>1. CASE j < k
      BY <2>1, <3>1
    <3>2. CASE j > k
      BY <2>2, <3>2
    <3> QED
      BY <1>1, <2>3, <3>1, <3>2
  <2> QED
    BY <2>3
<1> HIDE DEF t, To
<1>4. Len(t) = Len(s) - 1
  BY <1>1 DEF t
<1>5. ASSUME NEW y, InSeq(t, y)
      PROVE  y # s[k] /\ InSeq(s, y)
  <2>1. PICK i \in 1..(Len(s) - 1) : t[i] = y
    BY <1>4, <1>5 DEF InSeq
  <2> QED
    BY <1>2, <2>1 DEF InSeq, Distinct
<1>6. ASSUME NEW y, InSeq(s, y), y # s[k]
      PROVE  InSeq(t, y)
  <2>1. PICK j \in 1..Len(s) : s[j] = y
    BY <1>6 DEF InSeq
  <2>2. PICK i \in 1..(Len(s) - 1) : To(i) = j
    BY <1>3, <1>6, <2>1
  <2> QED
    BY <1>2, <1>4, <2>1, <2>2 DEF InSeq
<1> QED
  BY <1>5, <1>6 DEF t

\* A removal repeats nothing.
LEMMA RemoveDistinct ==
  ASSUME NEW S, NEW s \in Seq(S), Distinct(s), NEW k \in 1..Len(s)
  PROVE  Distinct(RemoveAt(s, k))
<1>1. /\ Len(s) \in Nat /\ Len(RemoveAt(s, k)) = Len(s) - 1
      /\ \A i \in 1..(Len(s) - 1) : RemoveAt(s, k)[i] = IF i < k THEN s[i] ELSE s[i + 1]
  BY RemoveAtFacts, LenProperties
<1> DEFINE t == RemoveAt(s, k)
           To(i) == IF i < k THEN i ELSE i + 1
<1>2. \A i \in 1..(Len(s) - 1) : To(i) \in 1..Len(s) /\ t[i] = s[To(i)]
  BY <1>1
<1>3. \A i, j \in 1..(Len(s) - 1) : To(i) = To(j) => i = j
  BY <1>1
<1> HIDE DEF t, To
<1>4. \A i, j \in 1..(Len(s) - 1) : t[i] = t[j] => i = j
  BY <1>2, <1>3 DEF Distinct
<1> QED
  BY <1>1, <1>4 DEF Distinct, t

\* The first and the last after a removal.
LEMMA RemoveEnds ==
  ASSUME NEW S, NEW s \in Seq(S), NEW k \in 1..Len(s), NEW end
  PROVE  /\ FirstOf(end, RemoveAt(s, k)) =
              IF k # 1 THEN s[1] ELSE IF Len(s) = 1 THEN end ELSE s[2]
         /\ LastOf(end, RemoveAt(s, k)) =
              IF k # Len(s) THEN s[Len(s)] ELSE IF Len(s) = 1 THEN end ELSE s[Len(s) - 1]
<1>1. /\ Len(s) \in Nat /\ Len(RemoveAt(s, k)) = Len(s) - 1
      /\ \A i \in 1..(Len(s) - 1) : RemoveAt(s, k)[i] = IF i < k THEN s[i] ELSE s[i + 1]
  BY RemoveAtFacts, LenProperties
<1> DEFINE t == RemoveAt(s, k)
<1>2. Len(s) # 1 => t[1] = IF k # 1 THEN s[1] ELSE s[2]
  BY <1>1
<1>3. Len(s) # 1 => t[Len(s) - 1] = IF k # Len(s) THEN s[Len(s)] ELSE s[Len(s) - 1]
  BY <1>1
<1>4. Len(t) = Len(s) - 1 /\ (Len(t) = 0 <=> Len(s) = 1)
  BY <1>1
<1>5. Len(s) = 1 => k = 1
  BY <1>1
<1> HIDE DEF t
<1>6. FirstOf(end, t) = IF Len(s) = 1 THEN end ELSE t[1]
  BY <1>4 DEF FirstOf
<1>7. LastOf(end, t) = IF Len(s) = 1 THEN end ELSE t[Len(s) - 1]
  BY <1>4 DEF LastOf
<1>8. FirstOf(end, t) = IF k # 1 THEN s[1] ELSE IF Len(s) = 1 THEN end ELSE s[2]
  BY <1>2, <1>5, <1>6
<1>9. LastOf(end, t) = IF k # Len(s) THEN s[Len(s)] ELSE IF Len(s) = 1 THEN end ELSE s[Len(s) - 1]
  BY <1>3, <1>5, <1>7
<1> QED
  BY <1>8, <1>9 DEF t

\* The next pointers after n is put at place k.
NextOpened(next, next2, s, n, k) ==
  /\ next2 \in [Node -> Node \union {Null}]
  /\ next2[n] = IF k = Len(s) + 1 THEN Null ELSE s[k]
  /\ k > 1 => next2[s[k - 1]] = n
  /\ \A i \in 1..Len(s) : i # k - 1 => next2[s[i]] = next[s[i]]

\* The ends and the count after it.
EndsOpened(head, tail, count, s, n, k, head2, tail2, count2) ==
  /\ head2 = IF k = 1 THEN n ELSE head
  /\ tail2 = IF k = Len(s) + 1 THEN n ELSE tail
  /\ count2 = count + 1

\* The next pointers after the node at place k left.
NextClosed(next, next2, s, k) ==
  /\ next2 \in [Node -> Node \union {Null}]
  /\ k > 1 => next2[s[k - 1]] = next[s[k]]
  /\ \A i \in 1..Len(s) : i # k - 1 /\ i # k => next2[s[i]] = next[s[i]]

\* The ends and the count after it.
EndsClosed(count, s, k, head2, tail2, count2) ==
  /\ head2 = IF k # 1 THEN s[1] ELSE IF Len(s) = 1 THEN Null ELSE s[2]
  /\ tail2 = IF k # Len(s) THEN s[Len(s)] ELSE IF Len(s) = 1 THEN Null ELSE s[Len(s) - 1]
  /\ count2 = count - 1

\* What NodesRep says.
LEMMA NodesParts ==
  ASSUME NEW next, NEW head, NEW tail, NEW count, NEW pool, NEW s,
         NodesRep(next, head, tail, count, pool, s)
  PROVE  /\ s \in Seq(Node) /\ Distinct(s) /\ NextLinks(Null, next, s)
         /\ next \in [Node -> Node \union {Null}]
         /\ Len(s) \in Nat /\ count = Len(s) /\ \A i \in 1..Len(s) : s[i] \in Node
         /\ head = FirstOf(Null, s) /\ tail = LastOf(Null, s)
         /\ pool \subseteq Node /\ \A m \in Node : m \in pool <=> ~InSeq(s, m)
         /\ Null \notin Node
BY NodeAssumption, ElementOfSeq, LenProperties DEF NodesRep

\* Walking from the head gives the nodes.
LEMMA NodesWalk ==
  ASSUME NEW next, NEW head, NEW tail, NEW count, NEW pool, NEW s,
         NodesRep(next, head, tail, count, pool, s)
  PROVE  Walk(Node, next, head) = s
<1>1. /\ s \in Seq(Node) /\ Distinct(s) /\ NextLinks(Null, next, s)
      /\ head = FirstOf(Null, s) /\ Null \notin Node /\ IsFiniteSet(Node)
  BY NodesParts, NodeAssumption
<1> QED
  BY <1>1, WalkIs

\* A node of the pool put at place k leaves the pool and is in the list.
LEMMA NodesInsert ==
  ASSUME NEW next, NEW head, NEW tail, NEW count, NEW pool, NEW s,
         NodesRep(next, head, tail, count, pool, s),
         NEW n \in pool, NEW k \in 1..(Len(s) + 1),
         NEW next2, NextOpened(next, next2, s, n, k),
         NEW head2, NEW tail2, NEW count2,
         EndsOpened(head, tail, count, s, n, k, head2, tail2, count2)
  PROVE  NodesRep(next2, head2, tail2, count2, pool \ {n}, InsertAt(s, k, n))
<1>1. /\ s \in Seq(Node) /\ Distinct(s) /\ NextLinks(Null, next, s) /\ n \in Node
      /\ Len(s) \in Nat /\ count = Len(s)
      /\ head = FirstOf(Null, s) /\ tail = LastOf(Null, s)
      /\ pool \subseteq Node /\ \A m \in Node : m \in pool <=> ~InSeq(s, m)
  BY NodesParts
<1>2. ~InSeq(s, n)
  BY <1>1
<1> DEFINE t == InsertAt(s, k, n)
<1>3. t \in Seq(Node) /\ Len(t) = Len(s) + 1
  BY <1>1, InsertAtFacts
<1>4. Distinct(t)
  BY <1>1, <1>2, InsertDistinct
<1>5. NextLinks(Null, next2, t)
  BY <1>1, InsertNext DEF NextOpened
<1>6. /\ FirstOf(Null, t) = IF k = 1 THEN n ELSE FirstOf(Null, s)
      /\ LastOf(Null, t) = IF k = Len(s) + 1 THEN n ELSE LastOf(Null, s)
  BY <1>1, InsertEnds
<1>7. \A y : InSeq(t, y) <=> y = n \/ InSeq(s, y)
  BY <1>1, InsertInSeq
<1> HIDE DEF t
<1>8. NodesRep(next2, head2, tail2, count2, pool \ {n}, t)
  BY <1>1, <1>3, <1>4, <1>5, <1>6, <1>7 DEF NodesRep, NextOpened, EndsOpened
<1> QED
  BY <1>8 DEF t

\* A node that leaves the list goes back to the pool.
LEMMA NodesRemove ==
  ASSUME NEW next, NEW head, NEW tail, NEW count, NEW pool, NEW s,
         NodesRep(next, head, tail, count, pool, s),
         NEW k \in 1..Len(s),
         NEW next2, NextClosed(next, next2, s, k),
         NEW head2, NEW tail2, NEW count2, EndsClosed(count, s, k, head2, tail2, count2)
  PROVE  NodesRep(next2, head2, tail2, count2, pool \union {s[k]}, RemoveAt(s, k))
<1>1. /\ s \in Seq(Node) /\ Distinct(s) /\ NextLinks(Null, next, s) /\ s[k] \in Node
      /\ Len(s) \in Nat /\ count = Len(s)
      /\ pool \subseteq Node /\ \A m \in Node : m \in pool <=> ~InSeq(s, m)
  BY NodesParts
<1> DEFINE t == RemoveAt(s, k)
<1>3. t \in Seq(Node) /\ Len(t) = Len(s) - 1
  BY <1>1, RemoveAtFacts
<1>4. Distinct(t)
  BY <1>1, RemoveDistinct
<1>5. NextLinks(Null, next2, t)
  BY <1>1, RemoveNext DEF NextClosed
<1>6. FirstOf(Null, t) = head2 /\ LastOf(Null, t) = tail2
  BY <1>1, RemoveEnds DEF EndsClosed
<1>7. \A y : InSeq(t, y) <=> y # s[k] /\ InSeq(s, y)
  BY <1>1, RemoveInSeq
<1> HIDE DEF t
<1>8. NodesRep(next2, head2, tail2, count2, pool \union {s[k]}, t)
  BY <1>1, <1>3, <1>4, <1>5, <1>6, <1>7 DEF NodesRep, NextClosed, EndsClosed
<1> QED
  BY <1>8 DEF t

\* With no node in the list all of them are in the pool.
LEMMA NodesEmpty ==
  ASSUME NEW next, next \in [Node -> Node \union {Null}]
  PROVE  NodesRep(next, Null, Null, 0, Node, << >>)
<1>1. << >> \in Seq(Node) /\ Len(<< >>) = 0
  BY EmptySeq
<1>2. 1..0 = {}
  OBVIOUS
<1> QED
  BY <1>1, <1>2 DEF NodesRep, Distinct, NextLinks, FirstOf, LastOf, InSeq

\* The elements after a removal are those of the other nodes.
LEMMA ElementsRemove ==
  ASSUME NEW next, NEW head, NEW tail, NEW count, NEW pool, NEW s,
         NodesRep(next, head, tail, count, pool, s),
         NEW k \in 1..Len(s), NEW elem, NEW elem2,
         \A m \in Node \ {s[k]} : elem2[m] = elem[m]
  PROVE  LET t == RemoveAt(s, k) IN
         [i \in DOMAIN t |-> elem2[t[i]]] = RemoveAt([i \in DOMAIN s |-> elem[s[i]]], k)
<1>1. /\ s \in Seq(Node) /\ Distinct(s) /\ Len(s) \in Nat /\ \A i \in 1..Len(s) : s[i] \in Node
  BY NodesParts
<1> DEFINE t == RemoveAt(s, k)
           e == [i \in DOMAIN s |-> elem[s[i]]]
           E == {elem[m] : m \in Node}
           f == [i \in DOMAIN t |-> elem2[t[i]]]
<1>2. /\ t \in Seq(Node) /\ Len(t) = Len(s) - 1
      /\ \A i \in 1..(Len(s) - 1) : t[i] = IF i < k THEN s[i] ELSE s[i + 1]
  BY <1>1, RemoveAtFacts
<1>3. DOMAIN s = 1..Len(s) /\ DOMAIN t = 1..Len(t)
  BY <1>1, <1>2
<1>4. e \in [1..Len(s) -> E]
  BY <1>1, <1>3
<1>5. e \in Seq(E) /\ Len(e) = Len(s)
  BY <1>1, <1>3, <1>4, IsASeq, LenProperties
<1>5a. \A i \in 1..Len(s) : e[i] = elem[s[i]]
  BY <1>3
<1> HIDE DEF e, E
<1>6. /\ RemoveAt(e, k) \in Seq(E) /\ Len(RemoveAt(e, k)) = Len(s) - 1
      /\ \A i \in 1..(Len(s) - 1) : RemoveAt(e, k)[i] = IF i < k THEN e[i] ELSE e[i + 1]
  BY <1>5, RemoveAtFacts
<1>7. \A i \in 1..(Len(s) - 1) : f[i] = RemoveAt(e, k)[i]
  <2>1. TAKE i \in 1..(Len(s) - 1)
  <2>2. f[i] = elem2[t[i]]
    BY <1>2, <1>3
  <2> DEFINE j == IF i < k THEN i ELSE i + 1
  <2>3. j \in 1..Len(s) /\ j # k
    BY <1>1
  <2>4. t[i] = s[j]
    BY <1>2
  <2>5. RemoveAt(e, k)[i] = e[j]
    BY <1>6
  <2> HIDE DEF j, t, f
  <2>6. s[j] \in Node \ {s[k]}
    BY <1>1, <2>3 DEF Distinct
  <2>7. e[j] = elem[s[j]]
    BY <1>5a, <2>3
  <2> QED
    BY <2>2, <2>4, <2>5, <2>6, <2>7
<1>8. DOMAIN f = 1..(Len(s) - 1) /\ f \in [1..(Len(s) - 1) -> Range(f)]
  BY <1>2, <1>3 DEF Range
<1>9. DOMAIN RemoveAt(e, k) = 1..(Len(s) - 1)
  BY <1>6
<1> HIDE DEF t, f
<1>10. f = RemoveAt(e, k)
  BY <1>6, <1>7, <1>8, <1>9, SeqEqual DEF f
<1> QED
  BY <1>10 DEF t, e, f

-----------------------------------------------------------------------------
(* What the calls of CLinkedlist write.                                    *)

\* The state of the list represents s.
Rep(s) == NodesRep(pNext, m_pHead, m_pTail, m_nCount, free, s)

\* So do its previous pointers, and a position is NULL or a node of the list.
BackRep(s) ==
  /\ PrevLinks(Null, pPrev, s) /\ pPrev \in [Node -> Node \union {Null}]
  /\ pos = Null \/ InSeq(s, pos)

\* What the nodes hold.
ElementType == pElement \in [Node -> Element \union {Null}]

\* The two instances see the same nodes.
LEMMA NodesAre ==
  /\ Forward!Nodes = Walk(Node, pNext, m_pHead) /\ Forward!Nodes' = Walk(Node, pNext', m_pHead')
  /\ BothWays!Nodes = Walk(Node, pNext, m_pHead)
<1>1. \A S, next, h : Forward!Walk(S, next, h) = Walk(S, next, h)
  BY DEF Forward!Walk, Walk, Forward!Cardinality, Cardinality
<1>2. \A S, next, h : BothWays!Walk(S, next, h) = Walk(S, next, h)
  BY DEF BothWays!Walk, Walk, BothWays!Cardinality, Cardinality
<1> QED
  BY <1>1, <1>2 DEF Forward!Nodes, BothWays!Nodes

\* Which are those of s.
LEMMA ForwardNodes ==
  ASSUME NEW s, Rep(s)
  PROVE  Forward!Nodes = s /\ BothWays!Nodes = s
BY NodesWalk, NodesAre DEF Rep

\* What stands before place k.
Before(s, k) == IF k = 1 THEN Null ELSE s[k - 1]

\* What stands at place k, or NULL behind the last.
After(s, k) == IF k = Len(s) + 1 THEN Null ELSE s[k]

\* Linking a free node between its neighbours inserts it.
LEMMA LinkedIn ==
  ASSUME NEW s, Rep(s), ElementType, NEW n \in free, NEW x \in Element, NEW k \in 1..(Len(s) + 1),
         Forward!Linked(n, x, Before(s, k), After(s, k)),
         m_pHead' = IF k = 1 THEN n ELSE m_pHead,
         m_pTail' = IF k = Len(s) + 1 THEN n ELSE m_pTail
  PROVE  Rep(InsertAt(s, k, n))' /\ ElementType'
<1>1. /\ s \in Seq(Node) /\ Distinct(s) /\ n \in Node /\ ~InSeq(s, n) /\ Len(s) \in Nat
      /\ pNext \in [Node -> Node \union {Null}] /\ \A i \in 1..Len(s) : s[i] \in Node
      /\ Null \notin Node
  BY NodesParts DEF Rep
<1>2. /\ \A m \in Node : pNext'[m] = IF m = n THEN After(s, k)
                                      ELSE IF m = Before(s, k) THEN n ELSE pNext[m]
      /\ m_nCount' = m_nCount + 1 /\ free' = free \ {n}
  BY DEF Forward!Linked
<1>3. After(s, k) \in Node \union {Null}
  BY <1>1 DEF After
<1>4. pNext' \in [Node -> Node \union {Null}]
  BY <1>1, <1>3 DEF Forward!Linked
<1>5. pNext'[n] = IF k = Len(s) + 1 THEN Null ELSE s[k]
  BY <1>1, <1>2 DEF After
<1>6. k > 1 => pNext'[s[k - 1]] = n
  <2>1. ASSUME k > 1
        PROVE  k - 1 \in 1..Len(s) /\ k # 1
    BY <1>1, <2>1
  <2>2. ASSUME k > 1
        PROVE  s[k - 1] \in Node /\ s[k - 1] # n /\ Before(s, k) = s[k - 1]
    BY <1>1, <2>1, <2>2 DEF InSeq, Before
  <2> QED
    BY <1>2, <2>2
<1>7. \A i \in 1..Len(s) : i # k - 1 => pNext'[s[i]] = pNext[s[i]]
  <2>1. TAKE i \in 1..Len(s)
  <2>2. HAVE i # k - 1
  <2>3. k # 1 => k - 1 \in 1..Len(s)
    BY <1>1
  <2>4. s[i] \in Node /\ s[i] # n /\ s[i] # Before(s, k)
    BY <1>1, <2>2, <2>3 DEF InSeq, Before, Distinct
  <2> QED
    BY <1>2, <2>4
<1>8. NextOpened(pNext, pNext', s, n, k)
  BY <1>4, <1>5, <1>6, <1>7 DEF NextOpened
<1>9. EndsOpened(m_pHead, m_pTail, m_nCount, s, n, k, m_pHead', m_pTail', m_nCount')
  BY <1>2 DEF EndsOpened
<1>10. NodesRep(pNext', m_pHead', m_pTail', m_nCount', free \ {n}, InsertAt(s, k, n))
  <2>1. NodesRep(pNext, m_pHead, m_pTail, m_nCount, free, s)
    BY DEF Rep
  <2> QED
    BY <1>8, <1>9, <2>1, NodesInsert
<1>11. ElementType'
  BY <1>1 DEF Forward!Linked, ElementType
<1> QED
  BY <1>2, <1>10, <1>11 DEF Rep

\* In the previous pointers too.
LEMMA InsertBack ==
  ASSUME NEW s, Rep(s), BackRep(s), NEW n \in free, NEW x, NEW k \in 1..(Len(s) + 1),
         Forward!Linked(n, x, Before(s, k), After(s, k)), pos' = pos
  PROVE  BackRep(InsertAt(s, k, n))'
<1>1. /\ s \in Seq(Node) /\ Distinct(s) /\ n \in Node /\ ~InSeq(s, n) /\ Len(s) \in Nat
      /\ \A i \in 1..Len(s) : s[i] \in Node
      /\ Null \notin Node
  BY NodesParts DEF Rep
<1>1a. /\ pPrev \in [Node -> Node \union {Null}] /\ PrevLinks(Null, pPrev, s)
       /\ pos = Null \/ InSeq(s, pos)
  BY DEF BackRep
<1>2. \A m \in Node : pPrev'[m] = IF m = n THEN Before(s, k)
                                  ELSE IF m = After(s, k) THEN n ELSE pPrev[m]
  BY DEF Forward!Linked
<1>3. Before(s, k) \in Node \union {Null}
  BY <1>1 DEF Before
<1>4. pPrev' \in [Node -> Node \union {Null}]
  BY <1>1, <1>1a, <1>3 DEF Forward!Linked
<1>5. pPrev'[n] = IF k = 1 THEN Null ELSE s[k - 1]
  BY <1>1, <1>2 DEF Before
<1>6. k <= Len(s) => pPrev'[s[k]] = n
  BY <1>1, <1>2 DEF InSeq, After
<1>7. \A i \in 1..Len(s) : i # k => pPrev'[s[i]] = pPrev[s[i]]
  <2>1. TAKE i \in 1..Len(s)
  <2>2. HAVE i # k
  <2>3. k # Len(s) + 1 => k \in 1..Len(s)
    BY <1>1
  <2>4. s[i] \in Node /\ s[i] # n /\ s[i] # After(s, k)
    BY <1>1, <2>2, <2>3 DEF InSeq, After, Distinct
  <2> QED
    BY <1>2, <2>4
<1> DEFINE prev2 == pPrev'
           t == InsertAt(s, k, n)
<1>8. /\ prev2 \in [Node -> Node \union {Null}]
      /\ prev2[n] = IF k = 1 THEN Null ELSE s[k - 1]
      /\ k <= Len(s) => prev2[s[k]] = n
      /\ \A i \in 1..Len(s) : i # k => prev2[s[i]] = pPrev[s[i]]
  BY <1>4, <1>5, <1>6, <1>7
<1> HIDE DEF prev2
<1>9. PrevLinks(Null, prev2, InsertAt(s, k, n))
  BY <1>1, <1>1a, <1>8, InsertPrev
<1>10. \A y : InSeq(InsertAt(s, k, n), y) <=> y = n \/ InSeq(s, y)
  BY <1>1, InsertInSeq
<1> HIDE DEF t
<1>11. PrevLinks(Null, prev2, t) /\ (pos' = Null \/ InSeq(t, pos'))
  BY <1>1a, <1>9, <1>10 DEF t
<1> QED
  BY <1>8, <1>11 DEF BackRep, prev2, t

\* The previous pointers after the node at place k left.
PrevClosed(prev, prev2, s, k) ==
  /\ prev2 \in [Node -> Node \union {Null}]
  /\ k < Len(s) => prev2[s[k + 1]] = prev[s[k]]
  /\ \A i \in 1..Len(s) : i # k + 1 /\ i # k => prev2[s[i]] = prev[s[i]]

\* The node at place k has gone, and its element was handed over.
Dropped(s, k) ==
  /\ Rep(RemoveAt(s, k))' /\ ElementType'
  /\ taken' = pElement[s[k]] /\ \A m \in Node \ {s[k]} : pElement'[m] = pElement[m]

\* What Rep says of the ends, the count and the next pointers.
LEMMA RepParts ==
  ASSUME NEW s, Rep(s)
  PROVE  /\ s \in Seq(Node) /\ Distinct(s) /\ Len(s) \in Nat
         /\ \A i \in 1..Len(s) : s[i] \in Node
         /\ Null \notin Node /\ pNext \in [Node -> Node \union {Null}] /\ free \subseteq Node
         /\ m_nCount = Len(s)
         /\ m_pHead = (IF Len(s) = 0 THEN Null ELSE s[1])
         /\ m_pTail = (IF Len(s) = 0 THEN Null ELSE s[Len(s)])
         /\ \A i \in 1..Len(s) : pNext[s[i]] = IF i = Len(s) THEN Null ELSE s[i + 1]
<1>1. NodesRep(pNext, m_pHead, m_pTail, m_nCount, free, s)
  BY DEF Rep
<1> QED
  BY <1>1, NodesParts DEF FirstOf, LastOf, NextLinks

\* Head and tail are the same node when there is one.
LEMMA HeadIsTail ==
  ASSUME NEW s, Rep(s), Len(s) # 0
  PROVE  /\ m_pHead = s[1] /\ m_pTail = s[Len(s)] /\ Len(s) \in Nat
         /\ 1 \in 1..Len(s) /\ Len(s) \in 1..Len(s)
         /\ m_pHead = m_pTail <=> Len(s) = 1
<1>1. 1 \in 1..Len(s) /\ Len(s) \in 1..Len(s)
  BY RepParts
<1> QED
  BY <1>1, RepParts DEF Distinct

\* Freeing the node at place k, with the pointers closed over it, drops it.
LEMMA DropOne ==
  ASSUME NEW s, Rep(s), ElementType, NEW k \in 1..Len(s), Forward!Freed(s[k]),
         NextClosed(pNext, pNext', s, k),
         EndsClosed(m_nCount, s, k, m_pHead', m_pTail', m_nCount')
  PROVE  Dropped(s, k)
<1>1. NodesRep(pNext, m_pHead, m_pTail, m_nCount, free, s)
  BY DEF Rep
<1>2. NodesRep(pNext', m_pHead', m_pTail', m_nCount', free \union {s[k]}, RemoveAt(s, k))
  BY <1>1, NodesRemove
<1>3. free' = free \union {s[k]}
  BY DEF Forward!Freed
<1>4. s[k] \in Node
  BY RepParts
<1>5. ElementType' /\ taken' = pElement[s[k]] /\ \A m \in Node \ {s[k]} : pElement'[m] = pElement[m]
  BY <1>4 DEF Forward!Freed, ElementType
<1> QED
  BY <1>2, <1>3, <1>5 DEF Dropped, Rep

\* Deleting the head drops the first node.
LEMMA DropHeadRight ==
  ASSUME NEW s, Rep(s), ElementType, Len(s) # 0, Forward!DropHead
  PROVE  Dropped(s, 1)
<1> DEFINE one == 1
<1>1. /\ s \in Seq(Node) /\ Distinct(s) /\ Len(s) \in Nat /\ m_nCount = Len(s)
      /\ pNext \in [Node -> Node \union {Null}] /\ \A i \in 1..Len(s) : s[i] \in Node
      /\ Null \notin Node
  BY RepParts
<1>2. /\ m_pHead = s[1] /\ m_pTail = s[Len(s)] /\ 1 \in 1..Len(s)
      /\ m_pHead = m_pTail <=> Len(s) = 1
  BY HeadIsTail
<1>3. pNext[s[1]] = IF 1 = Len(s) THEN Null ELSE s[1 + 1]
  BY <1>2, RepParts
<1>4. /\ pNext' \in [Node -> Node \union {Null}]
      /\ \A i \in 1..Len(s) : i # 1 => pNext'[s[i]] = pNext[s[i]]
  BY <1>1, <1>2 DEF Forward!DropHead, Distinct
<1>5. NextClosed(pNext, pNext', s, 1)
  BY <1>4 DEF NextClosed
<1>6. EndsClosed(m_nCount, s, 1, m_pHead', m_pTail', m_nCount')
  BY <1>1, <1>2, <1>3 DEF EndsClosed, Forward!DropHead
<1>7. Forward!Freed(s[1])
  BY <1>2 DEF Forward!DropHead
<1> QED
  BY <1>2, <1>5, <1>6, <1>7, DropOne

\* Deleting the tail, found by a walk, drops the last one.
LEMMA DropTailRight ==
  ASSUME NEW s, Rep(s), ElementType, Len(s) # 0, Forward!DropTail
  PROVE  Dropped(s, Len(s))
<1>1. /\ s \in Seq(Node) /\ Distinct(s) /\ Len(s) \in Nat /\ m_nCount = Len(s)
      /\ pNext \in [Node -> Node \union {Null}] /\ \A i \in 1..Len(s) : s[i] \in Node
      /\ Null \notin Node
  BY RepParts
<1>2. /\ m_pHead = s[1] /\ m_pTail = s[Len(s)] /\ Len(s) \in 1..Len(s)
      /\ m_pHead = m_pTail <=> Len(s) = 1
  BY HeadIsTail
<1>3. pNext[s[Len(s)]] = Null
  BY <1>2, RepParts
<1>4. Forward!Nodes = s
  BY ForwardNodes
<1>5. CASE Len(s) = 1
  <2>1. m_pHead' = Null /\ m_pTail' = Null /\ m_nCount' = 0 /\ pNext' = pNext /\ Forward!Freed(s[1])
    BY <1>2, <1>5 DEF Forward!DropTail
  <2>2. NextClosed(pNext, pNext', s, 1)
    BY <1>1, <2>1 DEF NextClosed
  <2>3. EndsClosed(m_nCount, s, 1, m_pHead', m_pTail', m_nCount')
    BY <1>1, <1>5, <2>1 DEF EndsClosed
  <2>4. 1 \in 1..Len(s)
    BY <1>5
  <2>5. Dropped(s, 1)
    BY <2>1, <2>2, <2>3, <2>4, DropOne
  <2> QED
    BY <1>5, <2>5
<1>6. CASE Len(s) # 1
  <2>1. Len(s) - 1 \in 1..Len(s) /\ Len(s) - 1 # Len(s) /\ s[Len(s) - 1] \in Node
    BY <1>1, <1>6
  <2>2. /\ pNext' = [pNext EXCEPT ![s[Len(s) - 1]] = Null] /\ m_pTail' = s[Len(s) - 1]
        /\ m_nCount' = m_nCount - 1 /\ m_pHead' = m_pHead /\ Forward!Freed(s[Len(s)])
    BY <1>2, <1>4, <1>6 DEF Forward!DropTail
  <2>3. /\ pNext' \in [Node -> Node \union {Null}] /\ pNext'[s[Len(s) - 1]] = Null
        /\ \A i \in 1..Len(s) : i # Len(s) - 1 => pNext'[s[i]] = pNext[s[i]]
    BY <1>1, <2>1, <2>2 DEF Distinct
  <2>4. NextClosed(pNext, pNext', s, Len(s))
    BY <1>3, <2>3 DEF NextClosed
  <2>5. EndsClosed(m_nCount, s, Len(s), m_pHead', m_pTail', m_nCount')
    BY <1>1, <1>2, <1>6, <2>2 DEF EndsClosed
  <2> QED
    BY <1>2, <2>2, <2>4, <2>5, DropOne
<1> QED
  BY <1>5, <1>6

\* Deleting a node in between drops it.
LEMMA DropMiddleRight ==
  ASSUME NEW s, Rep(s), ElementType, NEW k \in 1..Len(s), k # 1, k # Len(s),
         Forward!DropMiddle(s[k], s[k - 1])
  PROVE  Dropped(s, k)
<1>1. /\ s \in Seq(Node) /\ Distinct(s) /\ Len(s) \in Nat /\ m_nCount = Len(s)
      /\ pNext \in [Node -> Node \union {Null}] /\ \A i \in 1..Len(s) : s[i] \in Node
      /\ m_pHead = (IF Len(s) = 0 THEN Null ELSE s[1])
      /\ m_pTail = (IF Len(s) = 0 THEN Null ELSE s[Len(s)])
      /\ Null \notin Node
  BY RepParts
<1>2. k - 1 \in 1..Len(s) /\ k - 1 # k /\ s[k - 1] \in Node /\ s[k] \in Node
  BY <1>1
<1>3. Forward!Freed(s[k]) /\ m_nCount' = m_nCount - 1 /\ m_pHead' = m_pHead /\ m_pTail' = m_pTail
  BY DEF Forward!DropMiddle
<1>4. pNext' = [pNext EXCEPT ![s[k - 1]] = pNext[s[k]], ![s[k]] = Null]
  BY DEF Forward!DropMiddle
<1>5. /\ pNext' \in [Node -> Node \union {Null}] /\ pNext'[s[k - 1]] = pNext[s[k]]
      /\ \A i \in 1..Len(s) : i # k - 1 /\ i # k => pNext'[s[i]] = pNext[s[i]]
  BY <1>1, <1>2, <1>4 DEF Distinct
<1>6. NextClosed(pNext, pNext', s, k)
  BY <1>5 DEF NextClosed
<1>7. EndsClosed(m_nCount, s, k, m_pHead', m_pTail', m_nCount')
  BY <1>1, <1>3 DEF EndsClosed
<1> QED
  BY <1>3, <1>6, <1>7, DropOne

\* With the previous pointers closed too, the list is still the same from both ends.
LEMMA DropBack ==
  ASSUME NEW s, Rep(s), BackRep(s), NEW k \in 1..Len(s), PrevClosed(pPrev, pPrev', s, k),
         pos' = Null \/ (InSeq(s, pos') /\ pos' # s[k])
  PROVE  BackRep(RemoveAt(s, k))'
<1>1. /\ s \in Seq(Node) /\ Distinct(s) /\ Len(s) \in Nat
  BY RepParts
<1>2. PrevLinks(Null, pPrev, s)
  BY DEF BackRep
<1>3. /\ k < Len(s) => pPrev'[s[k + 1]] = pPrev[s[k]]
      /\ \A i \in 1..Len(s) : i # k + 1 /\ i # k => pPrev'[s[i]] = pPrev[s[i]]
      /\ pPrev' \in [Node -> Node \union {Null}]
  BY DEF PrevClosed
<1> DEFINE prev2 == pPrev'
<1>4. /\ k < Len(s) => prev2[s[k + 1]] = pPrev[s[k]]
      /\ \A i \in 1..Len(s) : i # k + 1 /\ i # k => prev2[s[i]] = pPrev[s[i]]
  BY <1>3
<1> HIDE DEF prev2
<1>5. PrevLinks(Null, prev2, RemoveAt(s, k))
  BY <1>1, <1>2, <1>4, RemovePrev
<1>6. \A y : InSeq(RemoveAt(s, k), y) <=> y # s[k] /\ InSeq(s, y)
  BY <1>1, RemoveInSeq
<1>7. pos' = Null \/ InSeq(RemoveAt(s, k), pos')
  BY <1>6
<1> QED
  BY <1>3, <1>5, <1>7 DEF BackRep, prev2

\* What BackRep says.
LEMMA BackParts ==
  ASSUME NEW s, BackRep(s)
  PROVE  /\ pPrev \in [Node -> Node \union {Null}]
         /\ \A i \in 1..Len(s) : pPrev[s[i]] = IF i = 1 THEN Null ELSE s[i - 1]
         /\ pos = Null \/ InSeq(s, pos)
BY DEF BackRep, PrevLinks

\* Deleting the head closes the previous pointers.
LEMMA DropHeadBack ==
  ASSUME NEW s, Rep(s), BackRep(s), Len(s) # 0, Forward!DropHead
  PROVE  PrevClosed(pPrev, pPrev', s, 1)
<1>1. /\ s \in Seq(Node) /\ Distinct(s) /\ Len(s) \in Nat
      /\ pNext \in [Node -> Node \union {Null}] /\ \A i \in 1..Len(s) : s[i] \in Node
      /\ Null \notin Node
  BY RepParts
<1>2. /\ m_pHead = s[1] /\ 1 \in 1..Len(s)
      /\ m_pHead = m_pTail <=> Len(s) = 1
  BY HeadIsTail
<1>3. pNext[s[1]] = IF 1 = Len(s) THEN Null ELSE s[1 + 1]
  BY <1>2, RepParts
<1>4. pPrev \in [Node -> Node \union {Null}] /\ pPrev[s[1]] = Null
  BY <1>2, BackParts
<1>5. m_pHead' = IF Len(s) = 1 THEN Null ELSE s[2]
  BY <1>2, <1>3 DEF Forward!DropHead
<1>6. \A m \in Node : pPrev'[m] = IF m = s[1] \/ m = m_pHead' THEN Null ELSE pPrev[m]
  BY <1>2 DEF Forward!DropHead
<1>7. pPrev' \in [Node -> Node \union {Null}]
  BY <1>4 DEF Forward!DropHead
<1>8. 1 < Len(s) => pPrev'[s[1 + 1]] = pPrev[s[1]]
  BY <1>1, <1>4, <1>5, <1>6
<1>9. \A i \in 1..Len(s) : i # 1 + 1 /\ i # 1 => pPrev'[s[i]] = pPrev[s[i]]
  <2>1. TAKE i \in 1..Len(s)
  <2>2. HAVE i # 1 + 1 /\ i # 1
  <2>3. 2 \in 1..Len(s) /\ Len(s) # 1
    BY <1>1, <2>2
  <2>4. s[i] \in Node /\ s[i] # s[1] /\ s[i] # s[2]
    BY <1>1, <1>2, <2>2, <2>3 DEF Distinct
  <2> QED
    BY <1>5, <1>6, <2>3, <2>4
<1> QED
  BY <1>7, <1>8, <1>9 DEF PrevClosed

\* So does deleting the tail.
LEMMA DropTailBack ==
  ASSUME NEW s, Rep(s), BackRep(s), Len(s) # 0, Forward!DropTail
  PROVE  PrevClosed(pPrev, pPrev', s, Len(s))
<1>1. /\ s \in Seq(Node) /\ Distinct(s) /\ Len(s) \in Nat /\ \A i \in 1..Len(s) : s[i] \in Node
  BY RepParts
<1>2. m_pTail = s[Len(s)] /\ Len(s) \in 1..Len(s)
  BY HeadIsTail
<1>3. pPrev \in [Node -> Node \union {Null}]
  BY BackParts
<1>4. pPrev' = [pPrev EXCEPT ![s[Len(s)]] = Null]
  BY <1>2 DEF Forward!DropTail
<1>5. /\ pPrev' \in [Node -> Node \union {Null}]
      /\ \A i \in 1..Len(s) : i # Len(s) => pPrev'[s[i]] = pPrev[s[i]]
  BY <1>1, <1>2, <1>3, <1>4 DEF Distinct
<1> QED
  BY <1>1, <1>5 DEF PrevClosed

\* And deleting a node in between.
LEMMA DropMiddleBack ==
  ASSUME NEW s, Rep(s), BackRep(s), NEW k \in 1..Len(s), k # 1, k # Len(s),
         Forward!DropMiddle(s[k], s[k - 1])
  PROVE  PrevClosed(pPrev, pPrev', s, k)
<1>1. /\ s \in Seq(Node) /\ Distinct(s) /\ Len(s) \in Nat /\ \A i \in 1..Len(s) : s[i] \in Node
      /\ \A i \in 1..Len(s) : pNext[s[i]] = IF i = Len(s) THEN Null ELSE s[i + 1]
  BY RepParts
<1>2. /\ k - 1 \in 1..Len(s) /\ s[k - 1] \in Node /\ s[k] \in Node
      /\ k + 1 \in 1..Len(s) /\ k + 1 # k /\ s[k + 1] \in Node
      /\ s[k + 1] # s[k]
  BY <1>1 DEF Distinct
<1>3. pPrev \in [Node -> Node \union {Null}] /\ pPrev[s[k]] = s[k - 1]
  BY BackParts
<1>4. pNext[s[k]] = s[k + 1]
  BY <1>1
<1>5. pPrev' = [pPrev EXCEPT ![s[k + 1]] = s[k - 1], ![s[k]] = Null]
  BY <1>4 DEF Forward!DropMiddle
<1>6. /\ pPrev' \in [Node -> Node \union {Null}] /\ pPrev'[s[k + 1]] = s[k - 1]
      /\ \A i \in 1..Len(s) : i # k + 1 /\ i # k => pPrev'[s[i]] = pPrev[s[i]]
  BY <1>1, <1>2, <1>3, <1>5 DEF Distinct
<1> QED
  BY <1>3, <1>6 DEF PrevClosed

-----------------------------------------------------------------------------
(* The calls of CLinkedlist.                                               *)

\* Dropping a node takes one element out, the one handed over.
LEMMA TakesIt ==
  ASSUME NEW s, Rep(s), NEW k \in 1..Len(s), Dropped(s, k)
  PROVE  Forward!TakesOne
<1> DEFINE t == RemoveAt(s, k)
           elem2 == pElement'
<1>1. Rep(t)' /\ taken' = pElement[s[k]] /\ \A m \in Node \ {s[k]} : elem2[m] = pElement[m]
  BY DEF Dropped
<1>2. Forward!Nodes = s
  BY ForwardNodes
<1>3. Forward!Nodes' = t
  <2> HIDE DEF t
  <2>1. NodesRep(pNext', m_pHead', m_pTail', m_nCount', free', t)
    BY <1>1 DEF Rep
  <2>2. Walk(Node, pNext', m_pHead') = t
    BY <2>1, NodesWalk
  <2> QED
    BY <2>2, NodesAre
<1>4. NodesRep(pNext, m_pHead, m_pTail, m_nCount, free, s)
  BY DEF Rep
<1>5. [i \in DOMAIN t |-> elem2[t[i]]] = RemoveAt([i \in DOMAIN s |-> pElement[s[i]]], k)
  <2> HIDE DEF elem2
  <2> QED
    BY <1>1, <1>4, ElementsRemove
<1>6. Forward!Elements = [i \in DOMAIN s |-> pElement[s[i]]]
  BY <1>2 DEF Forward!Elements
<1>7. Forward!Elements' = [i \in DOMAIN t |-> elem2[t[i]]]
  BY <1>3 DEF Forward!Elements
<1>8. DOMAIN s = 1..Len(s) /\ k \in DOMAIN s
  BY RepParts
<1>9. k \in DOMAIN Forward!Elements /\ taken' = Forward!Elements[k]
  BY <1>1, <1>6, <1>8
<1>10. Forward!Elements' = RemoveAt(Forward!Elements, k)
  BY <1>5, <1>6, <1>7
<1>11. RemoveAt(Forward!Elements, k) = Forward!RemoveAt(Forward!Elements, k)
  BY DEF RemoveAt, Forward!RemoveAt
<1> QED
  BY <1>9, <1>10, <1>11 DEF Forward!TakesOne

\* A call that hands nothing over takes nothing.
LEMMA TakesNothing ==
  ASSUME taken' = Null
  PROVE  Forward!TakesOne
BY DEF Forward!TakesOne

\* Nor does one that changes no node.
LEMMA NothingMoves ==
  ASSUME NEW s, Rep(s), ElementType, pNext' = pNext, m_pHead' = m_pHead, pElement' = pElement
  PROVE  Forward!TakesOne
<1>1. Forward!Nodes = s /\ s \in Seq(Node)
  BY ForwardNodes, RepParts
<1>2. Forward!Nodes' = Forward!Nodes
  BY DEF Forward!Nodes
<1>3. Forward!Elements' = Forward!Elements
  BY <1>2 DEF Forward!Elements
<1>4. Len(Forward!Elements) \in Nat
  <2>1. Forward!Elements = [i \in 1..Len(s) |-> pElement[s[i]]]
    BY <1>1 DEF Forward!Elements
  <2>2. Len(s) \in Nat
    BY <1>1, LenProperties
  <2> QED
    BY <2>1, <2>2
<1> QED
  BY <1>3, <1>4 DEF Forward!TakesOne

\* AddHead puts a node at the front.
LEMMA AddHeadRight ==
  ASSUME NEW s, Rep(s), ElementType, NEW n \in free, NEW x \in Element,
         Forward!Linked(n, x, Null, m_pHead), m_pHead' = n,
         m_pTail' = IF m_pHead = Null THEN n ELSE m_pTail
  PROVE  /\ Rep(InsertAt(s, 1, n))' /\ ElementType'
         /\ BackRep(s) /\ pos' = pos => BackRep(InsertAt(s, 1, n))'
<1>1. /\ Len(s) \in Nat /\ Null \notin Node /\ \A i \in 1..Len(s) : s[i] \in Node
      /\ m_pHead = (IF Len(s) = 0 THEN Null ELSE s[1])
      /\ m_pTail = (IF Len(s) = 0 THEN Null ELSE s[Len(s)])
  BY RepParts
<1>2. Before(s, 1) = Null /\ After(s, 1) = m_pHead /\ 1 \in 1..(Len(s) + 1)
  BY <1>1 DEF Before, After
<1>3. m_pHead = Null <=> 1 = Len(s) + 1
  BY <1>1
<1>4. Forward!Linked(n, x, Before(s, 1), After(s, 1))
  BY <1>2
<1>5. m_pTail' = IF 1 = Len(s) + 1 THEN n ELSE m_pTail
  BY <1>3
<1>6. Rep(InsertAt(s, 1, n))' /\ ElementType'
  BY <1>2, <1>4, <1>5, LinkedIn
<1>7. BackRep(s) /\ pos' = pos => BackRep(InsertAt(s, 1, n))'
  BY <1>2, <1>4, InsertBack
<1> QED
  BY <1>6, <1>7

\* AddTail puts a node at the back.
LEMMA AddTailRight ==
  ASSUME NEW s, Rep(s), ElementType, NEW n \in free, NEW x \in Element,
         Forward!Linked(n, x, m_pTail, Null), m_pTail' = n,
         m_pHead' = IF m_pTail = Null THEN n ELSE m_pHead
  PROVE  /\ Rep(InsertAt(s, Len(s) + 1, n))' /\ ElementType'
         /\ BackRep(s) /\ pos' = pos => BackRep(InsertAt(s, Len(s) + 1, n))'
<1> DEFINE k == Len(s) + 1
<1>1. /\ Len(s) \in Nat /\ Null \notin Node /\ \A i \in 1..Len(s) : s[i] \in Node
      /\ m_pHead = (IF Len(s) = 0 THEN Null ELSE s[1])
      /\ m_pTail = (IF Len(s) = 0 THEN Null ELSE s[Len(s)])
  BY RepParts
<1>2. k \in 1..(Len(s) + 1) /\ k = Len(s) + 1 /\ (k = 1 <=> Len(s) = 0) /\ k - 1 = Len(s)
  BY <1>1
<1>3. Before(s, k) = m_pTail /\ After(s, k) = Null
  BY <1>1 DEF Before, After
<1> HIDE DEF k
<1>4. m_pTail = Null <=> k = 1
  BY <1>1, <1>2
<1>5. Forward!Linked(n, x, Before(s, k), After(s, k))
  BY <1>3
<1>6. m_pHead' = (IF k = 1 THEN n ELSE m_pHead) /\ m_pTail' = IF k = Len(s) + 1 THEN n ELSE m_pTail
  BY <1>2, <1>4
<1>7. Rep(InsertAt(s, k, n))' /\ ElementType'
  BY <1>2, <1>5, <1>6, LinkedIn
<1>8. BackRep(s) /\ pos' = pos => BackRep(InsertAt(s, k, n))'
  BY <1>2, <1>5, InsertBack
<1> QED
  BY <1>7, <1>8 DEF k

\* InsertBefore puts a node between two others.
LEMMA InsertBeforeRight ==
  ASSUME NEW s, Rep(s), ElementType, NEW n \in free, NEW x \in Element,
         NEW index \in 1..(Len(s) - 1),
         Forward!Linked(n, x, s[index], s[index + 1]), m_pHead' = m_pHead, m_pTail' = m_pTail
  PROVE  /\ Rep(InsertAt(s, index + 1, n))' /\ ElementType'
         /\ BackRep(s) /\ pos' = pos => BackRep(InsertAt(s, index + 1, n))'
<1> DEFINE k == index + 1
<1>1. Len(s) \in Nat
  BY RepParts
<1>2. k \in 1..(Len(s) + 1) /\ k # 1 /\ k # Len(s) + 1 /\ k - 1 = index
  BY <1>1
<1>3. Before(s, k) = s[index] /\ After(s, k) = s[index + 1]
  BY <1>2 DEF Before, After
<1> HIDE DEF k
<1>4. Forward!Linked(n, x, Before(s, k), After(s, k))
  BY <1>3
<1>5. m_pHead' = (IF k = 1 THEN n ELSE m_pHead) /\ m_pTail' = IF k = Len(s) + 1 THEN n ELSE m_pTail
  BY <1>2
<1>6. Rep(InsertAt(s, k, n))' /\ ElementType'
  BY <1>2, <1>4, <1>5, LinkedIn
<1>7. BackRep(s) /\ pos' = pos => BackRep(InsertAt(s, k, n))'
  BY <1>2, <1>4, InsertBack
<1> QED
  BY <1>6, <1>7 DEF k

\* InsertpAfter puts a node behind the next one, and writes no previous pointer.
LEMMA InsertpAfterRight ==
  ASSUME NEW s, Rep(s), ElementType, NEW n \in free, NEW x \in Element,
         NEW index \in 1..(Len(s) - 2),
         free' = free \ {n}, pElement' = [pElement EXCEPT ![n] = x],
         pNext' = [pNext EXCEPT ![n] = pNext[s[index + 1]], ![s[index + 1]] = n],
         m_nCount' = m_nCount + 1, m_pHead' = m_pHead, m_pTail' = m_pTail
  PROVE  Rep(InsertAt(s, index + 2, n))' /\ ElementType'
<1> DEFINE k == index + 2
<1>1. /\ s \in Seq(Node) /\ Distinct(s) /\ Len(s) \in Nat /\ \A i \in 1..Len(s) : s[i] \in Node
      /\ pNext \in [Node -> Node \union {Null}] /\ free \subseteq Node
      /\ \A i \in 1..Len(s) : pNext[s[i]] = IF i = Len(s) THEN Null ELSE s[i + 1]
  BY RepParts
<1>2. /\ k \in 1..(Len(s) + 1) /\ k # 1 /\ k # Len(s) + 1 /\ k - 1 = index + 1
      /\ k - 1 \in 1..Len(s) /\ k - 1 # Len(s) /\ k - 1 + 1 = k
  BY <1>1
<1>3. ~InSeq(s, n) /\ n \in Node
  BY <1>1, NodesParts DEF Rep
<1> HIDE DEF k
<1>4. pNext[s[k - 1]] = s[k] /\ s[k - 1] \in Node /\ s[k - 1] # n /\ s[k] \in Node
  <2>1. k \in 1..Len(s)
    BY <1>1, <1>2
  <2> QED
    BY <1>1, <1>2, <1>3, <2>1 DEF InSeq
<1>5. pNext' = [pNext EXCEPT ![n] = s[k], ![s[k - 1]] = n]
  BY <1>2, <1>4
<1>6. /\ pNext' \in [Node -> Node \union {Null}] /\ pNext'[n] = s[k] /\ pNext'[s[k - 1]] = n
      /\ \A i \in 1..Len(s) : i # k - 1 => pNext'[s[i]] = pNext[s[i]]
  BY <1>1, <1>2, <1>3, <1>4, <1>5, SMTT(40) DEF Distinct, InSeq
<1>7. NextOpened(pNext, pNext', s, n, k)
  BY <1>2, <1>6 DEF NextOpened
<1>8. EndsOpened(m_pHead, m_pTail, m_nCount, s, n, k, m_pHead', m_pTail', m_nCount')
  BY <1>2 DEF EndsOpened
<1>9. NodesRep(pNext, m_pHead, m_pTail, m_nCount, free, s)
  BY DEF Rep
<1>10. NodesRep(pNext', m_pHead', m_pTail', m_nCount', free', InsertAt(s, k, n))
  <2>1. NodesRep(pNext', m_pHead', m_pTail', m_nCount', free \ {n}, InsertAt(s, k, n))
    BY <1>2, <1>7, <1>8, <1>9, NodesInsert
  <2> QED
    BY <2>1
<1>11. ElementType'
  BY <1>3 DEF ElementType
<1> QED
  BY <1>10, <1>11 DEF Rep, k

\* The calls of the two instances share their pieces.
LEMMA SamePieces ==
  /\ \A n, x, prv, next : BothWays!Linked(n, x, prv, next) <=> Forward!Linked(n, x, prv, next)
  /\ BothWays!DropHead <=> Forward!DropHead
  /\ BothWays!DropTail <=> Forward!DropTail
  /\ \A n, pAfter : BothWays!DropMiddle(n, pAfter) <=> Forward!DropMiddle(n, pAfter)
<1>1. \A n, x, prv, next : BothWays!Linked(n, x, prv, next) <=> Forward!Linked(n, x, prv, next)
  BY DEF BothWays!Linked, Forward!Linked
<1>2. \A n : BothWays!Freed(n) <=> Forward!Freed(n)
  BY DEF BothWays!Freed, Forward!Freed
<1>3. BothWays!DropHead <=> Forward!DropHead
  BY <1>2 DEF BothWays!DropHead, Forward!DropHead
<1>4. BothWays!Nodes = Forward!Nodes
  BY NodesAre
<1>5. BothWays!DropTail <=> Forward!DropTail
  BY <1>2, <1>4 DEF BothWays!DropTail, Forward!DropTail
<1>6. \A n, pAfter : BothWays!DropMiddle(n, pAfter) <=> Forward!DropMiddle(n, pAfter)
  BY <1>2 DEF BothWays!DropMiddle, Forward!DropMiddle
<1> QED
  BY <1>1, <1>3, <1>5, <1>6

\* A call has left the list one that is the same from both ends if it was.
Onward(s) == \E t : Rep(t)' /\ ElementType' /\ (BackRep(s) /\ pos' = pos => BackRep(t)')

\* A call has left the list right in its next pointers.
OnwardAlone == \E t : Rep(t)' /\ ElementType'

\* AddHead keeps it so.
LEMMA AddHeadOnward ==
  ASSUME NEW s, Rep(s), ElementType, NEW x \in Element, Forward!AddHead(x) \/ BothWays!AddHead(x)
  PROVE  Onward(s) /\ taken' = Null /\ pos' = pos
<1>1. PICK n \in free : /\ Forward!Linked(n, x, Null, m_pHead) /\ m_pHead' = n /\ pos' = pos
                        /\ m_pTail' = IF m_pHead = Null THEN n ELSE m_pTail
  BY SamePieces DEF Forward!AddHead, BothWays!AddHead
<1>2. taken' = Null
  BY <1>1 DEF Forward!Linked
<1>3. /\ Rep(InsertAt(s, 1, n))' /\ ElementType'
      /\ BackRep(s) /\ pos' = pos => BackRep(InsertAt(s, 1, n))'
  BY <1>1, AddHeadRight
<1> QED
  BY <1>1, <1>2, <1>3 DEF Onward

\* AddTail keeps it so.
LEMMA AddTailOnward ==
  ASSUME NEW s, Rep(s), ElementType, NEW x \in Element, Forward!AddTail(x) \/ BothWays!AddTail(x)
  PROVE  Onward(s) /\ taken' = Null /\ pos' = pos
<1>1. PICK n \in free : /\ Forward!Linked(n, x, m_pTail, Null) /\ m_pTail' = n /\ pos' = pos
                        /\ m_pHead' = IF m_pTail = Null THEN n ELSE m_pHead
  BY SamePieces DEF Forward!AddTail, BothWays!AddTail
<1>2. taken' = Null
  BY <1>1 DEF Forward!Linked
<1>3. /\ Rep(InsertAt(s, Len(s) + 1, n))' /\ ElementType'
      /\ BackRep(s) /\ pos' = pos => BackRep(InsertAt(s, Len(s) + 1, n))'
  BY <1>1, AddTailRight
<1> QED
  BY <1>1, <1>2, <1>3 DEF Onward

\* The node an index finds.
LEMMA NodeAtIs ==
  ASSUME NEW s, Rep(s), NEW i \in Nat, i < Len(s)
  PROVE  Forward!NodeAt(i) = s[i + 1] /\ BothWays!NodeAt(i) = s[i + 1]
BY ForwardNodes DEF Forward!NodeAt, BothWays!NodeAt

\* InsertBefore keeps it so.
LEMMA InsertBeforeOnward ==
  ASSUME NEW s, Rep(s), ElementType, NEW x \in Element, NEW index,
         Forward!InsertBefore(x, index) \/ BothWays!InsertBefore(x, index)
  PROVE  Onward(s) /\ taken' = Null /\ pos' = pos
<1>1. Len(s) \in Nat /\ Forward!Nodes = s /\ BothWays!Nodes = s
  BY RepParts, ForwardNodes
<1>2. index \in 1..(Len(s) - 1) /\ m_pHead' = m_pHead /\ m_pTail' = m_pTail /\ pos' = pos
  BY <1>1 DEF Forward!InsertBefore, BothWays!InsertBefore
<1>3. index - 1 \in Nat /\ index - 1 < Len(s) /\ index \in Nat /\ index < Len(s) /\ index - 1 + 1 = index
  BY <1>1, <1>2
<1>4. /\ Forward!NodeAt(index - 1) = s[index - 1 + 1] /\ BothWays!NodeAt(index - 1) = s[index - 1 + 1]
      /\ Forward!NodeAt(index) = s[index + 1] /\ BothWays!NodeAt(index) = s[index + 1]
  <2> DEFINE i == index - 1
  <2>1. i \in Nat /\ i < Len(s)
    BY <1>3
  <2> HIDE DEF i
  <2>2. Forward!NodeAt(i) = s[i + 1] /\ BothWays!NodeAt(i) = s[i + 1]
    BY <2>1, NodeAtIs
  <2>3. Forward!NodeAt(index) = s[index + 1] /\ BothWays!NodeAt(index) = s[index + 1]
    BY <1>3, NodeAtIs
  <2> QED
    BY <2>2, <2>3 DEF i
<1>5. PICK n \in free : Forward!Linked(n, x, s[index], s[index + 1])
  <2>1. CASE Forward!InsertBefore(x, index)
    <3>1. \E n \in free : Forward!Linked(n, x, Forward!NodeAt(index - 1), Forward!NodeAt(index))
      BY <2>1 DEF Forward!InsertBefore
    <3> QED
      BY <1>3, <1>4, <3>1
  <2>2. CASE BothWays!InsertBefore(x, index)
    <3>1. \E n \in free : BothWays!Linked(n, x, BothWays!NodeAt(index - 1), BothWays!NodeAt(index))
      BY <2>2 DEF BothWays!InsertBefore
    <3> QED
      BY <1>3, <1>4, <3>1, SamePieces
  <2> QED
    BY <2>1, <2>2
<1>6. taken' = Null
  BY <1>5 DEF Forward!Linked
<1>7. /\ Rep(InsertAt(s, index + 1, n))' /\ ElementType'
      /\ BackRep(s) /\ pos' = pos => BackRep(InsertAt(s, index + 1, n))'
  BY <1>2, <1>5, InsertBeforeRight
<1> QED
  BY <1>2, <1>6, <1>7 DEF Onward

\* InsertpAfter keeps the next pointers right.
LEMMA InsertpAfterOnward ==
  ASSUME NEW s, Rep(s), ElementType, NEW x \in Element, NEW index, Forward!InsertpAfter(x, index)
  PROVE  OnwardAlone /\ taken' = Null
<1>1. Len(s) \in Nat /\ Forward!Nodes = s
  BY RepParts, ForwardNodes
<1>2. index \in 1..(Len(s) - 2) /\ m_pHead' = m_pHead /\ m_pTail' = m_pTail
  BY <1>1 DEF Forward!InsertpAfter
<1>3. index \in Nat /\ index < Len(s)
  BY <1>1, <1>2
<1>4. Forward!NodeAt(index) = s[index + 1]
  BY <1>3, NodeAtIs
<1>5. PICK n \in free :
        /\ free' = free \ {n} /\ pElement' = [pElement EXCEPT ![n] = x]
        /\ pNext' = [pNext EXCEPT ![n] = pNext[s[index + 1]], ![s[index + 1]] = n]
        /\ m_nCount' = m_nCount + 1 /\ taken' = Null
  BY <1>4 DEF Forward!InsertpAfter
<1>6. Rep(InsertAt(s, index + 2, n))' /\ ElementType'
  <2>1. pNext' = [pNext EXCEPT ![n] = pNext[s[index + 1]], ![s[index + 1]] = n]
    BY <1>5
  <2>2. free' = free \ {n} /\ pElement' = [pElement EXCEPT ![n] = x] /\ m_nCount' = m_nCount + 1
    BY <1>5
  <2> QED
    BY <1>2, <2>1, <2>2, InsertpAfterRight
<1> QED
  BY <1>5, <1>6 DEF OnwardAlone

\* DeleteAt drops the node it finds.
LEMMA DeleteAtOnward ==
  ASSUME NEW s, Rep(s), ElementType, NEW index \in Nat, Forward!DeleteAt(index)
  PROVE  \E k \in 1..Len(s) : Dropped(s, k)
<1>1. Len(s) \in Nat /\ m_nCount = Len(s) /\ index < Len(s) /\ Len(s) # 0
  BY RepParts DEF Forward!DeleteAt
<1>2. CASE index = 0
  <2>1. Forward!DropHead
    BY <1>2 DEF Forward!DeleteAt
  <2> QED
    BY <1>1, <2>1, DropHeadRight, HeadIsTail
<1>3. CASE index # 0 /\ index = m_nCount - 1
  <2>1. Forward!DropTail
    BY <1>3 DEF Forward!DeleteAt
  <2> QED
    BY <1>1, <2>1, DropTailRight, HeadIsTail
<1>4. CASE index # 0 /\ index # m_nCount - 1
  <2> DEFINE k == index + 2
  <2>1. /\ index + 1 \in Nat /\ index + 1 < Len(s) /\ index + 1 + 1 = k /\ k - 1 = index + 1
        /\ k \in 1..Len(s) /\ k # 1
    BY <1>1, <1>4
  <2>2. Forward!NodeAt(index) = s[index + 1]
    BY <1>1, NodeAtIs
  <2>3. Forward!NodeAt(index + 1) = s[k]
    <3> DEFINE i == index + 1
    <3>1. i \in Nat /\ i < Len(s)
      BY <2>1
    <3> HIDE DEF i, k
    <3>2. Forward!NodeAt(i) = s[i + 1]
      BY <3>1, NodeAtIs
    <3> QED
      BY <2>1, <3>2 DEF i
  <2>4. pNext[Forward!NodeAt(index + 1)] # Null
        /\ Forward!DropMiddle(Forward!NodeAt(index + 1), Forward!NodeAt(index))
    BY <1>4 DEF Forward!DeleteAt
  <2> HIDE DEF k
  <2>5. pNext[s[k]] # Null /\ Forward!DropMiddle(s[k], s[k - 1])
    BY <2>1, <2>2, <2>3, <2>4
  <2>6. k # Len(s)
    BY <2>1, <2>5, RepParts
  <2>7. Dropped(s, k)
    BY <2>1, <2>5, <2>6, DropMiddleRight
  <2> QED
    BY <2>1, <2>7
<1> QED
  BY <1>2, <1>3, <1>4

\* A list with a head or a tail has a node.
LEMMA SomeNode ==
  ASSUME NEW s, Rep(s), m_pHead # Null \/ m_pTail # Null
  PROVE  Len(s) # 0
BY RepParts

\* DeleteTail drops the last node.
LEMMA DeleteTailOnward ==
  ASSUME NEW s, Rep(s), ElementType, Forward!DeleteTail \/ BothWays!DeleteTail
  PROVE  /\ Len(s) \in 1..Len(s) /\ Dropped(s, Len(s))
         /\ BackRep(s) => BackRep(RemoveAt(s, Len(s)))'
<1>1. m_pTail # Null /\ pos # m_pTail /\ Forward!DropTail /\ pos' = pos
  BY SamePieces DEF Forward!DeleteTail, BothWays!DeleteTail
<1>2. Len(s) # 0
  BY <1>1, SomeNode
<1>3. Dropped(s, Len(s))
  BY <1>1, <1>2, DropTailRight
<1>4. Len(s) \in 1..Len(s) /\ m_pTail = s[Len(s)]
  BY <1>2, HeadIsTail
<1>5. ASSUME BackRep(s)
      PROVE  BackRep(RemoveAt(s, Len(s)))'
  <2>1. PrevClosed(pPrev, pPrev', s, Len(s))
    BY <1>1, <1>2, <1>5, DropTailBack
  <2>2. pos' = Null \/ (InSeq(s, pos') /\ pos' # s[Len(s)])
    BY <1>1, <1>4, <1>5, BackParts
  <2> QED
    BY <1>4, <1>5, <2>1, <2>2, DropBack
<1> QED
  BY <1>3, <1>4, <1>5

\* DeleteHead drops the first one.
LEMMA DeleteHeadOnward ==
  ASSUME NEW s, Rep(s), ElementType, BackRep(s), BothWays!DeleteHead
  PROVE  1 \in 1..Len(s) /\ Dropped(s, 1) /\ BackRep(RemoveAt(s, 1))'
<1>1. m_pHead # Null /\ pos # m_pHead /\ Forward!DropHead /\ pos' = pos
  BY SamePieces DEF BothWays!DeleteHead
<1>2. Len(s) # 0
  BY <1>1, SomeNode
<1>3. Dropped(s, 1)
  BY <1>1, <1>2, DropHeadRight
<1>4. 1 \in 1..Len(s) /\ m_pHead = s[1]
  BY <1>2, HeadIsTail
<1>5. PrevClosed(pPrev, pPrev', s, 1)
  BY <1>1, <1>2, DropHeadBack
<1>6. pos' = Null \/ (InSeq(s, pos') /\ pos' # s[1])
  BY <1>1, <1>4, BackParts
<1>7. BackRep(RemoveAt(s, 1))'
  BY <1>4, <1>5, <1>6, DropBack
<1> QED
  BY <1>3, <1>4, <1>7

\* The second place and the last but one, when there are two.
LEMMA SecondPlace ==
  ASSUME NEW n \in Nat, n # 0, n # 1
  PROVE  2 \in 1..n /\ n - 1 \in 1..n /\ n - 1 # n
OBVIOUS

\* DeletePos drops the node it is given and moves the position away from it.
LEMMA DeletePosOnward ==
  ASSUME NEW s, Rep(s), ElementType, BackRep(s), BothWays!DeletePos
  PROVE  \E k \in 1..Len(s) : Dropped(s, k) /\ BackRep(RemoveAt(s, k))'
<1>1. /\ s \in Seq(Node) /\ Distinct(s) /\ Len(s) \in Nat /\ \A i \in 1..Len(s) : s[i] \in Node
      /\ Null \notin Node /\ Forward!Nodes = s /\ BothWays!Nodes = s
  BY RepParts, ForwardNodes
<1>2. pos # Null /\ InSeq(s, pos)
  BY BackParts DEF BothWays!DeletePos
<1>3. Len(s) # 0
  BY <1>1, <1>2 DEF InSeq
<1>4. /\ m_pHead = s[1] /\ m_pTail = s[Len(s)] /\ 1 \in 1..Len(s) /\ Len(s) \in 1..Len(s)
      /\ m_pHead = m_pTail <=> Len(s) = 1
  BY <1>3, HeadIsTail
<1>5. CASE pos = m_pHead
  <2>1. Forward!DropHead /\ pos' = m_pHead'
    BY <1>2, <1>5, SamePieces DEF BothWays!DeletePos
  <2>2. Dropped(s, 1)
    BY <1>3, <2>1, DropHeadRight
  <2>3. PrevClosed(pPrev, pPrev', s, 1)
    BY <1>3, <2>1, DropHeadBack
  <2>4. pos' = IF Len(s) = 1 THEN Null ELSE s[2]
    BY <1>1, <1>4, <2>1, RepParts DEF Forward!DropHead
  <2>5. pos' = Null \/ (InSeq(s, pos') /\ pos' # s[1])
    <3>1. CASE Len(s) = 1
      BY <2>4, <3>1
    <3>2. CASE Len(s) # 1
      <4>1. 2 \in 1..Len(s)
        BY <1>1, <1>3, <3>2, SecondPlace
      <4> QED
        BY <1>1, <1>4, <2>4, <3>2, <4>1 DEF InSeq, Distinct
    <3> QED
      BY <3>1, <3>2
  <2>6. BackRep(RemoveAt(s, 1))'
    BY <1>4, <2>3, <2>5, DropBack
  <2> QED
    BY <1>4, <2>2, <2>6
<1>6. CASE pos # m_pHead /\ pos = m_pTail
  <2>1. Forward!DropTail /\ pos' = m_pTail'
    BY <1>2, <1>6, SamePieces DEF BothWays!DeletePos
  <2>2. Dropped(s, Len(s))
    BY <1>3, <2>1, DropTailRight
  <2>3. PrevClosed(pPrev, pPrev', s, Len(s))
    BY <1>3, <2>1, DropTailBack
  <2>4. Len(s) # 1 /\ m_pHead # m_pTail
    BY <1>4, <1>6
  <2>5. pos' = s[Len(s) - 1]
    BY <1>1, <2>1, <2>4 DEF Forward!DropTail
  <2>6. Len(s) - 1 \in 1..Len(s) /\ Len(s) - 1 # Len(s)
    BY <1>1, <1>3, <2>4, SecondPlace
  <2>7. InSeq(s, pos') /\ pos' # s[Len(s)]
    BY <1>1, <1>4, <2>5, <2>6 DEF InSeq, Distinct
  <2>8. BackRep(RemoveAt(s, Len(s)))'
    BY <1>4, <2>3, <2>7, DropBack
  <2> QED
    BY <1>4, <2>2, <2>8
<1>7. CASE pos # m_pHead /\ pos # m_pTail
  <2>1. \E i \in DOMAIN s : s[i] = pos /\ BothWays!DropMiddle(pos, s[i - 1]) /\ pos' = s[i - 1]
    BY <1>1, <1>2, <1>7 DEF BothWays!DeletePos
  <2>2. DOMAIN s = 1..Len(s)
    BY <1>1
  <2>3. PICK k \in 1..Len(s) : s[k] = pos /\ Forward!DropMiddle(s[k], s[k - 1]) /\ pos' = s[k - 1]
    BY <2>1, <2>2, SamePieces
  <2>4. k # 1 /\ k # Len(s)
    BY <1>4, <1>7, <2>3
  <2>5. Dropped(s, k)
    BY <2>3, <2>4, DropMiddleRight
  <2>6. PrevClosed(pPrev, pPrev', s, k)
    BY <2>3, <2>4, DropMiddleBack
  <2>7. k - 1 \in 1..Len(s) /\ k - 1 # k
    BY <1>1, <2>4
  <2>8. InSeq(s, pos') /\ pos' # s[k]
    BY <1>1, <2>3, <2>7 DEF InSeq, Distinct
  <2>9. BackRep(RemoveAt(s, k))'
    BY <2>6, <2>8, DropBack
  <2> QED
    BY <2>5, <2>9
<1> QED
  BY <1>5, <1>6, <1>7

-----------------------------------------------------------------------------
(* Its steps.                                                              *)

\* DeleteAll leaves an empty list.
LEMMA DeleteAllOnward ==
  ASSUME NEW s, Rep(s), BothWays!DeleteAll
  PROVE  \E t : Rep(t)' /\ ElementType' /\ BackRep(t)' /\ taken' = Null
<1>1. /\ s \in Seq(Node) /\ Len(s) \in Nat /\ free \subseteq Node
      /\ \A m \in Node : m \in free <=> ~InSeq(s, m)
      /\ \A i \in 1..Len(s) : s[i] \in Node
  BY NodesParts DEF Rep
<1>2. /\ m_pHead' = Null /\ m_pTail' = Null /\ m_nCount' = 0 /\ taken' = Null
      /\ pos' = Null
      /\ pNext' = [n \in Node |-> Null] /\ pPrev' = [n \in Node |-> Null]
      /\ pElement' = [n \in Node |-> Null]
      /\ free' = free \union BothWays!ToSet(s)
  BY ForwardNodes DEF BothWays!DeleteAll
<1>3. free' = Node
  <2>1. DOMAIN s = 1..Len(s)
    BY <1>1
  <2>2. \A x : x \in BothWays!ToSet(s) <=> InSeq(s, x)
    BY <2>1 DEF BothWays!ToSet, InSeq
  <2> QED
    BY <1>1, <1>2, <2>2 DEF InSeq
<1>4. pNext' \in [Node -> Node \union {Null}] /\ pPrev' \in [Node -> Node \union {Null}]
  BY <1>2
<1>5. NodesRep(pNext', Null, Null, 0, Node, << >>)
  <2> DEFINE next2 == pNext'
  <2>1. next2 \in [Node -> Node \union {Null}]
    BY <1>4
  <2> HIDE DEF next2
  <2>2. NodesRep(next2, Null, Null, 0, Node, << >>)
    BY <2>1, NodesEmpty
  <2> QED
    BY <2>2 DEF next2
<1>6. Rep(<< >>)'
  BY <1>2, <1>3, <1>5 DEF Rep
<1>7. PrevLinks(Null, pPrev', << >>)
  BY DEF PrevLinks
<1>8. BackRep(<< >>)' /\ ElementType'
  BY <1>2, <1>4, <1>7 DEF BackRep, ElementType
<1> QED
  BY <1>2, <1>6, <1>8

\* Moving a position changes no node and stays in the list.
LEMMA PositionsOnward ==
  ASSUME NEW s, Rep(s), ElementType, BackRep(s), BothWays!Positions
  PROVE  /\ Rep(s)' /\ ElementType' /\ BackRep(s)'
         /\ pNext' = pNext /\ m_pHead' = m_pHead /\ pElement' = pElement
<1>1. /\ Len(s) \in Nat /\ \A i \in 1..Len(s) : s[i] \in Node
      /\ m_pHead = (IF Len(s) = 0 THEN Null ELSE s[1])
      /\ m_pTail = (IF Len(s) = 0 THEN Null ELSE s[Len(s)])
      /\ \A i \in 1..Len(s) : pNext[s[i]] = IF i = Len(s) THEN Null ELSE s[i + 1]
  BY RepParts
<1>2. \A i \in 1..Len(s) : pPrev[s[i]] = IF i = 1 THEN Null ELSE s[i - 1]
  BY BackParts
<1>3. /\ pNext' = pNext /\ pPrev' = pPrev /\ pElement' = pElement /\ free' = free
      /\ m_pHead' = m_pHead /\ m_pTail' = m_pTail /\ m_nCount' = m_nCount
  BY DEF BothWays!Positions, BothWays!linkVars, BothWays!endVars
<1>4. pos = Null \/ InSeq(s, pos)
  BY BackParts
<1>5. \A i \in 1..Len(s) : InSeq(s, s[i])
  BY DEF InSeq
<1>6. Len(s) # 0 => 1 \in 1..Len(s) /\ Len(s) \in 1..Len(s)
  BY <1>1
<1>7. \A i \in 1..Len(s) : /\ i # Len(s) => i + 1 \in 1..Len(s)
                           /\ i # 1 => i - 1 \in 1..Len(s)
  BY <1>1
<1>11. pos' = Null \/ InSeq(s, pos')
  <2>1. \/ pos' \in {m_pHead, m_pTail}
        \/ \E i \in 0..Len(s) : pos' = BothWays!NodeAt(i)
        \/ pos # Null /\ pos' \in {pos, pNext[pos], pPrev[pos]}
    <3>1. BothWays!Nodes = s
      BY ForwardNodes
    <3> QED
      BY <3>1 DEF BothWays!Positions
  <2>2. CASE pos' \in {m_pHead, m_pTail}
    BY <1>1, <1>5, <1>6, <2>2
  <2>3. CASE \E i \in 0..Len(s) : pos' = BothWays!NodeAt(i)
    <3>1. PICK i \in 0..Len(s) : pos' = BothWays!NodeAt(i)
      BY <2>3
    <3>2. BothWays!NodeAt(i) = IF i < Len(s) THEN s[i + 1] ELSE Null
      BY ForwardNodes DEF BothWays!NodeAt
    <3>3. i < Len(s) => i + 1 \in 1..Len(s)
      BY <1>1
    <3> QED
      BY <1>5, <3>1, <3>2, <3>3
  <2>4. CASE pos # Null /\ pos' \in {pos, pNext[pos], pPrev[pos]}
    <3>1. PICK k \in 1..Len(s) : s[k] = pos
      BY <1>4, <2>4 DEF InSeq
    <3>2. pNext[pos] = Null \/ InSeq(s, pNext[pos])
      BY <1>1, <1>5, <1>7, <3>1
    <3>3. pPrev[pos] = Null \/ InSeq(s, pPrev[pos])
      BY <1>2, <1>5, <1>7, <3>1
    <3> QED
      BY <1>4, <2>4, <3>2, <3>3
  <2> QED
    BY <2>1, <2>2, <2>3, <2>4
<1> QED
  BY <1>3, <1>11 DEF Rep, BackRep, ElementType

\* Dropping a node keeps the next pointers right.
LEMMA DroppedOnward ==
  ASSUME NEW s, NEW k, Dropped(s, k)
  PROVE  Rep(RemoveAt(s, k))' /\ ElementType'
BY DEF Dropped

\* Every call of the forward instance keeps its part of the invariant and takes one element at most.
LEMMA ForwardStep ==
  ASSUME NEW s, Rep(s), ElementType, Forward!Next
  PROVE  OnwardAlone /\ Forward!TakesOne
<1>1. ASSUME NEW k \in 1..Len(s), Dropped(s, k)
      PROVE  OnwardAlone /\ Forward!TakesOne
  BY <1>1, TakesIt, DroppedOnward DEF OnwardAlone
<1>2. ASSUME Onward(s), taken' = Null
      PROVE  OnwardAlone /\ Forward!TakesOne
  BY <1>2, TakesNothing DEF Onward, OnwardAlone
<1>3. ~Forward!DeleteHead /\ ~Forward!DeletePos /\ ~Forward!DeleteAll /\ ~Forward!Positions
  BY DEF Forward!DeleteHead, Forward!DeletePos, Forward!DeleteAll, Forward!Positions, ForwardCalls
<1>4. CASE Forward!DeleteTail
  BY <1>1, <1>4, DeleteTailOnward
<1>5. ASSUME NEW x \in Element, Forward!AddHead(x) \/ Forward!AddTail(x)
      PROVE  OnwardAlone /\ Forward!TakesOne
  <2>1. Onward(s) /\ taken' = Null
    BY <1>5, AddHeadOnward, AddTailOnward
  <2> QED
    BY <1>2, <2>1
<1>6. ASSUME NEW x \in Element, NEW i, Forward!InsertBefore(x, i)
      PROVE  OnwardAlone /\ Forward!TakesOne
  <2>1. Onward(s) /\ taken' = Null
    BY <1>6, InsertBeforeOnward
  <2> QED
    BY <1>2, <2>1
<1>7. ASSUME NEW x \in Element, NEW i, Forward!InsertpAfter(x, i)
      PROVE  OnwardAlone /\ Forward!TakesOne
  <2>1. OnwardAlone /\ taken' = Null
    BY <1>7, InsertpAfterOnward
  <2> QED
    BY <2>1, TakesNothing
<1>8. ASSUME NEW i \in Nat, Forward!DeleteAt(i)
      PROVE  OnwardAlone /\ Forward!TakesOne
  BY <1>1, <1>8, DeleteAtOnward
<1>9. CASE \E i \in 0..Forward!Cardinality(Node) : Forward!DeleteAt(i)
  <2>1. PICK i \in 0..Forward!Cardinality(Node) : Forward!DeleteAt(i)
    BY <1>9
  <2>2. i \in Nat
    BY <2>1
  <2> QED
    BY <1>8, <2>1, <2>2
<1> QED
  BY <1>3, <1>4, <1>5, <1>6, <1>7, <1>9 DEF Forward!Next

\* The list is right from both ends.
BothOnward == \E t : Rep(t)' /\ ElementType' /\ BackRep(t)'

\* Every call of the other instance keeps it so.
LEMMA BothWaysStep ==
  ASSUME NEW s, Rep(s), ElementType, BackRep(s), BothWays!Next
  PROVE  BothOnward /\ Forward!TakesOne
<1>1. ASSUME NEW k \in 1..Len(s), Dropped(s, k), BackRep(RemoveAt(s, k))'
      PROVE  BothOnward /\ Forward!TakesOne
  BY <1>1, TakesIt, DroppedOnward DEF BothOnward
<1>2. ASSUME Onward(s), taken' = Null, pos' = pos
      PROVE  BothOnward /\ Forward!TakesOne
  BY <1>2, TakesNothing DEF Onward, BothOnward
<1>3. ASSUME NEW x, NEW i
      PROVE  ~BothWays!InsertpAfter(x, i) /\ ~BothWays!DeleteAt(i)
  BY DEF BothWays!InsertpAfter, BothWays!DeleteAt, BothWaysCalls
<1>4. CASE BothWays!DeleteHead
  BY <1>1, <1>4, DeleteHeadOnward
<1>5. CASE BothWays!DeleteTail
  BY <1>1, <1>5, DeleteTailOnward
<1>6. CASE BothWays!DeletePos
  BY <1>1, <1>6, DeletePosOnward
<1>7. CASE BothWays!DeleteAll
  <2>1. PICK t : Rep(t)' /\ ElementType' /\ BackRep(t)' /\ taken' = Null
    BY <1>7, DeleteAllOnward
  <2> QED
    BY <2>1, TakesNothing DEF BothOnward
<1>8. CASE BothWays!Positions
  <2>1. /\ Rep(s)' /\ ElementType' /\ BackRep(s)'
        /\ pNext' = pNext /\ m_pHead' = m_pHead /\ pElement' = pElement
    BY <1>8, PositionsOnward
  <2>2. Forward!TakesOne
    BY <2>1, NothingMoves
  <2> QED
    BY <2>1, <2>2 DEF BothOnward
<1>9. ASSUME NEW x \in Element, BothWays!AddHead(x) \/ BothWays!AddTail(x)
      PROVE  BothOnward /\ Forward!TakesOne
  <2>1. Onward(s) /\ taken' = Null /\ pos' = pos
    BY <1>9, AddHeadOnward, AddTailOnward
  <2> QED
    BY <1>2, <2>1
<1>10. ASSUME NEW x \in Element, NEW i, BothWays!InsertBefore(x, i)
       PROVE  BothOnward /\ Forward!TakesOne
  <2>1. Onward(s) /\ taken' = Null /\ pos' = pos
    BY <1>10, InsertBeforeOnward
  <2> QED
    BY <1>2, <2>1
<1> QED
  BY <1>3, <1>4, <1>5, <1>6, <1>7, <1>8, <1>9, <1>10 DEF BothWays!Next

\* The inductive invariant of CLinkedlist: there is a sequence that its nodes
\* represent; with the two calls that write no previous pointers, only forward.
NodesInv == \E s : Rep(s) /\ ElementType /\ (container # "nodes forward" => BackRep(s))

\* It holds at the start.
LEMMA NodesStart == Init => NodesInv
<1> SUFFICES ASSUME Init
             PROVE  NodesInv
  OBVIOUS
<1>1. /\ m_pHead = Null /\ m_pTail = Null /\ m_nCount = 0 /\ free = Node /\ pos = Null
      /\ pNext = [n \in Node |-> Null] /\ pPrev = [n \in Node |-> Null]
      /\ pElement = [n \in Node |-> Null]
  BY DEF Init, Forward!Init
<1>2. pNext \in [Node -> Node \union {Null}] /\ pPrev \in [Node -> Node \union {Null}] /\ ElementType
  BY <1>1 DEF ElementType
<1>3. NodesRep(pNext, Null, Null, 0, Node, << >>)
  BY <1>2, NodesEmpty
<1>4. Rep(<< >>)
  BY <1>1, <1>3 DEF Rep
<1>5. BackRep(<< >>)
  BY <1>1, <1>2 DEF BackRep, PrevLinks
<1> QED
  BY <1>2, <1>4, <1>5 DEF NodesInv

\* Every step keeps it, and takes one element out or none.
LEMMA NodesStep == NodesInv /\ [Next]_vars => NodesInv' /\ [Forward!TakesOne]_vars
<1> SUFFICES ASSUME NodesInv, [Next]_vars
             PROVE  NodesInv' /\ Forward!TakesOne
  OBVIOUS
<1>0. PICK s : Rep(s) /\ ElementType /\ (container # "nodes forward" => BackRep(s))
  BY DEF NodesInv
<1>1. CASE UNCHANGED <<container, nodeVars>>
  <2>1. UNCHANGED <<container, m_pHead, m_pTail, m_nCount, pNext, pPrev, pElement, free, pos, taken>>
    BY <1>1 DEF nodeVars
  <2>2. Rep(s)' /\ ElementType' /\ (container' # "nodes forward" => BackRep(s)')
    BY <1>0, <2>1 DEF Rep, ElementType, BackRep
  <2>3. Forward!TakesOne
    BY <1>0, <2>1, NothingMoves
  <2> QED
    BY <2>2, <2>3 DEF NodesInv
<1>2. CASE NodesNext
  <2>1. container' = container
    BY <1>2 DEF NodesNext
  <2>2. CASE container = "nodes forward" /\ Forward!Next
    <3>1. OnwardAlone /\ Forward!TakesOne
      BY <1>0, <2>2, ForwardStep
    <3> QED
      BY <2>1, <2>2, <3>1 DEF OnwardAlone, NodesInv
  <2>3. CASE container = "nodes both ways" /\ BothWays!Next
    <3>1. BothOnward /\ Forward!TakesOne
      BY <1>0, <2>3, BothWaysStep
    <3> QED
      BY <3>1 DEF BothOnward, NodesInv
  <2> QED
    BY <1>2, <2>2, <2>3 DEF NodesNext
<1>3. CASE LinkedNext \/ TableNext \/ UNCHANGED vars
  BY <1>1, <1>3 DEF LinkedNext, TableNext, vars
<1> QED
  BY <1>2, <1>3 DEF Next

\* It says what NodesRight asks.
LEMMA NodesInvRight == NodesInv => NodesRight
<1> SUFFICES ASSUME NodesInv
             PROVE  NodesRight
  OBVIOUS
<1>0. PICK s : Rep(s) /\ ElementType /\ (container # "nodes forward" => BackRep(s))
  BY DEF NodesInv
<1>1. /\ s \in Seq(Node) /\ Distinct(s) /\ Len(s) \in Nat /\ free \subseteq Node
      /\ \A m \in Node : m \in free <=> ~InSeq(s, m)
      /\ \A i \in 1..Len(s) : s[i] \in Node
      /\ m_nCount = Len(s) /\ m_pTail = LastOf(Null, s)
  BY <1>0, NodesParts DEF Rep
<1>2. Forward!Nodes = s /\ BothWays!Nodes = s
  BY <1>0, ForwardNodes
<1>3. DOMAIN s = 1..Len(s) /\ (s = << >> <=> Len(s) = 0)
  BY <1>1, EmptySeq
<1>4. \A x : /\ x \in Forward!ToSet(s) <=> InSeq(s, x)
             /\ x \in BothWays!ToSet(s) <=> InSeq(s, x)
  BY <1>3 DEF Forward!ToSet, BothWays!ToSet, InSeq
<1>5. Forward!ToSet(s) = Node \ free
  BY <1>1, <1>4 DEF InSeq
<1>6. m_pTail = IF s = << >> THEN Null ELSE Forward!Last(s)
  BY <1>1, <1>3 DEF LastOf, Forward!Last
<1>7. Forward!CountRight
  BY <1>1, <1>2, <1>5, <1>6 DEF Forward!CountRight
<1>8. ASSUME container = "nodes both ways"
      PROVE  BothWays!PrevRight /\ BothWays!PosInList
  <2>1. PrevLinks(Null, pPrev, s) /\ (pos = Null \/ InSeq(s, pos))
    BY <1>0, <1>8 DEF BackRep
  <2>2. Walk(Node, pPrev, m_pTail) = Reverse(s)
    BY <1>1, <2>1, WalkBackIs, NodeAssumption
  <2>3. BothWays!Walk(Node, pPrev, m_pTail) = Walk(Node, pPrev, m_pTail)
    BY DEF BothWays!Walk, Walk, BothWays!Cardinality, Cardinality
  <2>4. BothWays!Reverse(s) = Reverse(s)
    BY DEF BothWays!Reverse, Reverse
  <2> QED
    BY <1>2, <1>4, <2>1, <2>2, <2>3, <2>4 DEF BothWays!PrevRight, BothWays!PosInList
<1> QED
  BY <1>7, <1>8 DEF NodesRight

\* For any nodes and elements: CLinkedlist is the same from both ends without the
\* two calls that forget the previous pointers, a position points into it, and with
\* them it still keeps its count, its tail and its pool (Linkedlist.h:52-216,
\* 259-367).
THEOREM NodesAreRight == Spec => []NodesRight
<1>1. NodesInv /\ [Next]_vars => NodesInv'
  BY NodesStep
<1> QED
  BY <1>1, NodesStart, NodesInvRight, PTL DEF Spec

\* For any nodes and elements: every call takes out one element at most, the one it
\* hands over, and leaves the others in their order (Linkedlist.h:75-162, 294-367).
THEOREM DeletionTakesOne == Spec => [][Forward!TakesOne]_vars
<1>1. NodesInv /\ [Next]_vars => NodesInv' /\ [Forward!TakesOne]_vars
  BY NodesStep
<1> QED
  BY <1>1, NodesStart, PTL DEF Spec

-----------------------------------------------------------------------------
(* The hash table: a chain and the list, in the same order.                *)

\* x comes before y.
Ahead(s, x, y) == \E p, q \in 1..Len(s) : p < q /\ s[p] = x /\ s[q] = y

\* What c orders, s orders the same way.
Ordered(c, s) == \A x, y : Ahead(c, x, y) => Ahead(s, x, y)

\* Ordered, by places.
LEMMA OrderedIs ==
  ASSUME NEW S, NEW c \in Seq(S), NEW s \in Seq(S), Ordered(c, s),
         NEW a \in 1..Len(c), NEW b \in 1..Len(c), a < b
  PROVE  \E p, q \in 1..Len(s) : p < q /\ s[p] = c[a] /\ s[q] = c[b]
<1>1. Ahead(c, c[a], c[b])
  BY DEF Ahead
<1>2. Ahead(s, c[a], c[b])
  BY <1>1 DEF Ordered
<1> QED
  BY <1>2 DEF Ahead

\* What is ahead is in the sequence.
LEMMA AheadIn ==
  ASSUME NEW s, NEW x, NEW y, Ahead(s, x, y)
  PROVE  InSeq(s, x) /\ InSeq(s, y)
BY DEF Ahead, InSeq

\* Append is an insertion at the end.
LEMMA AppendIs ==
  ASSUME NEW S, NEW s \in Seq(S), NEW x \in S
  PROVE  Append(s, x) = InsertAt(s, Len(s) + 1, x)
<1> DEFINE t == InsertAt(s, Len(s) + 1, x)
           u == Append(s, x)
<1>1. Len(s) \in Nat /\ Len(s) + 1 \in 1..(Len(s) + 1)
  BY LenProperties
<1>2. /\ t \in Seq(S) /\ Len(t) = Len(s) + 1
      /\ \A i \in 1..(Len(s) + 1) :
           t[i] = IF i < Len(s) + 1 THEN s[i] ELSE IF i = Len(s) + 1 THEN x ELSE s[i - 1]
  BY <1>1, InsertAtFacts
<1>3. /\ u \in Seq(S) /\ Len(u) = Len(s) + 1
      /\ \A i \in 1..Len(s) : u[i] = s[i]
      /\ u[Len(s) + 1] = x
  BY AppendProperties
<1> HIDE DEF t, u
<1>4. \A i \in 1..Len(u) : u[i] = t[i]
  <2>1. TAKE i \in 1..Len(u)
  <2>2. CASE i \in 1..Len(s)
    BY <1>1, <1>2, <1>3, <2>2
  <2>3. CASE i = Len(s) + 1
    BY <1>1, <1>2, <1>3, <2>3
  <2> QED
    BY <1>1, <1>3, <2>2, <2>3
<1>5. u = t
  BY <1>2, <1>3, <1>4, SeqEqual
<1> QED
  BY <1>5 DEF t, u

\* What is ahead of what after an entry is appended.
LEMMA AppendAhead ==
  ASSUME NEW S, NEW s \in Seq(S), NEW e \in S, NEW x, NEW y
  PROVE  Ahead(Append(s, e), x, y) <=> Ahead(s, x, y) \/ (InSeq(s, x) /\ y = e)
<1> DEFINE t == Append(s, e)
           n == Len(s)
<1>1. /\ n \in Nat /\ Len(t) = n + 1
      /\ \A i \in 1..n : t[i] = s[i]
      /\ t[n + 1] = e /\ n = Len(s)
  BY AppendProperties, LenProperties
<1> HIDE DEF t, n
<1>2. ASSUME Ahead(t, x, y)
      PROVE  Ahead(s, x, y) \/ (InSeq(s, x) /\ y = e)
  <2>1. PICK p, q \in 1..(n + 1) : p < q /\ t[p] = x /\ t[q] = y
    BY <1>1, <1>2 DEF Ahead
  <2>2. p \in 1..n
    BY <1>1, <2>1
  <2>3. CASE q = n + 1
    BY <1>1, <2>1, <2>2, <2>3 DEF InSeq
  <2>4. CASE q # n + 1
    <3>1. q \in 1..n
      BY <1>1, <2>4
    <3> QED
      BY <1>1, <2>1, <2>2, <3>1 DEF Ahead
  <2> QED
    BY <2>3, <2>4
<1>3. ASSUME Ahead(s, x, y)
      PROVE  Ahead(t, x, y)
  <2>1. PICK p, q \in 1..n : p < q /\ s[p] = x /\ s[q] = y
    BY <1>1, <1>3 DEF Ahead
  <2>2. p \in 1..(n + 1) /\ q \in 1..(n + 1)
    BY <1>1
  <2> QED
    BY <1>1, <2>1, <2>2 DEF Ahead
<1>4. ASSUME InSeq(s, x), y = e
      PROVE  Ahead(t, x, y)
  <2>1. PICK p \in 1..n : s[p] = x
    BY <1>1, <1>4 DEF InSeq
  <2>2. p \in 1..(n + 1) /\ n + 1 \in 1..(n + 1) /\ p < n + 1
    BY <1>1
  <2> QED
    BY <1>1, <1>4, <2>1, <2>2 DEF Ahead
<1> QED
  BY <1>2, <1>3, <1>4 DEF t

\* What is ahead of what after one is removed.
LEMMA RemoveAhead ==
  ASSUME NEW S, NEW s \in Seq(S), Distinct(s), NEW k \in 1..Len(s), NEW x, NEW y
  PROVE  Ahead(RemoveAt(s, k), x, y) <=> Ahead(s, x, y) /\ x # s[k] /\ y # s[k]
<1> DEFINE t == RemoveAt(s, k)
           To(i) == IF i < k THEN i ELSE i + 1
           n == Len(s)
<1>1. /\ n \in Nat /\ Len(t) = n - 1 /\ n = Len(s) /\ k \in 1..n
      /\ \A i \in 1..(n - 1) : t[i] = IF i < k THEN s[i] ELSE s[i + 1]
  BY RemoveAtFacts, LenProperties
<1>2. \A i \in 1..(n - 1) : To(i) \in 1..n /\ To(i) # k /\ t[i] = s[To(i)]
  BY <1>1
<1>3. \A i, j \in 1..(n - 1) : i < j <=> To(i) < To(j)
  BY <1>1
<1>4. \A j \in 1..n : j # k => \E i \in 1..(n - 1) : To(i) = j
  <2>1. ASSUME NEW j \in 1..n, j < k
        PROVE  j \in 1..(n - 1) /\ To(j) = j
    BY <1>1, <2>1
  <2>2. ASSUME NEW j \in 1..n, j > k
        PROVE  j - 1 \in 1..(n - 1) /\ To(j - 1) = j
    BY <1>1, <2>2
  <2>3. ASSUME NEW j \in 1..n, j # k
        PROVE  \E i \in 1..(n - 1) : To(i) = j
    <3>1. CASE j < k
      BY <2>1, <3>1
    <3>2. CASE j > k
      BY <2>2, <3>2
    <3> QED
      BY <1>1, <2>3, <3>1, <3>2
  <2> QED
    BY <2>3
<1> HIDE DEF t, To, n
<1>5. ASSUME Ahead(t, x, y)
      PROVE  Ahead(s, x, y) /\ x # s[k] /\ y # s[k]
  <2>1. PICK p, q \in 1..(n - 1) : p < q /\ t[p] = x /\ t[q] = y
    BY <1>1, <1>5 DEF Ahead
  <2>2. To(p) < To(q) /\ To(p) \in 1..n /\ To(q) \in 1..n /\ s[To(p)] = x /\ s[To(q)] = y
        /\ To(p) # k /\ To(q) # k
    BY <1>2, <1>3, <2>1
  <2> QED
    BY <1>1, <2>2 DEF Ahead, Distinct
<1>6. ASSUME Ahead(s, x, y), x # s[k], y # s[k]
      PROVE  Ahead(t, x, y)
  <2>1. PICK p, q \in 1..n : p < q /\ s[p] = x /\ s[q] = y
    BY <1>1, <1>6 DEF Ahead
  <2>2. p # k /\ q # k
    BY <1>6, <2>1
  <2>3. PICK i \in 1..(n - 1) : To(i) = p
    BY <1>4, <2>2
  <2>4. PICK j \in 1..(n - 1) : To(j) = q
    BY <1>4, <2>2
  <2>5. i < j /\ t[i] = x /\ t[j] = y
    BY <1>2, <1>3, <2>1, <2>3, <2>4
  <2> QED
    BY <1>1, <2>5 DEF Ahead
<1> QED
  BY <1>5, <1>6 DEF t

\* The next pointers after e is appended to s.
NextAppended(end, next, next2, s, e) ==
  /\ next2[e] = end
  /\ \A i \in 1..Len(s) : next2[s[i]] = IF i = Len(s) THEN e ELSE next[s[i]]

\* The previous pointers after e is appended to s.
PrevAppended(end, prev, prev2, s, e) ==
  /\ prev2[e] = LastOf(end, s)
  /\ \A i \in 1..Len(s) : prev2[s[i]] = prev[s[i]]

\* The ends and the members after it.
LEMMA AppendEnds ==
  ASSUME NEW S, NEW s \in Seq(S), NEW e \in S, NEW end
  PROVE  /\ Append(s, e) \in Seq(S) /\ Len(Append(s, e)) = Len(s) + 1
         /\ FirstOf(end, Append(s, e)) = IF Len(s) = 0 THEN e ELSE FirstOf(end, s)
         /\ LastOf(end, Append(s, e)) = e
         /\ \A y : InSeq(Append(s, e), y) <=> y = e \/ InSeq(s, y)
<1> DEFINE k == Len(s) + 1
<1>1. Len(s) \in Nat /\ k \in 1..(Len(s) + 1) /\ k = Len(s) + 1 /\ (k = 1 <=> Len(s) = 0)
  BY LenProperties
<1>2. Append(s, e) = InsertAt(s, k, e)
  BY AppendIs
<1> HIDE DEF k
<1>3. InsertAt(s, k, e) \in Seq(S) /\ Len(InsertAt(s, k, e)) = Len(s) + 1
  BY <1>1, InsertAtFacts
<1>4. /\ FirstOf(end, InsertAt(s, k, e)) = IF k = 1 THEN e ELSE FirstOf(end, s)
      /\ LastOf(end, InsertAt(s, k, e)) = IF k = Len(s) + 1 THEN e ELSE LastOf(end, s)
  BY <1>1, InsertEnds
<1>5. \A y : InSeq(InsertAt(s, k, e), y) <=> y = e \/ InSeq(s, y)
  BY <1>1, InsertInSeq
<1> QED
  BY <1>1, <1>2, <1>3, <1>4, <1>5

\* The next pointers are those of the longer sequence.
LEMMA AppendNext ==
  ASSUME NEW S, NEW s \in Seq(S), NEW e \in S, NEW end,
         NEW next, NEW next2, NextLinks(end, next, s), NextAppended(end, next, next2, s, e)
  PROVE  NextLinks(end, next2, Append(s, e))
<1> DEFINE k == Len(s) + 1
<1>1. Len(s) \in Nat /\ k \in 1..(Len(s) + 1) /\ k = Len(s) + 1 /\ (k > 1 <=> Len(s) # 0) /\ k - 1 = Len(s)
  BY LenProperties
<1>2. Append(s, e) = InsertAt(s, k, e)
  BY AppendIs
<1> HIDE DEF k
<1>3. next2[e] = IF k = Len(s) + 1 THEN end ELSE s[k]
  BY <1>1 DEF NextAppended
<1>4. k > 1 => next2[s[k - 1]] = e
  <2>1. ASSUME Len(s) # 0
        PROVE  Len(s) \in 1..Len(s)
    BY <1>1, <2>1
  <2> QED
    BY <1>1, <2>1 DEF NextAppended
<1>5. \A i \in 1..Len(s) : i # k - 1 => next2[s[i]] = next[s[i]]
  BY <1>1 DEF NextAppended
<1>6. NextLinks(end, next2, InsertAt(s, k, e))
  BY <1>1, <1>3, <1>4, <1>5, InsertNext
<1> QED
  BY <1>2, <1>6

\* So are the previous ones.
LEMMA AppendPrev ==
  ASSUME NEW S, NEW s \in Seq(S), NEW e \in S, NEW end,
         NEW prev, NEW prev2, PrevLinks(end, prev, s), PrevAppended(end, prev, prev2, s, e)
  PROVE  PrevLinks(end, prev2, Append(s, e))
<1> DEFINE k == Len(s) + 1
<1>1. Len(s) \in Nat /\ k \in 1..(Len(s) + 1) /\ k - 1 = Len(s) /\ ~(k <= Len(s)) /\ (k = 1 <=> Len(s) = 0)
  BY LenProperties
<1>2. Append(s, e) = InsertAt(s, k, e)
  BY AppendIs
<1> HIDE DEF k
<1>3. prev2[e] = IF k = 1 THEN end ELSE s[k - 1]
  BY <1>1 DEF PrevAppended, LastOf
<1>4. k <= Len(s) => prev2[s[k]] = e
  BY <1>1
<1>5. \A i \in 1..Len(s) : i # k => prev2[s[i]] = prev[s[i]]
  BY DEF PrevAppended
<1>6. PrevLinks(end, prev2, InsertAt(s, k, e))
  BY <1>1, <1>3, <1>4, <1>5, InsertPrev
<1> QED
  BY <1>2, <1>6

\* Appending something new repeats nothing.
LEMMA AppendDistinct ==
  ASSUME NEW S, NEW s \in Seq(S), Distinct(s), NEW e \in S, ~InSeq(s, e)
  PROVE  Distinct(Append(s, e))
<1> DEFINE k == Len(s) + 1
<1>1. Len(s) \in Nat /\ k \in 1..(Len(s) + 1)
  BY LenProperties
<1>2. Append(s, e) = InsertAt(s, k, e)
  BY AppendIs
<1> HIDE DEF k
<1>3. Distinct(InsertAt(s, k, e))
  BY <1>1, InsertDistinct
<1> QED
  BY <1>2, <1>3

\* The next pointers after e left: the one before it skips it.
NextLeft(S, next, prev, next2, e) ==
  \A x \in S : next2[x] = IF x = prev[e] THEN next[e] ELSE next[x]

\* The previous pointers after e left.
PrevLeft(S, next, prev, prev2, e) ==
  \A x \in S : prev2[x] = IF x = next[e] THEN prev[e] ELSE prev[x]

\* The neighbours of an element, by its pointers.
LEMMA Neighbours ==
  ASSUME NEW S, NEW s \in Seq(S), Distinct(s), NEW end, end \notin S, NEW k \in 1..Len(s),
         NEW next, NextLinks(end, next, s), NEW prev, PrevLinks(end, prev, s)
  PROVE  /\ next[s[k]] = end <=> k = Len(s)
         /\ next[s[k]] # end => InSeq(s, next[s[k]]) /\ next[s[k]] # s[k]
         /\ prev[s[k]] = end <=> k = 1
         /\ prev[s[k]] # end => InSeq(s, prev[s[k]]) /\ prev[s[k]] # s[k]
<1>1. Len(s) \in Nat /\ \A i \in 1..Len(s) : s[i] \in S /\ s[i] # end
  BY LenProperties, ElementOfSeq
<1>2. next[s[k]] = IF k = Len(s) THEN end ELSE s[k + 1]
  BY DEF NextLinks
<1>3. prev[s[k]] = IF k = 1 THEN end ELSE s[k - 1]
  BY DEF PrevLinks
<1>4. ASSUME k # Len(s)
      PROVE  k + 1 \in 1..Len(s) /\ k + 1 # k
  BY <1>1, <1>4
<1>5. ASSUME k # 1
      PROVE  k - 1 \in 1..Len(s) /\ k - 1 # k
  BY <1>1, <1>5
<1>6. ASSUME k # Len(s)
      PROVE  s[k + 1] # end /\ InSeq(s, s[k + 1]) /\ s[k + 1] # s[k]
  BY <1>1, <1>4, <1>6 DEF InSeq, Distinct
<1>7. ASSUME k # 1
      PROVE  s[k - 1] # end /\ InSeq(s, s[k - 1]) /\ s[k - 1] # s[k]
  BY <1>1, <1>5, <1>7 DEF InSeq, Distinct
<1> QED
  BY <1>2, <1>3, <1>6, <1>7

\* The ends after the entry at place k left.
EndsLeft(end, next, prev, s, k) ==
  /\ FirstOf(end, RemoveAt(s, k)) = IF prev[s[k]] = end THEN next[s[k]] ELSE FirstOf(end, s)
  /\ LastOf(end, RemoveAt(s, k)) = IF next[s[k]] = end THEN prev[s[k]] ELSE LastOf(end, s)

\* NextLeft, by places.
NextShut(next, next2, s, k) ==
  /\ k > 1 => next2[s[k - 1]] = next[s[k]]
  /\ \A i \in 1..Len(s) : i # k - 1 /\ i # k => next2[s[i]] = next[s[i]]

\* PrevLeft, by places.
PrevShut(prev, prev2, s, k) ==
  /\ k < Len(s) => prev2[s[k + 1]] = prev[s[k]]
  /\ \A i \in 1..Len(s) : i # k + 1 /\ i # k => prev2[s[i]] = prev[s[i]]

\* The pointers after a removal are those of the shorter sequence.
LEMMA ShutLinks ==
  ASSUME NEW S, NEW s \in Seq(S), NEW k \in 1..Len(s), NEW end,
         NEW next, NEW next2, NextLinks(end, next, s), NextShut(next, next2, s, k),
         NEW prev, NEW prev2, PrevLinks(end, prev, s), PrevShut(prev, prev2, s, k)
  PROVE  NextLinks(end, next2, RemoveAt(s, k)) /\ PrevLinks(end, prev2, RemoveAt(s, k))
<1>1. /\ k > 1 => next2[s[k - 1]] = next[s[k]]
      /\ \A i \in 1..Len(s) : i # k - 1 /\ i # k => next2[s[i]] = next[s[i]]
  BY DEF NextShut
<1>2. /\ k < Len(s) => prev2[s[k + 1]] = prev[s[k]]
      /\ \A i \in 1..Len(s) : i # k + 1 /\ i # k => prev2[s[i]] = prev[s[i]]
  BY DEF PrevShut
<1>3. NextLinks(end, next2, RemoveAt(s, k))
  BY <1>1, RemoveNext
<1>4. PrevLinks(end, prev2, RemoveAt(s, k))
  BY <1>2, RemovePrev
<1> QED
  BY <1>3, <1>4

\* The same, from what the code writes.
LEMMA LeaveLinks ==
  ASSUME NEW S, NEW s \in Seq(S), Distinct(s), NEW end, end \notin S, NEW k \in 1..Len(s),
         NEW next, NextLinks(end, next, s), NEW prev, PrevLinks(end, prev, s),
         NEW next2, NextLeft(S, next, prev, next2, s[k]),
         NEW prev2, PrevLeft(S, next, prev, prev2, s[k])
  PROVE  /\ NextLinks(end, next2, RemoveAt(s, k)) /\ PrevLinks(end, prev2, RemoveAt(s, k))
         /\ EndsLeft(end, next, prev, s, k)
<1>1. Len(s) \in Nat /\ \A i \in 1..Len(s) : s[i] \in S /\ s[i] # end
  BY LenProperties, ElementOfSeq
<1>2. next[s[k]] = IF k = Len(s) THEN end ELSE s[k + 1]
  BY DEF NextLinks
<1>3. prev[s[k]] = IF k = 1 THEN end ELSE s[k - 1]
  BY DEF PrevLinks
<1>4. ASSUME k # Len(s)
      PROVE  k + 1 \in 1..Len(s)
  BY <1>1, <1>4
<1>5. ASSUME k # 1
      PROVE  k - 1 \in 1..Len(s)
  BY <1>1, <1>5
<1>6. k > 1 => next2[s[k - 1]] = next[s[k]]
  <2>1. ASSUME k # 1
        PROVE  s[k - 1] \in S /\ s[k - 1] = prev[s[k]]
    BY <1>1, <1>3, <1>5, <2>1
  <2> QED
    BY <2>1 DEF NextLeft
<1>7. \A i \in 1..Len(s) : i # k - 1 /\ i # k => next2[s[i]] = next[s[i]]
  <2>1. TAKE i \in 1..Len(s)
  <2>2. HAVE i # k - 1 /\ i # k
  <2>3. s[i] \in S /\ s[i] # prev[s[k]]
    BY <1>1, <1>3, <1>5, <2>2 DEF Distinct
  <2> QED
    BY <2>3 DEF NextLeft
<1>8. k < Len(s) => prev2[s[k + 1]] = prev[s[k]]
  <2>1. ASSUME k # Len(s)
        PROVE  s[k + 1] \in S /\ s[k + 1] = next[s[k]]
    BY <1>1, <1>2, <1>4, <2>1
  <2> QED
    BY <2>1 DEF PrevLeft
<1>9. \A i \in 1..Len(s) : i # k + 1 /\ i # k => prev2[s[i]] = prev[s[i]]
  <2>1. TAKE i \in 1..Len(s)
  <2>2. HAVE i # k + 1 /\ i # k
  <2>3. s[i] \in S /\ s[i] # next[s[k]]
    BY <1>1, <1>2, <1>4, <2>2 DEF Distinct
  <2> QED
    BY <2>3 DEF PrevLeft
<1>10. NextShut(next, next2, s, k) /\ PrevShut(prev, prev2, s, k)
  BY <1>6, <1>7, <1>8, <1>9 DEF NextShut, PrevShut
<1>11. NextLinks(end, next2, RemoveAt(s, k)) /\ PrevLinks(end, prev2, RemoveAt(s, k))
  BY <1>10, ShutLinks
<1>12. FirstOf(end, s) = s[1] /\ LastOf(end, s) = s[Len(s)]
  BY <1>1 DEF FirstOf, LastOf
<1>13. (next[s[k]] = end <=> k = Len(s)) /\ (prev[s[k]] = end <=> k = 1)
  BY Neighbours
<1>14. /\ FirstOf(end, RemoveAt(s, k)) =
            IF k # 1 THEN s[1] ELSE IF Len(s) = 1 THEN end ELSE s[2]
       /\ LastOf(end, RemoveAt(s, k)) =
            IF k # Len(s) THEN s[Len(s)] ELSE IF Len(s) = 1 THEN end ELSE s[Len(s) - 1]
  BY RemoveEnds
<1>15. FirstOf(end, RemoveAt(s, k)) = IF prev[s[k]] = end THEN next[s[k]] ELSE FirstOf(end, s)
  <2>1. CASE k # 1
    BY <1>12, <1>13, <1>14, <2>1
  <2>2. CASE k = 1
    <3>1. next[s[k]] = IF Len(s) = 1 THEN end ELSE s[2]
      BY <1>2, <2>2
    <3> QED
      BY <1>13, <1>14, <2>2, <3>1
  <2> QED
    BY <2>1, <2>2
<1>16. LastOf(end, RemoveAt(s, k)) = IF next[s[k]] = end THEN prev[s[k]] ELSE LastOf(end, s)
  BY <1>3, <1>12, <1>13, <1>14
<1> QED
  BY <1>11, <1>15, <1>16 DEF EndsLeft

\* A chain whose pointers nobody wrote is still one.
LEMMA OtherLinks ==
  ASSUME NEW S, NEW r \in Seq(S), NEW end,
         NEW next, NEW next2, NextLinks(end, next, r), \A i \in 1..Len(r) : next2[r[i]] = next[r[i]],
         NEW prev, NEW prev2, PrevLinks(end, prev, r), \A i \in 1..Len(r) : prev2[r[i]] = prev[r[i]]
  PROVE  NextLinks(end, next2, r) /\ PrevLinks(end, prev2, r)
BY DEF NextLinks, PrevLinks

\* The pointers both ways and the head are those of s.
Chained(E, null, next, prev, head, s) ==
  /\ s \in Seq(E) /\ Distinct(s) /\ head = FirstOf(null, s)
  /\ NextLinks(null, next, s) /\ PrevLinks(null, prev, s)

\* What Chained says.
LEMMA ChainedParts ==
  ASSUME NEW E, NEW null, NEW next, NEW prev, NEW head, NEW s,
         Chained(E, null, next, prev, head, s)
  PROVE  /\ s \in Seq(E) /\ Distinct(s) /\ head = FirstOf(null, s)
         /\ NextLinks(null, next, s) /\ PrevLinks(null, prev, s)
         /\ Len(s) \in Nat /\ \A i \in 1..Len(s) : s[i] \in E
BY LenProperties, ElementOfSeq DEF Chained

\* Walking a chain either way gives its sequence.
LEMMA ChainedWalks ==
  ASSUME NEW E, IsFiniteSet(E), NEW null, null \notin E, NEW next, NEW prev, NEW head, NEW s,
         Chained(E, null, next, prev, head, s)
  PROVE  Walk(E, next, head) = s /\ Walk(E, prev, LastOf(null, s)) = Reverse(s)
<1>1. /\ s \in Seq(E) /\ Distinct(s) /\ head = FirstOf(null, s)
      /\ NextLinks(null, next, s) /\ PrevLinks(null, prev, s)
  BY DEF Chained
<1>2. Walk(E, next, head) = s
  BY <1>1, WalkIs
<1> DEFINE t == LastOf(null, s)
<1>3. t = LastOf(null, s)
  OBVIOUS
<1> HIDE DEF t
<1>4. Walk(E, prev, t) = Reverse(s)
  BY <1>1, <1>3, WalkBackIs
<1> QED
  BY <1>2, <1>3, <1>4

\* Walking on from an entry stays in the chain.
LEMMA ChainedFrom ==
  ASSUME NEW E, IsFiniteSet(E), NEW null, null \notin E, NEW next, NEW prev, NEW head, NEW s,
         Chained(E, null, next, prev, head, s), NEW k \in 1..Len(s)
  PROVE  \E t \in Seq(E) : /\ Walk(E, next, s[k]) = t
                           /\ \A i \in 1..Len(t) : InSeq(s, t[i])
<1>1. s \in Seq(E) /\ Distinct(s) /\ NextLinks(null, next, s) /\ Len(s) \in Nat
  BY ChainedParts
<1> DEFINE t == SubSeq(s, k, Len(s))
<1>2. /\ t \in Seq(E) /\ Distinct(t) /\ NextLinks(null, next, t) /\ FirstOf(null, t) = s[k]
      /\ Len(t) = Len(s) - k + 1
      /\ \A i \in 1..Len(t) : t[i] = s[k + i - 1]
  BY <1>1, SuffixNext
<1>3. \A i \in 1..Len(t) : k + i - 1 \in 1..Len(s)
  BY <1>1, <1>2
<1> HIDE DEF t
<1> DEFINE h == s[k]
<1>4. h = FirstOf(null, t)
  BY <1>2
<1> HIDE DEF h
<1>5. Walk(E, next, h) = t
  BY <1>2, <1>4, WalkIs
<1>6. \A i \in 1..Len(t) : InSeq(s, t[i])
  BY <1>2, <1>3 DEF InSeq
<1> QED
  BY <1>2, <1>5, <1>6 DEF h

\* An entry is appended to a chain.
LEMMA ChainedAppend ==
  ASSUME NEW E, NEW null, NEW next, NEW prev, NEW head, NEW s,
         Chained(E, null, next, prev, head, s),
         NEW e \in E, ~InSeq(s, e),
         NEW next2, NextAppended(null, next, next2, s, e),
         NEW prev2, PrevAppended(null, prev, prev2, s, e),
         NEW head2, head2 = IF Len(s) = 0 THEN e ELSE head
  PROVE  Chained(E, null, next2, prev2, head2, Append(s, e))
<1>1. /\ s \in Seq(E) /\ Distinct(s) /\ head = FirstOf(null, s)
      /\ NextLinks(null, next, s) /\ PrevLinks(null, prev, s)
  BY DEF Chained
<1>2. NextLinks(null, next2, Append(s, e))
  BY <1>1, AppendNext
<1>3. PrevLinks(null, prev2, Append(s, e))
  BY <1>1, AppendPrev
<1>4. Distinct(Append(s, e))
  BY <1>1, AppendDistinct
<1>5. Append(s, e) \in Seq(E) /\ FirstOf(null, Append(s, e)) = IF Len(s) = 0 THEN e ELSE FirstOf(null, s)
  BY <1>1, AppendEnds
<1> QED
  BY <1>1, <1>2, <1>3, <1>4, <1>5 DEF Chained

\* An entry is taken out of a chain.
LEMMA ChainedRemove ==
  ASSUME NEW E, NEW null, null \notin E, NEW next, NEW prev, NEW head, NEW s,
         Chained(E, null, next, prev, head, s), NEW k \in 1..Len(s),
         NEW next2, NextLeft(E, next, prev, next2, s[k]),
         NEW prev2, PrevLeft(E, next, prev, prev2, s[k]),
         NEW head2, head2 = IF prev[s[k]] = null THEN next[s[k]] ELSE head
  PROVE  /\ Chained(E, null, next2, prev2, head2, RemoveAt(s, k))
         /\ EndsLeft(null, next, prev, s, k)
<1>1. /\ s \in Seq(E) /\ Distinct(s) /\ head = FirstOf(null, s)
      /\ NextLinks(null, next, s) /\ PrevLinks(null, prev, s)
  BY DEF Chained
<1>2. NextLinks(null, next2, RemoveAt(s, k)) /\ PrevLinks(null, prev2, RemoveAt(s, k))
  BY <1>1, LeaveLinks
<1>2a. EndsLeft(null, next, prev, s, k)
  BY <1>1, LeaveLinks
<1>3. RemoveAt(s, k) \in Seq(E)
  BY <1>1, RemoveAtFacts
<1>4. Distinct(RemoveAt(s, k))
  BY <1>1, RemoveDistinct
<1> QED
  BY <1>1, <1>2, <1>2a, <1>3, <1>4 DEF Chained, EndsLeft

\* A chain whose pointers nobody wrote is still one.
LEMMA ChainedOther ==
  ASSUME NEW E, NEW null, NEW next, NEW prev, NEW head, NEW r,
         Chained(E, null, next, prev, head, r),
         NEW next2, \A i \in 1..Len(r) : next2[r[i]] = next[r[i]],
         NEW prev2, \A i \in 1..Len(r) : prev2[r[i]] = prev[r[i]]
  PROVE  Chained(E, null, next2, prev2, head, r)
BY DEF Chained, NextLinks, PrevLinks

\* The neighbours of an entry are in its chain.
LEMMA ChainedNeighbours ==
  ASSUME NEW E, NEW null, null \notin E, NEW next, NEW prev, NEW head, NEW s,
         Chained(E, null, next, prev, head, s), NEW e, InSeq(s, e)
  PROVE  /\ next[e] = null \/ (InSeq(s, next[e]) /\ next[e] # e)
         /\ prev[e] = null \/ (InSeq(s, prev[e]) /\ prev[e] # e)
<1>1. s \in Seq(E) /\ Distinct(s) /\ NextLinks(null, next, s) /\ PrevLinks(null, prev, s)
  BY DEF Chained
<1>2. PICK k \in 1..Len(s) : s[k] = e
  BY DEF InSeq
<1>3. /\ next[s[k]] # null => InSeq(s, next[s[k]]) /\ next[s[k]] # s[k]
      /\ prev[s[k]] # null => InSeq(s, prev[s[k]]) /\ prev[s[k]] # s[k]
  BY <1>1, Neighbours
<1> QED
  BY <1>2, <1>3

\* The first of s with key k, or NULL.
First(null, key, s, k) ==
  IF \A i \in DOMAIN s : key[s[i]] # k THEN null
  ELSE s[CHOOSE i \in DOMAIN s : key[s[i]] = k /\ \A j \in 1..(i - 1) : key[s[j]] # k]

\* What First finds.
LEMMA FirstIs ==
  ASSUME NEW E, NEW null, NEW key, NEW k, NEW s \in Seq(E)
  PROVE  \/ First(null, key, s, k) = null /\ \A i \in 1..Len(s) : key[s[i]] # k
         \/ \E i \in 1..Len(s) : /\ First(null, key, s, k) = s[i] /\ key[s[i]] = k
                                 /\ \A j \in 1..Len(s) : j < i => key[s[j]] # k
<1>1. Len(s) \in Nat /\ DOMAIN s = 1..Len(s)
  BY LenProperties
<1>2. CASE \A i \in 1..Len(s) : key[s[i]] # k
  BY <1>1, <1>2 DEF First
<1>3. CASE \E i \in 1..Len(s) : key[s[i]] = k
  <2> DEFINE T == {i \in 1..Len(s) : key[s[i]] = k}
             Is(i) == key[s[i]] = k /\ \A j \in 1..(i - 1) : key[s[j]] # k
  <2>1. T \subseteq Nat /\ T # {}
    BY <1>1, <1>3
  <2>2. PICK n \in T : \A m \in T : n <= m
    <3> HIDE DEF T
    <3> QED
      BY <2>1, LeastNat
  <2>3. n \in 1..Len(s) /\ key[s[n]] = k
    OBVIOUS
  <2>4. \A j \in 1..(n - 1) : j \in 1..Len(s) /\ ~(n <= j)
    BY <1>1, <2>3
  <2>5. \A j \in 1..(n - 1) : key[s[j]] # k
    BY <2>2, <2>4
  <2>6. \E i \in DOMAIN s : Is(i)
    BY <1>1, <2>3, <2>5
  <2>7. PICK i : i = CHOOSE x \in DOMAIN s : Is(x)
    OBVIOUS
  <2>8. i \in 1..Len(s) /\ key[s[i]] = k /\ \A j \in 1..(i - 1) : key[s[j]] # k
    BY <1>1, <2>6, <2>7
  <2>9. First(null, key, s, k) = s[i]
    BY <1>1, <1>3, <2>7 DEF First
  <2>10. \A j \in 1..Len(s) : j < i => j \in 1..(i - 1)
    BY <1>1, <2>8
  <2> QED
    BY <2>8, <2>9, <2>10
<1> QED
  BY <1>2, <1>3

\* A part that keeps the order and all entries with the key has the same first one.
LEMMA FirstOfPart ==
  ASSUME NEW E, NEW null, NEW key, NEW k, NEW s \in Seq(E), Distinct(s), NEW c \in Seq(E),
         Ordered(c, s), \A x : InSeq(c, x) => InSeq(s, x),
         \A x : InSeq(s, x) /\ key[x] = k => InSeq(c, x)
  PROVE  First(null, key, c, k) = First(null, key, s, k)
<1>1. Len(s) \in Nat /\ Len(c) \in Nat
  BY LenProperties
<1>2. CASE \A i \in 1..Len(s) : key[s[i]] # k
  <2>1. ~\E i \in 1..Len(s) : /\ First(null, key, s, k) = s[i] /\ key[s[i]] = k
                              /\ \A j \in 1..Len(s) : j < i => key[s[j]] # k
    BY <1>2
  <2>2. First(null, key, s, k) = null
    BY <2>1, FirstIs
  <2>3. \A i \in 1..Len(c) : key[c[i]] # k
    BY <1>2 DEF InSeq
  <2>4. ~\E i \in 1..Len(c) : /\ First(null, key, c, k) = c[i] /\ key[c[i]] = k
                              /\ \A j \in 1..Len(c) : j < i => key[c[j]] # k
    BY <2>3
  <2>5. First(null, key, c, k) = null
    BY <2>4, FirstIs
  <2> QED
    BY <2>2, <2>5
<1>3. CASE \E i \in 1..Len(s) : key[s[i]] = k
  <2>1. PICK p \in 1..Len(s) : /\ First(null, key, s, k) = s[p] /\ key[s[p]] = k
                               /\ \A j \in 1..Len(s) : j < p => key[s[j]] # k
    BY <1>3, FirstIs
  <2>2. InSeq(s, s[p])
    BY DEF InSeq
  <2>3. PICK b \in 1..Len(c) : c[b] = s[p]
    BY <2>1, <2>2 DEF InSeq
  <2>4. ~\A i \in 1..Len(c) : key[c[i]] # k
    BY <2>1, <2>3
  <2>5. PICK a \in 1..Len(c) : /\ First(null, key, c, k) = c[a] /\ key[c[a]] = k
                               /\ \A j \in 1..Len(c) : j < a => key[c[j]] # k
    BY <2>4, FirstIs
  <2>6. ~(b < a)
    BY <2>1, <2>3, <2>5
  <2>7. ASSUME a < b
        PROVE  FALSE
    <3>1. Ahead(c, c[a], c[b])
      BY <2>7 DEF Ahead
    <3>2. Ahead(s, c[a], s[p])
      BY <2>3, <3>1 DEF Ordered
    <3>3. PICK x, y \in 1..Len(s) : x < y /\ s[x] = c[a] /\ s[y] = s[p]
      BY <3>2 DEF Ahead
    <3>4. y = p
      BY <3>3 DEF Distinct
    <3> QED
      BY <2>1, <2>5, <3>3, <3>4
  <2>8. a = b
    BY <1>1, <2>6, <2>7
  <2> QED
    BY <2>1, <2>3, <2>5, <2>8
<1> QED
  BY <1>2, <1>3

\* Appending to both keeps the order.
LEMMA OrderedAppend ==
  ASSUME NEW E, NEW s \in Seq(E), NEW c \in Seq(E), Ordered(c, s), NEW e \in E,
         \A x : InSeq(c, x) => InSeq(s, x)
  PROVE  Ordered(Append(c, e), Append(s, e)) /\ Ordered(c, Append(s, e))
<1>1. \A x, y : Ahead(Append(c, e), x, y) <=> Ahead(c, x, y) \/ (InSeq(c, x) /\ y = e)
  BY AppendAhead
<1>2. \A x, y : Ahead(Append(s, e), x, y) <=> Ahead(s, x, y) \/ (InSeq(s, x) /\ y = e)
  BY AppendAhead
<1> QED
  BY <1>1, <1>2 DEF Ordered

\* So does removing from both.
LEMMA OrderedRemove ==
  ASSUME NEW E, NEW s \in Seq(E), Distinct(s), NEW c \in Seq(E), Distinct(c), Ordered(c, s),
         NEW p \in 1..Len(s), NEW a \in 1..Len(c), c[a] = s[p]
  PROVE  Ordered(RemoveAt(c, a), RemoveAt(s, p))
<1>1. \A x, y : Ahead(RemoveAt(c, a), x, y) <=> Ahead(c, x, y) /\ x # c[a] /\ y # c[a]
  BY RemoveAhead
<1>2. \A x, y : Ahead(RemoveAt(s, p), x, y) <=> Ahead(s, x, y) /\ x # s[p] /\ y # s[p]
  BY RemoveAhead
<1> QED
  BY <1>1, <1>2 DEF Ordered

\* And removing from the larger what the smaller has not.
LEMMA OrderedRemoveOther ==
  ASSUME NEW E, NEW s \in Seq(E), Distinct(s), NEW c \in Seq(E), Ordered(c, s),
         NEW p \in 1..Len(s), ~InSeq(c, s[p])
  PROVE  Ordered(c, RemoveAt(s, p))
<1>1. \A x, y : Ahead(RemoveAt(s, p), x, y) <=> Ahead(s, x, y) /\ x # s[p] /\ y # s[p]
  BY RemoveAhead
<1>2. \A x, y : Ahead(c, x, y) => InSeq(c, x) /\ InSeq(c, y)
  BY AheadIn
<1> QED
  BY <1>1, <1>2 DEF Ordered

-----------------------------------------------------------------------------
(* The table.                                                              *)

\* What the pointers of the table are.
TableTypes ==
  /\ dwKey \in [Entry -> Key \union {Null}]
  /\ cNext \in [Entry -> Entry \union {Null}] /\ cPrv \in [Entry -> Entry \union {Null}]
  /\ lNext \in [Entry -> Entry \union {Null}] /\ lPrv \in [Entry -> Entry \union {Null}]
  /\ m_ppBucketTable \in [Table!Index -> Entry \union {Null}]

\* The list of the table is the sequence of the entries added and not yet removed.
ListIs ==
  /\ Chained(Entry, Null, lNext, lPrv, m_pListHead, added) /\ m_pListTail = LastOf(Null, added)
  /\ \A x \in Entry : InSeq(added, x) <=> dwKey[x] # Null

\* The chain of bucket i is c: the entries with a key of that bucket, in the order
\* they were added.
ChainIs(i, c) ==
  /\ Chained(Entry, Null, cNext, cPrv, m_ppBucketTable[i], c) /\ Ordered(c, added)
  /\ \A x \in Entry : InSeq(c, x) <=> dwKey[x] # Null /\ Table!IndexOf(dwKey[x]) = i

\* Every bucket has its chain.
ChainsAre == \A i \in Table!Index : \E c : ChainIs(i, c)

\* Both iterators stay on entries of the table, and the bucket iterator is past the
\* one it last answered.
Cursors ==
  /\ m_pListCur = Null \/ InSeq(added, m_pListCur)
  /\ m_pCurBucket = Null \/ InSeq(added, m_pCurBucket)
  /\ found = Null \/ (InSeq(added, found) /\ m_pCurBucket # found)

\* The inductive invariant of the table.
TableIs == TableTypes /\ ListIs /\ ChainsAre /\ Cursors

\* A key has a bucket.
LEMMA IndexIs ==
  ASSUME NEW k \in Key
  PROVE  Table!IndexOf(k) \in Table!Index /\ k # Null
<1>1. k \in Nat /\ k # Null /\ m_dwMaxBucketNum \in Nat /\ m_dwMaxBucketNum # 0
  BY EntryAssumption
<1> DEFINE m == m_dwMaxBucketNum
<1>2. \A a, b \in Nat : b # 0 => a % b \in 0..(b - 1)
  OBVIOUS
<1>3. k % m \in 0..(m - 1)
  BY <1>1, <1>2
<1> QED
  BY <1>1, <1>3 DEF Table!IndexOf, Table!Index

\* The operators of the instance are those of Walks.
LEMMA TableOperators ==
  /\ \A S, next, h : Table!Walk(S, next, h) = Walk(S, next, h)
  /\ \A s, k : Table!FirstWith(s, k) = First(Null, dwKey, s, k)
  /\ \A s : Table!Last(s) = Last(s)
  /\ \A s : Table!Reverse(s) = Reverse(s)
  /\ \A s, k : Table!RemoveAt(s, k) = RemoveAt(s, k)
  /\ \A s : Table!ToSet(s) = {s[i] : i \in DOMAIN s}
<1>1. \A S, next, h : Table!Walk(S, next, h) = Walk(S, next, h)
  BY DEF Table!Walk, Walk, Table!Cardinality, Cardinality
<1>2. \A s, k : Table!FirstWith(s, k) = First(Null, dwKey, s, k)
  BY DEF Table!FirstWith, First
<1>3. \A s : Table!Last(s) = Last(s)
  BY DEF Table!Last, Last
<1>4. \A s : Table!Reverse(s) = Reverse(s)
  BY DEF Table!Reverse, Reverse
<1>5. \A s, k : Table!RemoveAt(s, k) = RemoveAt(s, k)
  BY DEF Table!RemoveAt, RemoveAt
<1>6. \A s : Table!ToSet(s) = {s[i] : i \in DOMAIN s}
  BY DEF Table!ToSet
<1> QED
  BY <1>1, <1>2, <1>3, <1>4, <1>5, <1>6

\* What ListIs says.
LEMMA ListParts ==
  ASSUME ListIs
  PROVE  /\ added \in Seq(Entry) /\ Distinct(added) /\ Len(added) \in Nat
         /\ \A i \in 1..Len(added) : added[i] \in Entry
         /\ m_pListHead = FirstOf(Null, added) /\ m_pListTail = LastOf(Null, added)
         /\ \A x : InSeq(added, x) => x \in Entry /\ x # Null /\ dwKey[x] # Null
         /\ \A x \in Entry : InSeq(added, x) <=> dwKey[x] # Null
         /\ Null \notin Entry /\ IsFiniteSet(Entry)
<1>1. Chained(Entry, Null, lNext, lPrv, m_pListHead, added)
  BY DEF ListIs
<1>2. /\ added \in Seq(Entry) /\ Distinct(added) /\ Len(added) \in Nat
      /\ m_pListHead = FirstOf(Null, added)
      /\ \A i \in 1..Len(added) : added[i] \in Entry
  BY <1>1, ChainedParts
<1>3. Null \notin Entry /\ IsFiniteSet(Entry)
  BY EntryAssumption
<1>4. \A x : InSeq(added, x) => x \in Entry
  BY <1>2 DEF InSeq
<1> QED
  BY <1>2, <1>3, <1>4 DEF ListIs

\* What ChainIs says, and that walking the bucket gives the chain.
LEMMA ChainParts ==
  ASSUME ListIs, NEW i, NEW c, ChainIs(i, c)
  PROVE  /\ c \in Seq(Entry) /\ Distinct(c) /\ Len(c) \in Nat
         /\ \A j \in 1..Len(c) : c[j] \in Entry
         /\ m_ppBucketTable[i] = FirstOf(Null, c) /\ Ordered(c, added)
         /\ \A x : InSeq(c, x) => x \in Entry /\ InSeq(added, x)
         /\ \A x \in Entry : InSeq(c, x) <=> dwKey[x] # Null /\ Table!IndexOf(dwKey[x]) = i
         /\ Table!ChainAt(i) = c
<1>1. Chained(Entry, Null, cNext, cPrv, m_ppBucketTable[i], c)
  BY DEF ChainIs
<1>2. /\ c \in Seq(Entry) /\ Distinct(c) /\ Len(c) \in Nat
      /\ m_ppBucketTable[i] = FirstOf(Null, c)
      /\ \A j \in 1..Len(c) : c[j] \in Entry
  BY <1>1, ChainedParts
<1>3. Null \notin Entry /\ IsFiniteSet(Entry)
  BY EntryAssumption
<1>4. \A x : InSeq(c, x) => x \in Entry
  BY <1>2 DEF InSeq
<1>5. Walk(Entry, cNext, m_ppBucketTable[i]) = c
  <2> DEFINE h == m_ppBucketTable[i]
  <2>1. Chained(Entry, Null, cNext, cPrv, h, c)
    BY <1>1
  <2> HIDE DEF h
  <2>2. Walk(Entry, cNext, h) = c
    BY <1>3, <2>1, ChainedWalks
  <2> QED
    BY <2>2 DEF h
<1>6. Table!ChainAt(i) = c
  BY <1>5, TableOperators DEF Table!ChainAt
<1> QED
  BY <1>2, <1>4, <1>6, ListParts DEF ChainIs

-----------------------------------------------------------------------------
(* Add.                                                                    *)

\* AddList appends the entry to the list.
LEMMA AddListRight ==
  ASSUME TableTypes, ListIs, NEW e \in Entry, dwKey[e] = Null, Table!AddList(e),
         added' = Append(added, e)
  PROVE  /\ Chained(Entry, Null, lNext', lPrv', m_pListHead', added')
         /\ m_pListTail' = LastOf(Null, added')
         /\ \A y : InSeq(added', y) <=> y = e \/ InSeq(added, y)
         /\ lNext' \in [Entry -> Entry \union {Null}] /\ lPrv' \in [Entry -> Entry \union {Null}]
         /\ m_pListCur' = m_pListCur \/ m_pListCur' = e
<1> DEFINE s == added
<1>1. /\ s \in Seq(Entry) /\ Distinct(s) /\ Len(s) \in Nat
      /\ \A i \in 1..Len(s) : s[i] \in Entry
      /\ m_pListHead = (IF Len(s) = 0 THEN Null ELSE s[1])
      /\ m_pListTail = (IF Len(s) = 0 THEN Null ELSE s[Len(s)])
      /\ ~InSeq(s, e) /\ Null \notin Entry
  BY ListParts DEF FirstOf, LastOf
<1>2. Len(s) # 0 => 1 \in 1..Len(s) /\ Len(s) \in 1..Len(s)
  BY <1>1
<1>3. m_pListHead = Null <=> Len(s) = 0
  BY <1>1, <1>2
<1>4. /\ \A x \in Entry : lNext'[x] = IF x = e THEN Null
                                      ELSE IF m_pListHead # Null /\ x = m_pListTail THEN e
                                      ELSE lNext[x]
      /\ m_pListHead' = IF Len(s) = 0 THEN e ELSE m_pListHead
      /\ m_pListTail' = e
      /\ m_pListCur' = m_pListCur \/ m_pListCur' = e
  BY <1>3 DEF Table!AddList
<1>5. lNext' \in [Entry -> Entry \union {Null}]
  BY DEF Table!AddList, TableTypes
<1>6. /\ lPrv' \in [Entry -> Entry \union {Null}]
      /\ lPrv'[e] = LastOf(Null, s) /\ \A x \in Entry : x # e => lPrv'[x] = lPrv[x]
  <2>1. (IF m_pListHead = Null THEN Null ELSE m_pListTail) = LastOf(Null, s)
    BY <1>1, <1>3 DEF LastOf
  <2>2. lPrv' = [lPrv EXCEPT ![e] = LastOf(Null, s)]
    BY <2>1 DEF Table!AddList
  <2>3. LastOf(Null, s) \in Entry \union {Null}
    BY <1>1, <1>2 DEF LastOf
  <2> QED
    BY <2>2, <2>3 DEF TableTypes
<1>7. NextAppended(Null, lNext, lNext', s, e)
  <2>1. lNext'[e] = Null
    BY <1>4
  <2>2. ASSUME NEW i \in 1..Len(s)
        PROVE  lNext'[s[i]] = IF i = Len(s) THEN e ELSE lNext[s[i]]
    <3>1. s[i] \in Entry /\ s[i] # e /\ m_pListHead # Null /\ (s[i] = m_pListTail <=> i = Len(s))
      BY <1>1, <1>2, <1>3, <2>2 DEF InSeq, Distinct
    <3> QED
      BY <1>4, <3>1
  <2> QED
    BY <2>1, <2>2 DEF NextAppended
<1>8. PrevAppended(Null, lPrv, lPrv', s, e)
  BY <1>1, <1>6 DEF PrevAppended, InSeq
<1>9. Chained(Entry, Null, lNext, lPrv, m_pListHead, s)
  BY DEF ListIs
<1>10. Chained(Entry, Null, lNext', lPrv', m_pListHead', Append(s, e))
  <2> DEFINE next2 == lNext'
             prev2 == lPrv'
             head2 == m_pListHead'
  <2>1. NextAppended(Null, lNext, next2, s, e) /\ PrevAppended(Null, lPrv, prev2, s, e)
        /\ head2 = IF Len(s) = 0 THEN e ELSE m_pListHead
    BY <1>4, <1>7, <1>8
  <2> HIDE DEF next2, prev2, head2, s
  <2>2. Chained(Entry, Null, next2, prev2, head2, Append(s, e))
    BY <1>1, <1>9, <2>1, ChainedAppend
  <2> QED
    BY <2>2 DEF next2, prev2, head2
<1>11. LastOf(Null, Append(s, e)) = e /\ \A y : InSeq(Append(s, e), y) <=> y = e \/ InSeq(s, y)
  <2> HIDE DEF s
  <2> QED
    BY <1>1, AppendEnds
<1> QED
  BY <1>4, <1>5, <1>6, <1>10, <1>11

\* Add appends it to the chain of its bucket.
LEMMA ChainLastRight ==
  ASSUME TableTypes, ListIs, NEW i \in Table!Index, NEW c, ChainIs(i, c),
         NEW e \in Entry, dwKey[e] = Null, Table!ChainLast(e, i)
  PROVE  /\ Chained(Entry, Null, cNext', cPrv', m_ppBucketTable'[i], Append(c, e))
         /\ cNext' \in [Entry -> Entry \union {Null}] /\ cPrv' \in [Entry -> Entry \union {Null}]
         /\ m_ppBucketTable' \in [Table!Index -> Entry \union {Null}]
         /\ \A j \in Table!Index : j # i => m_ppBucketTable'[j] = m_ppBucketTable[j]
         /\ \A x \in Entry : x # e /\ ~InSeq(c, x) => cNext'[x] = cNext[x] /\ cPrv'[x] = cPrv[x]
<1>1. /\ c \in Seq(Entry) /\ Distinct(c) /\ Len(c) \in Nat
      /\ \A j \in 1..Len(c) : c[j] \in Entry
      /\ m_ppBucketTable[i] = (IF Len(c) = 0 THEN Null ELSE c[1])
      /\ ~InSeq(c, e) /\ Null \notin Entry
      /\ Table!ChainAt(i) = c
  BY ChainParts, EntryAssumption DEF FirstOf
<1>2. Len(c) # 0 => 1 \in 1..Len(c) /\ Len(c) \in 1..Len(c)
  BY <1>1
<1>3. (IF Table!ChainAt(i) = << >> THEN Null ELSE Table!Last(Table!ChainAt(i))) = LastOf(Null, c)
  <2>1. Table!Last(c) = c[Len(c)] /\ (c = << >> <=> Len(c) = 0)
    BY <1>1, TableOperators, EmptySeq DEF Last
  <2> QED
    BY <1>1, <2>1 DEF LastOf
<1> DEFINE p == LastOf(Null, c)
<1>4. p = (IF Len(c) = 0 THEN Null ELSE c[Len(c)]) /\ p \in Entry \union {Null}
      /\ (p = Null <=> Len(c) = 0)
  BY <1>1, <1>2 DEF LastOf
<1>5. /\ m_ppBucketTable' = [m_ppBucketTable EXCEPT ![i] = IF p = Null THEN e ELSE @]
      /\ cNext' = [x \in Entry |-> IF x = e THEN Null ELSE IF x = p THEN e ELSE cNext[x]]
      /\ cPrv' = [cPrv EXCEPT ![e] = p]
  BY <1>3 DEF Table!ChainLast
<1> HIDE DEF p
<1>6. /\ cNext' \in [Entry -> Entry \union {Null}] /\ cPrv' \in [Entry -> Entry \union {Null}]
      /\ m_ppBucketTable' \in [Table!Index -> Entry \union {Null}]
      /\ \A j \in Table!Index : j # i => m_ppBucketTable'[j] = m_ppBucketTable[j]
      /\ m_ppBucketTable'[i] = IF Len(c) = 0 THEN e ELSE m_ppBucketTable[i]
  BY <1>4, <1>5 DEF TableTypes
<1>7. /\ \A x \in Entry : cNext'[x] = IF x = e THEN Null ELSE IF x = p THEN e ELSE cNext[x]
      /\ cPrv'[e] = p /\ \A x \in Entry : x # e => cPrv'[x] = cPrv[x]
  BY <1>5 DEF TableTypes
<1>8. NextAppended(Null, cNext, cNext', c, e)
  <2>1. cNext'[e] = Null
    BY <1>7
  <2>2. ASSUME NEW j \in 1..Len(c)
        PROVE  cNext'[c[j]] = IF j = Len(c) THEN e ELSE cNext[c[j]]
    <3>1. c[j] \in Entry /\ c[j] # e /\ (c[j] = p <=> j = Len(c))
      BY <1>1, <1>2, <1>4, <2>2 DEF InSeq, Distinct
    <3> QED
      BY <1>7, <3>1
  <2> QED
    BY <2>1, <2>2 DEF NextAppended
<1>9. PrevAppended(Null, cPrv, cPrv', c, e)
  BY <1>1, <1>7 DEF PrevAppended, InSeq, p
<1>10. Chained(Entry, Null, cNext', cPrv', m_ppBucketTable'[i], Append(c, e))
  <2> DEFINE next2 == cNext'
             prev2 == cPrv'
             head1 == m_ppBucketTable[i]
             head2 == m_ppBucketTable'[i]
  <2>1. NextAppended(Null, cNext, next2, c, e) /\ PrevAppended(Null, cPrv, prev2, c, e)
        /\ head2 = (IF Len(c) = 0 THEN e ELSE head1)
        /\ Chained(Entry, Null, cNext, cPrv, head1, c)
    BY <1>6, <1>8, <1>9 DEF ChainIs
  <2> HIDE DEF next2, prev2, head2, head1
  <2>2. Chained(Entry, Null, next2, prev2, head2, Append(c, e))
    BY <1>1, <2>1, ChainedAppend
  <2> QED
    BY <2>2 DEF next2, prev2, head2
<1>11. ASSUME NEW x \in Entry, x # e, ~InSeq(c, x)
       PROVE  cNext'[x] = cNext[x] /\ cPrv'[x] = cPrv[x]
  <2>1. x # p
    BY <1>1, <1>2, <1>4, <1>11 DEF InSeq
  <2> QED
    BY <1>7, <1>11, <2>1
<1> QED
  BY <1>6, <1>10, <1>11

\* A chain that was not written is still that of its bucket.
LEMMA ChainStays ==
  ASSUME NEW i, NEW c, ChainIs(i, c),
         m_ppBucketTable'[i] = m_ppBucketTable[i], Ordered(c, added'),
         \A j \in 1..Len(c) : cNext'[c[j]] = cNext[c[j]] /\ cPrv'[c[j]] = cPrv[c[j]],
         \A x \in Entry : InSeq(c, x) <=> dwKey'[x] # Null /\ Table!IndexOf(dwKey'[x]) = i
  PROVE  ChainIs(i, c)'
<1> DEFINE next2 == cNext'
           prev2 == cPrv'
           head1 == m_ppBucketTable[i]
<1>1. /\ Chained(Entry, Null, cNext, cPrv, head1, c)
      /\ \A j \in 1..Len(c) : next2[c[j]] = cNext[c[j]]
      /\ \A j \in 1..Len(c) : prev2[c[j]] = cPrv[c[j]]
      /\ m_ppBucketTable'[i] = head1
  BY DEF ChainIs
<1> HIDE DEF next2, prev2, head1
<1>2. Chained(Entry, Null, next2, prev2, head1, c)
  BY <1>1, ChainedOther, SMTT(40)
<1>3. Chained(Entry, Null, cNext', cPrv', m_ppBucketTable'[i], c)
  BY <1>1, <1>2 DEF next2, prev2
<1>4. \A k : Table!IndexOf(k)' = Table!IndexOf(k)
  BY DEF Table!IndexOf
<1> QED
  BY <1>3 DEF ChainIs, Table!IndexOf

\* Add keeps the invariant and moves no iterator over an entry.
LEMMA AddStep ==
  ASSUME TableIs, NEW k \in Key, Table!Add(k)
  PROVE  TableIs' /\ Table!CursorStep
<1> USE DEF TableIs
<1> DEFINE i == Table!IndexOf(k)
<1>1. i \in Table!Index /\ k # Null
  BY IndexIs
<1> HIDE DEF i
<1>2. PICK e \in Entry :
        /\ dwKey[e] = Null /\ dwKey' = [dwKey EXCEPT ![e] = k]
        /\ Table!ChainLast(e, i) /\ Table!AddList(e) /\ added' = Append(added, e)
        /\ found' = Null /\ m_pCurBucket' = m_pCurBucket
  BY DEF Table!Add, Table!curVars, i
<1>3. PICK c : ChainIs(i, c)
  BY <1>1 DEF ChainsAre
<1>4. /\ Chained(Entry, Null, lNext', lPrv', m_pListHead', added')
      /\ m_pListTail' = LastOf(Null, added')
      /\ \A y : InSeq(added', y) <=> y = e \/ InSeq(added, y)
      /\ lNext' \in [Entry -> Entry \union {Null}] /\ lPrv' \in [Entry -> Entry \union {Null}]
      /\ m_pListCur' = m_pListCur \/ m_pListCur' = e
  BY <1>2, AddListRight
<1>5. /\ Chained(Entry, Null, cNext', cPrv', m_ppBucketTable'[i], Append(c, e))
      /\ cNext' \in [Entry -> Entry \union {Null}] /\ cPrv' \in [Entry -> Entry \union {Null}]
      /\ m_ppBucketTable' \in [Table!Index -> Entry \union {Null}]
      /\ \A j \in Table!Index : j # i => m_ppBucketTable'[j] = m_ppBucketTable[j]
      /\ \A x \in Entry : x # e /\ ~InSeq(c, x) => cNext'[x] = cNext[x] /\ cPrv'[x] = cPrv[x]
  BY <1>1, <1>2, <1>3, ChainLastRight
<1>6. /\ dwKey' \in [Entry -> Key \union {Null}] /\ dwKey'[e] = k
      /\ \A x \in Entry : x # e => dwKey'[x] = dwKey[x]
  BY <1>2 DEF TableTypes
<1>7. TableTypes'
  BY <1>4, <1>5, <1>6 DEF TableTypes, Table!Index
<1>8. ListIs'
  <2>1. \A x \in Entry : InSeq(added', x) <=> dwKey'[x] # Null
    BY <1>1, <1>4, <1>6, ListParts
  <2> QED
    BY <1>4, <2>1 DEF ListIs
<1>9. ASSUME NEW j, NEW d, ChainIs(j, d)
      PROVE  Ordered(d, Append(added, e)) /\ Ordered(Append(d, e), Append(added, e))
  <2>1. /\ d \in Seq(Entry) /\ added \in Seq(Entry) /\ Ordered(d, added)
        /\ \A x : InSeq(d, x) => InSeq(added, x)
    BY <1>9, ChainParts, ListParts
  <2> QED
    BY <2>1, OrderedAppend
<1>10. ChainIs(i, Append(c, e))'
  <2>1. Ordered(Append(c, e), added')
    BY <1>2, <1>3, <1>9
  <2>2. \A y : InSeq(Append(c, e), y) <=> y = e \/ InSeq(c, y)
    <3>1. c \in Seq(Entry)
      BY <1>3, ChainParts
    <3> QED
      BY <3>1, AppendEnds
  <2>3. \A x \in Entry : InSeq(Append(c, e), x) <=> dwKey'[x] # Null /\ Table!IndexOf(dwKey'[x]) = i
    <3>1. \A x \in Entry : InSeq(c, x) <=> dwKey[x] # Null /\ Table!IndexOf(dwKey[x]) = i
      BY <1>3 DEF ChainIs
    <3> QED
      BY <1>1, <1>2, <1>6, <2>2, <3>1 DEF i
  <2> QED
    BY <1>5, <2>1, <2>3 DEF ChainIs, Table!IndexOf
<1>11. ASSUME NEW j \in Table!Index, j # i
       PROVE  \E d : ChainIs(j, d)'
  <2>1. PICK d : ChainIs(j, d)
    BY <1>11 DEF ChainsAre
  <2>2. \A x \in Entry : InSeq(d, x) <=> dwKey[x] # Null /\ Table!IndexOf(dwKey[x]) = j
    BY <2>1 DEF ChainIs
  <2>3. \A x \in Entry : InSeq(c, x) <=> dwKey[x] # Null /\ Table!IndexOf(dwKey[x]) = i
    BY <1>3 DEF ChainIs
  <2>4. \A m \in 1..Len(d) : d[m] \in Entry /\ InSeq(d, d[m])
    BY <2>1, ChainParts DEF InSeq
  <2>5. \A m \in 1..Len(d) : d[m] # e /\ ~InSeq(c, d[m])
    BY <1>2, <1>11, <2>2, <2>3, <2>4
  <2>6. \A m \in 1..Len(d) : cNext'[d[m]] = cNext[d[m]] /\ cPrv'[d[m]] = cPrv[d[m]]
    BY <1>5, <2>4, <2>5
  <2>7. Ordered(d, added')
    BY <1>2, <1>9, <2>1
  <2>8. \A x \in Entry : InSeq(d, x) <=> dwKey'[x] # Null /\ Table!IndexOf(dwKey'[x]) = j
    BY <1>2, <1>6, <1>11, <2>2 DEF i
  <2>9. m_ppBucketTable'[j] = m_ppBucketTable[j]
    BY <1>5, <1>11
  <2>10. ChainIs(j, d)'
    BY <2>1, <2>6, <2>7, <2>8, <2>9, ChainStays
  <2> QED
    BY <2>10
<1>12. ChainsAre'
  <2>1. \A j \in Table!Index : \E d : ChainIs(j, d)'
    BY <1>10, <1>11
  <2> QED
    BY <2>1 DEF ChainsAre, Table!Index
<1>13. Cursors'
  BY <1>2, <1>4 DEF Cursors
<1>14. Table!CursorStep
  <2>1. m_pListCur # Null => m_pListCur \in Entry /\ dwKey[m_pListCur] # Null
    BY ListParts DEF Cursors
  <2> QED
    BY <1>1, <1>6, <2>1 DEF Table!CursorStep
<1> QED
  BY <1>7, <1>8, <1>12, <1>13, <1>14

-----------------------------------------------------------------------------
(* Remove.                                                                 *)

\* What the table remembers of the entries after one was freed.
LEMMA AddedWithout ==
  ASSUME ListIs, NEW e, InSeq(added, e), Table!Freed(e)
  PROVE  \E p \in 1..Len(added) : added[p] = e /\ added' = RemoveAt(added, p)
<1>1. Distinct(added) /\ DOMAIN added = 1..Len(added)
  BY ListParts
<1>2. PICK p \in 1..Len(added) : added[p] = e
  BY DEF InSeq
<1> DEFINE q == CHOOSE i \in DOMAIN added : added[i] = e
<1>3. q \in 1..Len(added) /\ added[q] = e
  BY <1>1, <1>2
<1>4. added' = Table!RemoveAt(added, q)
  BY DEF Table!Freed
<1> HIDE DEF q
<1>5. added' = RemoveAt(added, q)
  BY <1>4, TableOperators
<1> QED
  BY <1>3, <1>5

\* RemoveList takes the entry out of the list and moves the list iterator off it.
LEMMA RemoveListRight ==
  ASSUME TableTypes, ListIs, NEW p \in 1..Len(added), NEW e, e = added[p],
         Table!RemoveList(e), added' = RemoveAt(added, p)
  PROVE  /\ Chained(Entry, Null, lNext', lPrv', m_pListHead', added')
         /\ m_pListTail' = LastOf(Null, added')
         /\ \A y : InSeq(added', y) <=> y # e /\ InSeq(added, y)
         /\ lNext' \in [Entry -> Entry \union {Null}] /\ lPrv' \in [Entry -> Entry \union {Null}]
         /\ m_pListCur' = IF m_pListCur = e THEN lNext[e] ELSE m_pListCur
         /\ lNext[e] = Null \/ (InSeq(added, lNext[e]) /\ lNext[e] # e)
<1>1. /\ added \in Seq(Entry) /\ Distinct(added) /\ e \in Entry /\ Null \notin Entry
      /\ m_pListTail = LastOf(Null, added)
  BY ListParts
<1>2. /\ \A x \in Entry : lNext'[x] = IF x = lPrv[e] THEN lNext[e] ELSE lNext[x]
      /\ \A x \in Entry : lPrv'[x] = IF x = lNext[e] THEN lPrv[e] ELSE lPrv[x]
      /\ m_pListHead' = IF lPrv[e] = Null THEN lNext[e] ELSE m_pListHead
      /\ m_pListTail' = IF lNext[e] = Null THEN lPrv[e] ELSE m_pListTail
      /\ m_pListCur' = IF m_pListCur = e THEN lNext[e] ELSE m_pListCur
  BY DEF Table!RemoveList
<1>3. lNext[e] \in Entry \union {Null} /\ lPrv[e] \in Entry \union {Null}
  BY <1>1 DEF TableTypes
<1>4. lNext' \in [Entry -> Entry \union {Null}] /\ lPrv' \in [Entry -> Entry \union {Null}]
  <2>1. /\ lNext' = [x \in Entry |-> IF x = lPrv[e] THEN lNext[e] ELSE lNext[x]]
        /\ lPrv' = [x \in Entry |-> IF x = lNext[e] THEN lPrv[e] ELSE lPrv[x]]
    BY DEF Table!RemoveList
  <2> QED
    BY <1>3, <2>1 DEF TableTypes
<1>5. Chained(Entry, Null, lNext, lPrv, m_pListHead, added)
  BY DEF ListIs
<1>6. /\ Chained(Entry, Null, lNext', lPrv', m_pListHead', RemoveAt(added, p))
      /\ EndsLeft(Null, lNext, lPrv, added, p)
  <2> DEFINE next2 == lNext'
             prev2 == lPrv'
             head2 == m_pListHead'
  <2>1. /\ NextLeft(Entry, lNext, lPrv, next2, added[p]) /\ PrevLeft(Entry, lNext, lPrv, prev2, added[p])
        /\ head2 = IF lPrv[added[p]] = Null THEN lNext[added[p]] ELSE m_pListHead
    BY <1>2 DEF NextLeft, PrevLeft
  <2> HIDE DEF next2, prev2, head2
  <2>2. /\ Chained(Entry, Null, next2, prev2, head2, RemoveAt(added, p))
        /\ EndsLeft(Null, lNext, lPrv, added, p)
    BY <1>1, <1>5, <2>1, ChainedRemove
  <2> QED
    BY <2>2 DEF next2, prev2, head2
<1>7. \A y : InSeq(RemoveAt(added, p), y) <=> y # added[p] /\ InSeq(added, y)
  BY <1>1, RemoveInSeq
<1>8. lNext[e] = Null \/ (InSeq(added, lNext[e]) /\ lNext[e] # e)
  <2>1. InSeq(added, e)
    BY DEF InSeq
  <2> QED
    BY <1>1, <1>5, <2>1, ChainedNeighbours
<1>9. m_pListTail' = LastOf(Null, added')
  BY <1>1, <1>2, <1>6 DEF EndsLeft
<1> QED
  BY <1>2, <1>4, <1>6, <1>7, <1>8, <1>9

\* Remove takes it out of its chain.
LEMMA UnchainedRight ==
  ASSUME TableTypes, ListIs, NEW i \in Table!Index, NEW c, ChainIs(i, c),
         NEW a \in 1..Len(c), NEW e, e = c[a], Table!IndexOf(dwKey[e]) = i, Table!Unchained(e)
  PROVE  /\ Chained(Entry, Null, cNext', cPrv', m_ppBucketTable'[i], RemoveAt(c, a))
         /\ cNext' \in [Entry -> Entry \union {Null}] /\ cPrv' \in [Entry -> Entry \union {Null}]
         /\ m_ppBucketTable' \in [Table!Index -> Entry \union {Null}]
         /\ \A j \in Table!Index : j # i => m_ppBucketTable'[j] = m_ppBucketTable[j]
         /\ \A x \in Entry : ~InSeq(c, x) => cNext'[x] = cNext[x] /\ cPrv'[x] = cPrv[x]
         /\ cNext[e] = Null \/ (InSeq(c, cNext[e]) /\ cNext[e] # e)
<1>1. c \in Seq(Entry) /\ Distinct(c) /\ e \in Entry /\ Null \notin Entry
  BY ChainParts, EntryAssumption
<1>2. /\ m_ppBucketTable' = [m_ppBucketTable EXCEPT ![i] = IF cPrv[e] = Null THEN cNext[e] ELSE @]
      /\ cNext' = [x \in Entry |-> IF x = cPrv[e] THEN cNext[e] ELSE cNext[x]]
      /\ cPrv' = [x \in Entry |-> IF x = cNext[e] THEN cPrv[e] ELSE cPrv[x]]
  BY DEF Table!Unchained
<1>3. cNext[e] \in Entry \union {Null} /\ cPrv[e] \in Entry \union {Null}
  BY <1>1 DEF TableTypes
<1>4. /\ cNext' \in [Entry -> Entry \union {Null}] /\ cPrv' \in [Entry -> Entry \union {Null}]
      /\ m_ppBucketTable' \in [Table!Index -> Entry \union {Null}]
      /\ \A j \in Table!Index : j # i => m_ppBucketTable'[j] = m_ppBucketTable[j]
      /\ m_ppBucketTable'[i] = IF cPrv[e] = Null THEN cNext[e] ELSE m_ppBucketTable[i]
  BY <1>2, <1>3 DEF TableTypes
<1>5. /\ \A x \in Entry : cNext'[x] = IF x = cPrv[e] THEN cNext[e] ELSE cNext[x]
      /\ \A x \in Entry : cPrv'[x] = IF x = cNext[e] THEN cPrv[e] ELSE cPrv[x]
  BY <1>2
<1>6. Chained(Entry, Null, cNext, cPrv, m_ppBucketTable[i], c)
  BY DEF ChainIs
<1> DEFINE head1 == m_ppBucketTable[i]
<1>7. Chained(Entry, Null, cNext, cPrv, head1, c)
  BY <1>6
<1>8. Chained(Entry, Null, cNext', cPrv', m_ppBucketTable'[i], RemoveAt(c, a))
  <2> DEFINE next2 == cNext'
             prev2 == cPrv'
             head2 == m_ppBucketTable'[i]
  <2>1. /\ NextLeft(Entry, cNext, cPrv, next2, c[a]) /\ PrevLeft(Entry, cNext, cPrv, prev2, c[a])
        /\ head2 = IF cPrv[c[a]] = Null THEN cNext[c[a]] ELSE head1
    BY <1>4, <1>5 DEF NextLeft, PrevLeft
  <2> HIDE DEF next2, prev2, head2, head1
  <2>2. Chained(Entry, Null, next2, prev2, head2, RemoveAt(c, a))
    BY <1>1, <1>7, <2>1, ChainedRemove
  <2> QED
    BY <2>2 DEF next2, prev2, head2
<1>9. /\ cNext[e] = Null \/ (InSeq(c, cNext[e]) /\ cNext[e] # e)
      /\ cPrv[e] = Null \/ (InSeq(c, cPrv[e]) /\ cPrv[e] # e)
  <2>1. InSeq(c, e)
    BY DEF InSeq
  <2> HIDE DEF head1
  <2> QED
    BY <1>1, <1>7, <2>1, ChainedNeighbours
<1>10. \A x \in Entry : ~InSeq(c, x) => cNext'[x] = cNext[x] /\ cPrv'[x] = cPrv[x]
  BY <1>1, <1>5, <1>9
<1> QED
  BY <1>4, <1>8, <1>9, <1>10

\* Both together: the table without the entry.
LEMMA EntryLeaves ==
  ASSUME TableTypes, ListIs, ChainsAre, NEW e, InSeq(added, e),
         Table!Unchained(e), Table!RemoveList(e), Table!Freed(e)
  PROVE  /\ TableTypes' /\ ListIs' /\ ChainsAre'
         /\ \A y : InSeq(added', y) <=> y # e /\ InSeq(added, y)
         /\ m_pListCur' = IF m_pListCur = e THEN lNext[e] ELSE m_pListCur
         /\ lNext[e] = Null \/ (InSeq(added, lNext[e]) /\ lNext[e] # e)
         /\ cNext[e] = Null \/ (InSeq(added, cNext[e]) /\ cNext[e] # e)
         /\ \A x \in Entry : x # e => dwKey'[x] = dwKey[x]
<1>1. e \in Entry /\ dwKey[e] # Null /\ dwKey[e] \in Key
  BY ListParts DEF TableTypes
<1>2. PICK i \in Table!Index : i = Table!IndexOf(dwKey[e])
  BY <1>1, IndexIs
<1>3. PICK p \in 1..Len(added) : added[p] = e /\ added' = RemoveAt(added, p)
  BY AddedWithout
<1>4. PICK c : ChainIs(i, c)
  BY <1>2 DEF ChainsAre
<1>5. \A x \in Entry : InSeq(c, x) <=> dwKey[x] # Null /\ Table!IndexOf(dwKey[x]) = i
  BY <1>4 DEF ChainIs
<1>6. PICK a \in 1..Len(c) : c[a] = e
  BY <1>1, <1>2, <1>5 DEF InSeq
<1>7. /\ Chained(Entry, Null, lNext', lPrv', m_pListHead', added')
      /\ m_pListTail' = LastOf(Null, added')
      /\ \A y : InSeq(added', y) <=> y # e /\ InSeq(added, y)
      /\ lNext' \in [Entry -> Entry \union {Null}] /\ lPrv' \in [Entry -> Entry \union {Null}]
      /\ m_pListCur' = IF m_pListCur = e THEN lNext[e] ELSE m_pListCur
      /\ lNext[e] = Null \/ (InSeq(added, lNext[e]) /\ lNext[e] # e)
  BY <1>3, RemoveListRight
<1>8. /\ Chained(Entry, Null, cNext', cPrv', m_ppBucketTable'[i], RemoveAt(c, a))
      /\ cNext' \in [Entry -> Entry \union {Null}] /\ cPrv' \in [Entry -> Entry \union {Null}]
      /\ m_ppBucketTable' \in [Table!Index -> Entry \union {Null}]
      /\ \A j \in Table!Index : j # i => m_ppBucketTable'[j] = m_ppBucketTable[j]
      /\ \A x \in Entry : ~InSeq(c, x) => cNext'[x] = cNext[x] /\ cPrv'[x] = cPrv[x]
      /\ cNext[e] = Null \/ (InSeq(c, cNext[e]) /\ cNext[e] # e)
  BY <1>2, <1>4, <1>6, UnchainedRight
<1>9. /\ dwKey' \in [Entry -> Key \union {Null}] /\ dwKey'[e] = Null
      /\ \A x \in Entry : x # e => dwKey'[x] = dwKey[x]
  BY <1>1 DEF TableTypes, Table!Freed
<1>10. TableTypes'
  BY <1>7, <1>8, <1>9 DEF TableTypes, Table!Index
<1>11. ListIs'
  <2>1. \A x \in Entry : InSeq(added', x) <=> dwKey'[x] # Null
    BY <1>7, <1>9, ListParts
  <2> QED
    BY <1>7, <2>1 DEF ListIs
<1>12. /\ added \in Seq(Entry) /\ Distinct(added) /\ c \in Seq(Entry) /\ Distinct(c)
       /\ Ordered(c, added) /\ \A x : InSeq(c, x) => InSeq(added, x)
  BY <1>4, ChainParts, ListParts
<1>13. ChainIs(i, RemoveAt(c, a))'
  <2>1. Ordered(RemoveAt(c, a), added')
    BY <1>3, <1>6, <1>12, OrderedRemove
  <2>2. \A y : InSeq(RemoveAt(c, a), y) <=> y # c[a] /\ InSeq(c, y)
    BY <1>12, RemoveInSeq
  <2>3. \A x \in Entry : InSeq(RemoveAt(c, a), x) <=> dwKey'[x] # Null /\ Table!IndexOf(dwKey'[x]) = i
    BY <1>5, <1>6, <1>9, <2>2
  <2> QED
    BY <1>8, <2>1, <2>3 DEF ChainIs, Table!IndexOf
<1>14. ASSUME NEW j \in Table!Index, j # i
       PROVE  \E d : ChainIs(j, d)'
  <2>1. PICK d : ChainIs(j, d)
    BY <1>14 DEF ChainsAre
  <2>2. \A x \in Entry : InSeq(d, x) <=> dwKey[x] # Null /\ Table!IndexOf(dwKey[x]) = j
    BY <2>1 DEF ChainIs
  <2>3. \A m \in 1..Len(d) : d[m] \in Entry /\ InSeq(d, d[m])
    BY <2>1, ChainParts DEF InSeq
  <2>4. \A m \in 1..Len(d) : ~InSeq(c, d[m])
    BY <1>5, <1>14, <2>2, <2>3
  <2>5. \A m \in 1..Len(d) : cNext'[d[m]] = cNext[d[m]] /\ cPrv'[d[m]] = cPrv[d[m]]
    BY <1>8, <2>3, <2>4
  <2>6. ~InSeq(d, e)
    BY <1>1, <1>2, <1>14, <2>2
  <2>7. d \in Seq(Entry) /\ Ordered(d, added)
    BY <2>1, ChainParts
  <2>8. Ordered(d, added')
    BY <1>3, <1>12, <2>6, <2>7, OrderedRemoveOther
  <2>9. \A x \in Entry : InSeq(d, x) <=> dwKey'[x] # Null /\ Table!IndexOf(dwKey'[x]) = j
    BY <1>9, <2>2, <2>6
  <2>10. m_ppBucketTable'[j] = m_ppBucketTable[j]
    BY <1>8, <1>14
  <2>11. ChainIs(j, d)'
    BY <2>1, <2>5, <2>8, <2>9, <2>10, ChainStays
  <2> QED
    BY <2>11
<1>15. ChainsAre'
  <2>1. \A j \in Table!Index : \E d : ChainIs(j, d)'
    BY <1>13, <1>14
  <2> QED
    BY <2>1 DEF ChainsAre, Table!Index
<1> QED
  BY <1>7, <1>8, <1>9, <1>10, <1>11, <1>12, <1>15

\* A removal keeps the invariant and moves no iterator over an entry that stays.
LEMMA RemoveStep ==
  ASSUME TableIs, NEW e, InSeq(added, e),
         Table!Unchained(e), Table!RemoveList(e), Table!Freed(e), found' = Null,
         \/ m_pCurBucket' = IF m_pCurBucket = e THEN cNext[e] ELSE m_pCurBucket
         \/ m_pCurBucket' = m_pCurBucket /\ m_pCurBucket # e
  PROVE  TableIs' /\ Table!CursorStep
<1>1. /\ TableTypes' /\ ListIs' /\ ChainsAre'
      /\ \A y : InSeq(added', y) <=> y # e /\ InSeq(added, y)
      /\ m_pListCur' = IF m_pListCur = e THEN lNext[e] ELSE m_pListCur
      /\ lNext[e] = Null \/ (InSeq(added, lNext[e]) /\ lNext[e] # e)
      /\ cNext[e] = Null \/ (InSeq(added, cNext[e]) /\ cNext[e] # e)
      /\ \A x \in Entry : x # e => dwKey'[x] = dwKey[x]
  BY EntryLeaves DEF TableIs
<1>2. /\ m_pListCur = Null \/ InSeq(added, m_pListCur)
      /\ m_pCurBucket = Null \/ InSeq(added, m_pCurBucket)
  BY DEF TableIs, Cursors
<1>3. e # Null
  BY ListParts DEF TableIs
<1>4. Cursors'
  BY <1>1, <1>2, <1>3 DEF Cursors
<1>5. Table!CursorStep
  <2>1. m_pListCur # Null => m_pListCur \in Entry /\ dwKey[m_pListCur] # Null
    BY <1>2, ListParts DEF TableIs
  <2> QED
    BY <1>1, <2>1 DEF Table!CursorStep
<1> QED
  BY <1>1, <1>4, <1>5 DEF TableIs

-----------------------------------------------------------------------------
(* The iterators.                                                          *)

\* What a search in a chain finds is in it.
LEMMA FoundInChain ==
  ASSUME ListIs, NEW i, NEW c, ChainIs(i, c), NEW t \in Seq(Entry), \A j \in 1..Len(t) : InSeq(c, t[j]),
         NEW k, NEW e, e = Table!FirstWith(t, k), e # Null
  PROVE  /\ InSeq(c, e) /\ InSeq(added, e) /\ e \in Entry
         /\ cNext[e] = Null \/ (InSeq(added, cNext[e]) /\ cNext[e] # e)
<1>1. e = First(Null, dwKey, t, k)
  BY TableOperators
<1>2. \E j \in 1..Len(t) : First(Null, dwKey, t, k) = t[j]
  BY <1>1, FirstIs
<1>3. InSeq(c, e)
  BY <1>1, <1>2
<1>4. \A x : InSeq(c, x) => x \in Entry /\ InSeq(added, x)
  BY ChainParts
<1>5. Chained(Entry, Null, cNext, cPrv, m_ppBucketTable[i], c) /\ Null \notin Entry
  BY EntryAssumption DEF ChainIs
<1>6. cNext[e] = Null \/ (InSeq(c, cNext[e]) /\ cNext[e] # e)
  <2> DEFINE h == m_ppBucketTable[i]
  <2>1. Chained(Entry, Null, cNext, cPrv, h, c)
    BY <1>5
  <2> HIDE DEF h
  <2> QED
    BY <1>3, <1>5, <2>1, ChainedNeighbours
<1> QED
  BY <1>3, <1>4, <1>6

\* Every place of a chain is a member.
LEMMA ChainMembers ==
  ASSUME ListIs, NEW i, NEW c, ChainIs(i, c)
  PROVE  \A j \in 1..Len(c) : InSeq(c, c[j])
BY DEF InSeq

\* A call that only moves iterators, to entries of the table.
LEMMA OnlyCursors ==
  ASSUME TableIs, UNCHANGED <<dwKey, cNext, cPrv, m_ppBucketTable, lNext, lPrv, m_pListHead, m_pListTail, added>>,
         m_pListCur' = Null \/ InSeq(added, m_pListCur'),
         m_pCurBucket' = Null \/ InSeq(added, m_pCurBucket'),
         found' = Null \/ (InSeq(added, found') /\ m_pCurBucket' # found')
  PROVE  TableIs' /\ Table!CursorStep
<1>1. TableTypes' /\ ListIs'
  BY DEF TableIs, TableTypes, ListIs, Table!Index
<1>2. ChainsAre'
  <2>1. \A i, c : ChainIs(i, c) => ChainIs(i, c)'
    BY DEF ChainIs, Table!IndexOf
  <2> QED
    BY <2>1 DEF TableIs, ChainsAre, Table!Index
<1>3. Cursors'
  BY DEF Cursors
<1>4. Table!CursorStep
  <2>1. m_pListCur # Null => dwKey[m_pListCur] # Null
    BY ListParts DEF TableIs, Cursors
  <2> QED
    BY <2>1 DEF Table!CursorStep
<1> QED
  BY <1>1, <1>2, <1>3, <1>4 DEF TableIs

\* The ends of the list are in it.
LEMMA ListEnds ==
  ASSUME ListIs
  PROVE  /\ m_pListHead = Null \/ InSeq(added, m_pListHead)
         /\ m_pListTail = Null \/ InSeq(added, m_pListTail)
<1>1. Len(added) \in Nat /\ m_pListHead = FirstOf(Null, added) /\ m_pListTail = LastOf(Null, added)
  BY ListParts
<1>2. Len(added) # 0 => 1 \in 1..Len(added) /\ Len(added) \in 1..Len(added)
  BY <1>1
<1> QED
  BY <1>1, <1>2 DEF FirstOf, LastOf, InSeq

\* Starting the list iterator keeps the invariant.
LEMMA SetListCurStep ==
  ASSUME TableIs, Table!SetListCur
  PROVE  TableIs' /\ Table!CursorStep
<1>1. /\ UNCHANGED <<dwKey, cNext, cPrv, m_ppBucketTable, lNext, lPrv, m_pListHead, m_pListTail, added>>
      /\ m_pListCur' \in {m_pListHead, m_pListTail} /\ m_pCurBucket' = m_pCurBucket /\ found' = Null
  BY DEF Table!SetListCur, Table!chainVars, Table!listVars, Table!curVars
<1>2. m_pListCur' = Null \/ InSeq(added, m_pListCur')
  BY <1>1, ListEnds DEF TableIs
<1>3. m_pCurBucket' = Null \/ InSeq(added, m_pCurBucket')
  BY <1>1 DEF TableIs, Cursors
<1> QED
  BY <1>1, <1>2, <1>3, OnlyCursors

\* Moving it on keeps it.
LEMMA MoveListCurStep ==
  ASSUME TableIs, Table!MoveListCur
  PROVE  TableIs' /\ Table!CursorStep
<1>1. /\ UNCHANGED <<dwKey, cNext, cPrv, m_ppBucketTable, lNext, lPrv, m_pListHead, m_pListTail, added>>
      /\ m_pListCur # Null /\ m_pListCur' \in {lNext[m_pListCur], lPrv[m_pListCur]}
      /\ m_pCurBucket' = m_pCurBucket /\ found' = Null
  BY DEF Table!MoveListCur, Table!chainVars, Table!listVars, Table!curVars
<1>2. InSeq(added, m_pListCur) /\ (m_pCurBucket = Null \/ InSeq(added, m_pCurBucket))
  BY <1>1 DEF TableIs, Cursors
<1>3. Chained(Entry, Null, lNext, lPrv, m_pListHead, added) /\ Null \notin Entry
  BY EntryAssumption DEF TableIs, ListIs
<1>4. /\ lNext[m_pListCur] = Null \/ InSeq(added, lNext[m_pListCur])
      /\ lPrv[m_pListCur] = Null \/ InSeq(added, lPrv[m_pListCur])
  BY <1>2, <1>3, ChainedNeighbours
<1>5. m_pListCur' = Null \/ InSeq(added, m_pListCur')
  BY <1>1, <1>4
<1>6. m_pCurBucket' = Null \/ InSeq(added, m_pCurBucket')
  BY <1>1, <1>2
<1> QED
  BY <1>1, <1>5, <1>6, OnlyCursors

\* Starting the bucket iterator keeps it.
LEMMA SetBucketFirstStep ==
  ASSUME TableIs, NEW k \in Key, Table!SetBucketFirst(k)
  PROVE  TableIs' /\ Table!CursorStep
<1> DEFINE i == Table!IndexOf(k)
<1>1. /\ UNCHANGED <<dwKey, cNext, cPrv, m_ppBucketTable, lNext, lPrv, m_pListHead, m_pListTail, added>>
      /\ m_pListCur' = m_pListCur /\ m_pCurBucket' = m_ppBucketTable[i] /\ found' = Null
  BY DEF Table!SetBucketFirst, Table!chainVars, Table!listVars
<1>2. i \in Table!Index
  BY IndexIs
<1> HIDE DEF i
<1>3. PICK c : ChainIs(i, c)
  BY <1>2 DEF TableIs, ChainsAre
<1>4. /\ m_ppBucketTable[i] = FirstOf(Null, c) /\ Len(c) \in Nat
      /\ \A x : InSeq(c, x) => InSeq(added, x)
  BY <1>3, ChainParts DEF TableIs
<1>5. Len(c) # 0 => 1 \in 1..Len(c)
  BY <1>4
<1>6. m_pCurBucket' = Null \/ InSeq(added, m_pCurBucket')
  BY <1>1, <1>4, <1>5 DEF FirstOf, InSeq
<1>7. m_pListCur' = Null \/ InSeq(added, m_pListCur')
  BY <1>1 DEF TableIs, Cursors
<1> QED
  BY <1>1, <1>6, <1>7, OnlyCursors

\* Moving that one on keeps it.
LEMMA GetBucketNextStep ==
  ASSUME TableIs, Table!GetBucketNext
  PROVE  TableIs' /\ Table!CursorStep
<1> DEFINE e == Table!FirstWith(Table!Walk(Entry, cNext, m_pCurBucket), m_dwBucketKey)
<1>1. /\ UNCHANGED <<dwKey, cNext, cPrv, m_ppBucketTable, lNext, lPrv, m_pListHead, m_pListTail, added>>
      /\ m_pListCur' = m_pListCur /\ m_pCurBucket # Null /\ found' = e
      /\ m_pCurBucket' = IF e = Null THEN Null ELSE cNext[e]
  BY DEF Table!GetBucketNext, Table!chainVars, Table!listVars
<1>2. InSeq(added, m_pCurBucket) /\ (m_pListCur = Null \/ InSeq(added, m_pListCur))
  BY <1>1 DEF TableIs, Cursors
<1>3. m_pCurBucket \in Entry /\ dwKey[m_pCurBucket] \in Key
  BY <1>2, ListParts DEF TableIs, TableTypes
<1>4. PICK i \in Table!Index : i = Table!IndexOf(dwKey[m_pCurBucket])
  BY <1>3, IndexIs
<1>5. PICK c : ChainIs(i, c)
  BY <1>4 DEF TableIs, ChainsAre
<1>6. InSeq(c, m_pCurBucket)
  BY <1>3, <1>4, <1>5, IndexIs DEF ChainIs
<1>7. PICK a \in 1..Len(c) : c[a] = m_pCurBucket
  BY <1>6 DEF InSeq
<1>8. Chained(Entry, Null, cNext, cPrv, m_ppBucketTable[i], c) /\ Null \notin Entry /\ IsFiniteSet(Entry)
  BY <1>5, EntryAssumption DEF ChainIs
<1>9. \E t \in Seq(Entry) : Walk(Entry, cNext, c[a]) = t /\ \A j \in 1..Len(t) : InSeq(c, t[j])
  <2> DEFINE h == m_ppBucketTable[i]
  <2>1. Chained(Entry, Null, cNext, cPrv, h, c)
    BY <1>8
  <2> HIDE DEF h, e
  <2> QED
    BY <1>8, <2>1, ChainedFrom
<1>10. PICK t \in Seq(Entry) : Table!Walk(Entry, cNext, m_pCurBucket) = t /\ \A j \in 1..Len(t) : InSeq(c, t[j])
  <2> HIDE DEF e
  <2> QED
    BY <1>7, <1>9, TableOperators
<1>11. e = Table!FirstWith(t, m_dwBucketKey)
  BY <1>10
<1> HIDE DEF e
<1>12. e # Null => InSeq(added, e) /\ (cNext[e] = Null \/ (InSeq(added, cNext[e]) /\ cNext[e] # e))
  BY <1>5, <1>10, <1>11, FoundInChain DEF TableIs
<1>13. m_pCurBucket' = Null \/ InSeq(added, m_pCurBucket')
  BY <1>1, <1>12
<1>14. found' = Null \/ (InSeq(added, found') /\ m_pCurBucket' # found')
  BY <1>1, <1>12
<1>15. m_pListCur' = Null \/ InSeq(added, m_pListCur')
  BY <1>1, <1>2
<1> QED
  BY <1>1, <1>13, <1>14, <1>15, OnlyCursors

\* Removing a key keeps it.
LEMMA RemoveKeyStep ==
  ASSUME TableIs, NEW k \in Key, Table!RemoveKey(k)
  PROVE  TableIs' /\ Table!CursorStep
<1> DEFINE e == Table!GetData(k)
           i == Table!IndexOf(k)
<1>1. /\ e # Null /\ Table!Unchained(e) /\ Table!RemoveList(e) /\ Table!Freed(e) /\ found' = Null
      /\ m_pCurBucket' = IF m_pCurBucket = e THEN cNext[e] ELSE m_pCurBucket
  BY DEF Table!RemoveKey
<1>2. i \in Table!Index
  BY IndexIs
<1>3. e = Table!FirstWith(Table!ChainAt(i), k)
  BY DEF Table!GetData
<1> HIDE DEF e, i
<1>4. PICK c : ChainIs(i, c)
  BY <1>2 DEF TableIs, ChainsAre
<1>5. c \in Seq(Entry) /\ Table!ChainAt(i) = c /\ \A j \in 1..Len(c) : InSeq(c, c[j])
  BY <1>4, ChainParts, ChainMembers DEF TableIs
<1>6. InSeq(added, e)
  BY <1>1, <1>3, <1>4, <1>5, FoundInChain DEF TableIs
<1> QED
  BY <1>1, <1>6, RemoveStep

\* Removing the entry the bucket iterator last answered keeps it.
LEMMA RemoveCurBucketDataStep ==
  ASSUME TableIs, Table!RemoveCurBucketData
  PROVE  TableIs' /\ Table!CursorStep
<1> DEFINE e == m_pLastBucket
<1>1. /\ e # Null /\ found = e /\ Table!Unchained(e) /\ Table!RemoveList(e) /\ Table!Freed(e) /\ found' = Null
      /\ m_pCurBucket' = m_pCurBucket
  BY DEF Table!RemoveCurBucketData, Table!curVars
<1>2. InSeq(added, e) /\ m_pCurBucket # e
  BY <1>1 DEF TableIs, Cursors
<1> HIDE DEF e
<1> QED
  BY <1>1, <1>2, RemoveStep

\* Every call of the table keeps the invariant, and its iterators skip nothing.
LEMMA TableStep ==
  ASSUME TableIs, Table!Next
  PROVE  TableIs' /\ Table!CursorStep
<1>1. ~Table!RemoveHead /\ ~Table!RemoveAll
  BY DEF Table!RemoveHead, Table!RemoveAll
<1> QED
  BY <1>1, AddStep, SetBucketFirstStep, RemoveKeyStep, SetListCurStep, MoveListCurStep,
     GetBucketNextStep, RemoveCurBucketDataStep DEF Table!Next

\* So does a step of something else.
LEMMA TableUnmoved ==
  ASSUME TableIs, UNCHANGED tableVars
  PROVE  TableIs' /\ Table!CursorStep
<1>1. /\ UNCHANGED <<dwKey, cNext, cPrv, m_ppBucketTable, lNext, lPrv, m_pListHead, m_pListTail, added>>
      /\ m_pListCur' = m_pListCur /\ m_pCurBucket' = m_pCurBucket /\ found' = found
  BY DEF tableVars
<1> QED
  BY <1>1, OnlyCursors DEF TableIs, Cursors

-----------------------------------------------------------------------------
(* What follows from the invariants; the emptied table.                    *)

\* Walking the list either way gives the entries added.
LEMMA ListWalks ==
  ASSUME ListIs
  PROVE  /\ Table!HashList = added
         /\ Table!Walk(Entry, lPrv, m_pListTail) = Table!Reverse(Table!HashList)
<1>1. Chained(Entry, Null, lNext, lPrv, m_pListHead, added) /\ m_pListTail = LastOf(Null, added)
  BY DEF ListIs
<1>2. Null \notin Entry /\ IsFiniteSet(Entry)
  BY EntryAssumption
<1>3. Walk(Entry, lNext, m_pListHead) = added /\ Walk(Entry, lPrv, LastOf(Null, added)) = Reverse(added)
  BY <1>1, <1>2, ChainedWalks
<1> QED
  BY <1>1, <1>3, TableOperators DEF Table!HashList

\* The invariant: the list and the chains agree.
LEMMA TableChainsRight ==
  ASSUME TableIs
  PROVE  Table!ChainsAgree
<1>1. ListIs /\ TableTypes /\ ChainsAre
  BY DEF TableIs
<1>2. /\ added \in Seq(Entry) /\ Distinct(added) /\ DOMAIN added = 1..Len(added)
      /\ \A x \in Entry : InSeq(added, x) <=> dwKey[x] # Null
      /\ \A x : InSeq(added, x) => x \in Entry /\ dwKey[x] # Null
      /\ Table!HashList = added
  BY <1>1, ListParts, ListWalks
<1>3. \A x : x \in Table!ToSet(added) <=> InSeq(added, x)
  BY <1>2, TableOperators DEF InSeq
<1>4. ASSUME NEW i \in Table!Index
      PROVE  /\ Table!ToSet(Table!ChainAt(i)) = {e \in Table!ToSet(added) : Table!IndexOf(dwKey[e]) = i}
             /\ Table!InOrderOf(Table!ChainAt(i), added)
  <2>1. PICK c : ChainIs(i, c)
    BY <1>1 DEF ChainsAre
  <2>2. /\ Table!ChainAt(i) = c /\ c \in Seq(Entry) /\ Ordered(c, added) /\ DOMAIN c = 1..Len(c)
        /\ \A x : InSeq(c, x) => x \in Entry /\ InSeq(added, x)
        /\ \A x \in Entry : InSeq(c, x) <=> dwKey[x] # Null /\ Table!IndexOf(dwKey[x]) = i
    BY <1>1, <2>1, ChainParts
  <2>3. \A x : x \in Table!ToSet(c) <=> InSeq(c, x)
    BY <2>2, TableOperators DEF InSeq
  <2>4. Table!ToSet(c) = {e \in Table!ToSet(added) : Table!IndexOf(dwKey[e]) = i}
    BY <1>2, <1>3, <2>2, <2>3
  <2>5. \A a, b \in 1..Len(c) : a < b => \E p, q \in 1..Len(added) : p < q /\ added[p] = c[a] /\ added[q] = c[b]
    BY <1>2, <2>2, OrderedIs, SMTT(40)
  <2>6. Table!InOrderOf(c, added)
    BY <1>2, <2>2, <2>5, SMTT(40) DEF Table!InOrderOf
  <2> QED
    BY <2>2, <2>4, <2>6
<1>5. ASSUME NEW k \in Key
      PROVE  Table!GetData(k) = Table!FirstWith(added, k)
  <2> DEFINE i == Table!IndexOf(k)
  <2>1. i \in Table!Index /\ k # Null
    BY IndexIs
  <2>2. Table!GetData(k) = Table!FirstWith(Table!ChainAt(i), k)
    BY DEF Table!GetData
  <2>2a. i = Table!IndexOf(k)
    OBVIOUS
  <2> HIDE DEF i
  <2>3. PICK c : ChainIs(i, c)
    BY <1>1, <2>1 DEF ChainsAre
  <2>4. /\ Table!ChainAt(i) = c /\ c \in Seq(Entry) /\ Ordered(c, added)
        /\ \A x : InSeq(c, x) => InSeq(added, x)
        /\ \A x \in Entry : InSeq(c, x) <=> dwKey[x] # Null /\ Table!IndexOf(dwKey[x]) = i
    BY <1>1, <2>3, ChainParts
  <2>5. \A x : InSeq(added, x) /\ dwKey[x] = k => InSeq(c, x)
    BY <1>2, <2>1, <2>2a, <2>4
  <2>6. First(Null, dwKey, c, k) = First(Null, dwKey, added, k)
    BY <1>2, <2>4, <2>5, FirstOfPart
  <2> QED
    BY <2>2, <2>4, <2>6, TableOperators
<1> QED
  BY <1>2, <1>4, <1>5 DEF Table!ChainsAgree

\* The invariant: each is the same from both ends.
LEMMA TableBothWays ==
  ASSUME TableIs
  PROVE  Table!BothWays
<1>1. ListIs /\ ChainsAre
  BY DEF TableIs
<1>2. ASSUME NEW i \in Table!Index, Table!ChainAt(i) # << >>
      PROVE  Table!Walk(Entry, cPrv, Table!Last(Table!ChainAt(i))) = Table!Reverse(Table!ChainAt(i))
  <2>1. PICK c : ChainIs(i, c)
    BY <1>1 DEF ChainsAre
  <2>2. Table!ChainAt(i) = c /\ c \in Seq(Entry) /\ Len(c) \in Nat
    BY <1>1, <2>1, ChainParts
  <2>3. Table!Last(c) = LastOf(Null, c)
    BY <1>2, <2>2, TableOperators, EmptySeq DEF Last, LastOf
  <2> DEFINE h == m_ppBucketTable[i]
  <2>4. Chained(Entry, Null, cNext, cPrv, h, c) /\ Null \notin Entry /\ IsFiniteSet(Entry)
    BY <2>1, EntryAssumption DEF ChainIs
  <2> HIDE DEF h
  <2>5. Walk(Entry, cPrv, LastOf(Null, c)) = Reverse(c)
    BY <2>4, ChainedWalks
  <2> QED
    BY <2>2, <2>3, <2>5, TableOperators
<1>3. Table!Walk(Entry, lPrv, m_pListTail) = Table!Reverse(Table!HashList)
  BY <1>1, ListWalks
<1> QED
  BY <1>2, <1>3 DEF Table!BothWays

\* The invariant: the iterators stay in the table.
LEMMA TableIteratorSync ==
  ASSUME TableIs
  PROVE  Table!IteratorSync
BY ListParts DEF TableIs, Cursors, Table!IteratorSync

\* An empty table satisfies it.
LEMMA TableStart ==
  ASSUME Table!Init
  PROVE  TableIs
<1>1. /\ dwKey = [e \in Entry |-> Null] /\ cNext = [e \in Entry |-> Null] /\ cPrv = [e \in Entry |-> Null]
      /\ lNext = [e \in Entry |-> Null] /\ lPrv = [e \in Entry |-> Null]
      /\ m_ppBucketTable = [i \in Table!Index |-> Null] /\ m_pListHead = Null /\ m_pListTail = Null
      /\ m_pListCur = Null /\ m_pCurBucket = Null /\ added = << >> /\ found = Null
  BY DEF Table!Init, Table!NoLinks
<1>2. TableTypes
  BY <1>1 DEF TableTypes
<1>3. /\ << >> \in Seq(Entry) /\ Len(<< >>) = 0 /\ \A x : ~InSeq(<< >>, x)
      /\ \A x, y : ~Ahead(<< >>, x, y)
  BY EmptySeq DEF InSeq, Ahead
<1>4. \A next, prev : Chained(Entry, Null, next, prev, Null, << >>)
  BY <1>3 DEF Chained, Distinct, NextLinks, PrevLinks, FirstOf
<1>5. ListIs
  BY <1>1, <1>3, <1>4 DEF ListIs, LastOf
<1>6. \A i \in Table!Index : ChainIs(i, << >>)
  BY <1>1, <1>3, <1>4 DEF ChainIs, Ordered
<1>7. ChainsAre
  BY <1>6 DEF ChainsAre
<1>8. Cursors
  BY <1>1 DEF Cursors
<1> QED
  BY <1>2, <1>5, <1>7, <1>8 DEF TableIs

\* The inductive invariant of a table emptied from its head: its list holds what was
\* added since, in that order; nothing is said of its chains.
EmptiedIs ==
  /\ added \in Seq(EmptiedEntry) /\ Distinct(added) /\ NextLinks(Null, lNext, added)
  /\ m_pListHead = FirstOf(Null, added) /\ (Len(added) # 0 => m_pListTail = LastOf(Null, added))
  /\ dwKey \in [EmptiedEntry -> Key \union {Null}]
  /\ \A x \in EmptiedEntry : InSeq(added, x) <=> dwKey[x] # Null
  /\ m_dwDataNum = Len(added)

\* The operators of the instance are those of Walks.
LEMMA EmptiedOperators ==
  /\ \A S, next, h : Emptied!Walk(S, next, h) = Walk(S, next, h)
  /\ \A s, k : Emptied!RemoveAt(s, k) = RemoveAt(s, k)
<1>1. \A S, next, h : Emptied!Walk(S, next, h) = Walk(S, next, h)
  BY DEF Emptied!Walk, Walk, Emptied!Cardinality, Cardinality
<1>2. \A s, k : Emptied!RemoveAt(s, k) = RemoveAt(s, k)
  BY DEF Emptied!RemoveAt, RemoveAt
<1> QED
  BY <1>1, <1>2

\* What EmptiedIs says.
LEMMA EmptiedParts ==
  ASSUME EmptiedIs
  PROVE  /\ added \in Seq(EmptiedEntry) /\ Distinct(added) /\ Len(added) \in Nat
         /\ \A i \in 1..Len(added) : added[i] \in EmptiedEntry
         /\ m_pListHead = (IF Len(added) = 0 THEN Null ELSE added[1])
         /\ Len(added) # 0 => m_pListTail = added[Len(added)]
         /\ Null \notin EmptiedEntry /\ IsFiniteSet(EmptiedEntry)
BY EntryAssumption, LenProperties, ElementOfSeq DEF EmptiedIs, FirstOf, LastOf

\* Add keeps it.
LEMMA EmptiedAdd ==
  ASSUME EmptiedIs, NEW k \in Key, Emptied!Add(k)
  PROVE  EmptiedIs'
<1> DEFINE s == added
<1>1. PICK e \in EmptiedEntry :
        /\ dwKey[e] = Null /\ dwKey' = [dwKey EXCEPT ![e] = k] /\ Emptied!AddList(e)
        /\ m_dwDataNum' = m_dwDataNum + 1 /\ added' = Append(added, e)
  BY DEF Emptied!Add
<1>2. /\ s \in Seq(EmptiedEntry) /\ Distinct(s) /\ Len(s) \in Nat
      /\ \A i \in 1..Len(s) : s[i] \in EmptiedEntry
      /\ m_pListHead = (IF Len(s) = 0 THEN Null ELSE s[1])
      /\ Len(s) # 0 => m_pListTail = s[Len(s)]
      /\ Null \notin EmptiedEntry
  BY EmptiedParts
<1>3. ~InSeq(s, e) /\ NextLinks(Null, lNext, s) /\ m_pListHead = FirstOf(Null, s)
  BY <1>1 DEF EmptiedIs
<1>4. Len(s) # 0 => 1 \in 1..Len(s) /\ Len(s) \in 1..Len(s)
  BY <1>2
<1>5. m_pListHead = Null <=> Len(s) = 0
  BY <1>2, <1>4
<1>6. /\ \A x \in EmptiedEntry : lNext'[x] = IF x = e THEN Null
                                             ELSE IF m_pListHead # Null /\ x = m_pListTail THEN e
                                             ELSE lNext[x]
      /\ m_pListHead' = IF Len(s) = 0 THEN e ELSE m_pListHead
      /\ m_pListTail' = e
  BY <1>1, <1>5 DEF Emptied!AddList
<1>7. NextAppended(Null, lNext, lNext', s, e)
  <2>1. lNext'[e] = Null
    BY <1>6
  <2>2. ASSUME NEW i \in 1..Len(s)
        PROVE  lNext'[s[i]] = IF i = Len(s) THEN e ELSE lNext[s[i]]
    <3>1. s[i] \in EmptiedEntry /\ s[i] # e /\ m_pListHead # Null /\ (s[i] = m_pListTail <=> i = Len(s))
      BY <1>2, <1>3, <1>4, <1>5, <2>2 DEF InSeq, Distinct
    <3> QED
      BY <1>6, <3>1
  <2> QED
    BY <2>1, <2>2 DEF NextAppended
<1> HIDE DEF s
<1>8. NextLinks(Null, lNext', Append(s, e))
  <2> DEFINE next2 == lNext'
  <2>1. NextAppended(Null, lNext, next2, s, e)
    BY <1>7
  <2> HIDE DEF next2
  <2>2. NextLinks(Null, next2, Append(s, e))
    BY <1>2, <1>3, <2>1, AppendNext
  <2> QED
    BY <2>2 DEF next2
<1>9. Distinct(Append(s, e))
  BY <1>2, <1>3, AppendDistinct
<1>10. /\ Append(s, e) \in Seq(EmptiedEntry) /\ Len(Append(s, e)) = Len(s) + 1
       /\ FirstOf(Null, Append(s, e)) = IF Len(s) = 0 THEN e ELSE FirstOf(Null, s)
       /\ LastOf(Null, Append(s, e)) = e
       /\ \A y : InSeq(Append(s, e), y) <=> y = e \/ InSeq(s, y)
  BY <1>2, AppendEnds
<1>11. k # Null
  BY EntryAssumption
<1>12. /\ dwKey' \in [EmptiedEntry -> Key \union {Null}]
       /\ \A x \in EmptiedEntry : InSeq(Append(s, e), x) <=> dwKey'[x] # Null
  BY <1>1, <1>10, <1>11 DEF EmptiedIs, s
<1>13. added' = Append(s, e) /\ m_dwDataNum' = Len(s) + 1
  BY <1>1 DEF EmptiedIs, s
<1> QED
  BY <1>3, <1>6, <1>8, <1>9, <1>10, <1>12, <1>13 DEF EmptiedIs

\* RemoveHead keeps it.
LEMMA EmptiedRemoveHead ==
  ASSUME EmptiedIs, Emptied!RemoveHead
  PROVE  EmptiedIs'
<1>1. /\ m_pListHead # Null /\ m_pListHead' = lNext[m_pListHead] /\ Emptied!Freed(m_pListHead)
      /\ lNext' = lNext /\ m_pListTail' = m_pListTail
  BY DEF Emptied!RemoveHead
<1>2. /\ added \in Seq(EmptiedEntry) /\ Distinct(added) /\ Len(added) \in Nat
      /\ m_pListHead = (IF Len(added) = 0 THEN Null ELSE added[1])
      /\ Len(added) # 0 => m_pListTail = added[Len(added)]
      /\ DOMAIN added = 1..Len(added)
      /\ \A i \in 1..Len(added) : added[i] \in EmptiedEntry
  BY EmptiedParts
<1>3. Len(added) # 0 /\ 1 \in 1..Len(added) /\ m_pListHead = added[1]
  BY <1>1, <1>2
<1>4. NextLinks(Null, lNext, added)
  BY DEF EmptiedIs
<1>5. lNext[added[1]] = IF Len(added) = 1 THEN Null ELSE added[2]
  BY <1>3, <1>4 DEF NextLinks
<1> DEFINE q == CHOOSE i \in DOMAIN added : added[i] = m_pListHead
<1>6. q = 1
  <2>1. q \in 1..Len(added) /\ added[q] = added[1]
    BY <1>2, <1>3
  <2> HIDE DEF q
  <2> QED
    BY <1>2, <1>3, <2>1 DEF Distinct
<1>7. /\ added' = Emptied!RemoveAt(added, q) /\ m_dwDataNum' = Len(added) - 1
      /\ dwKey' = [dwKey EXCEPT ![added[1]] = Null]
  BY <1>1, <1>3 DEF Emptied!Freed, EmptiedIs
<1> HIDE DEF q
<1>8. added' = RemoveAt(added, 1)
  BY <1>6, <1>7, EmptiedOperators
<1>9. RemoveAt(added, 1) \in Seq(EmptiedEntry) /\ Len(RemoveAt(added, 1)) = Len(added) - 1
  BY <1>2, <1>3, RemoveAtFacts
<1>10. Distinct(RemoveAt(added, 1))
  BY <1>2, <1>3, RemoveDistinct
<1>11. NextLinks(Null, lNext, RemoveAt(added, 1))
  <2> DEFINE one == 1
             next2 == lNext
  <2>1. /\ one > 1 => next2[added[one - 1]] = lNext[added[one]]
        /\ \A i \in 1..Len(added) : i # one - 1 /\ i # one => next2[added[i]] = lNext[added[i]]
        /\ one \in 1..Len(added)
    BY <1>3
  <2> HIDE DEF one
  <2>2. NextLinks(Null, next2, RemoveAt(added, one))
    BY <1>2, <1>4, <2>1, RemoveNext
  <2> QED
    BY <2>2 DEF one
<1>12. /\ FirstOf(Null, RemoveAt(added, 1)) = IF Len(added) = 1 THEN Null ELSE added[2]
       /\ LastOf(Null, RemoveAt(added, 1)) =
            IF 1 # Len(added) THEN added[Len(added)] ELSE IF Len(added) = 1 THEN Null ELSE added[Len(added) - 1]
  <2>1. /\ FirstOf(Null, RemoveAt(added, 1)) =
              IF 1 # 1 THEN added[1] ELSE IF Len(added) = 1 THEN Null ELSE added[2]
        /\ LastOf(Null, RemoveAt(added, 1)) =
              IF 1 # Len(added) THEN added[Len(added)] ELSE IF Len(added) = 1 THEN Null ELSE added[Len(added) - 1]
    BY <1>2, <1>3, RemoveEnds
  <2> QED
    BY <2>1
<1>13. \A y : InSeq(RemoveAt(added, 1), y) <=> y # added[1] /\ InSeq(added, y)
  BY <1>2, <1>3, RemoveInSeq
<1>14. /\ dwKey' \in [EmptiedEntry -> Key \union {Null}]
       /\ \A x \in EmptiedEntry : InSeq(RemoveAt(added, 1), x) <=> dwKey'[x] # Null
  BY <1>2, <1>3, <1>7, <1>13 DEF EmptiedIs
<1>15. m_pListHead' = FirstOf(Null, RemoveAt(added, 1))
  BY <1>1, <1>3, <1>5, <1>12
<1>16. Len(RemoveAt(added, 1)) # 0 => m_pListTail' = LastOf(Null, RemoveAt(added, 1))
  BY <1>1, <1>2, <1>9, <1>12
<1> QED
  BY <1>1, <1>7, <1>8, <1>9, <1>10, <1>11, <1>14, <1>15, <1>16 DEF EmptiedIs

\* With no entry left it holds.
LEMMA EmptiedNothing ==
  ASSUME dwKey' = [e \in EmptiedEntry |-> Null], m_dwDataNum' = 0, m_pListHead' = Null, added' = << >>
  PROVE  EmptiedIs'
<1>1. << >> \in Seq(EmptiedEntry) /\ Len(<< >>) = 0 /\ \A x : ~InSeq(<< >>, x)
  BY EmptySeq DEF InSeq
<1> QED
  BY <1>1 DEF EmptiedIs, Distinct, NextLinks, FirstOf

\* Every call keeps it.
LEMMA EmptiedStep ==
  ASSUME EmptiedIs, Emptied!Next
  PROVE  EmptiedIs'
<1>1. CASE Emptied!RemoveAll
  BY <1>1, EmptiedNothing DEF Emptied!RemoveAll, Emptied!NoLinks
<1>2. CASE Emptied!GetBucketNext
  BY <1>2 DEF Emptied!GetBucketNext, Emptied!chainVars, Emptied!listVars, EmptiedIs
<1>3. \A k : ~Emptied!SetBucketFirst(k) /\ ~Emptied!RemoveKey(k)
  BY DEF Emptied!SetBucketFirst, Emptied!RemoveKey
<1>4. ~Emptied!SetListCur /\ ~Emptied!MoveListCur /\ ~Emptied!RemoveCurBucketData
  BY DEF Emptied!SetListCur, Emptied!MoveListCur, Emptied!RemoveCurBucketData
<1> QED
  BY <1>1, <1>2, <1>3, <1>4, EmptiedAdd, EmptiedRemoveHead DEF Emptied!Next

\* It says that the list agrees with what was added.
LEMMA EmptiedAgrees ==
  ASSUME EmptiedIs
  PROVE  Emptied!ListAgrees
<1>1. /\ added \in Seq(EmptiedEntry) /\ Distinct(added) /\ NextLinks(Null, lNext, added)
      /\ m_pListHead = FirstOf(Null, added) /\ m_dwDataNum = Len(added)
  BY DEF EmptiedIs
<1>2. Null \notin EmptiedEntry /\ IsFiniteSet(EmptiedEntry)
  BY EntryAssumption
<1>3. Walk(EmptiedEntry, lNext, m_pListHead) = added
  BY <1>1, <1>2, WalkIs
<1> QED
  BY <1>1, <1>3, EmptiedOperators DEF Emptied!ListAgrees, Emptied!HashList

\* The invariant of the two tables.
TableInv ==
  /\ container = "table" => TableIs
  /\ container = "emptied table" => EmptiedIs

\* It holds at the start.
LEMMA TablesStart == Init => TableInv
<1> SUFFICES ASSUME Init
             PROVE  TableInv
  OBVIOUS
<1>1. container = "table" => TableIs
  BY TableStart DEF Init
<1>2. ASSUME container = "emptied table"
      PROVE  EmptiedIs
  <2>1. /\ dwKey = [e \in EmptiedEntry |-> Null] /\ m_pListHead = Null /\ m_dwDataNum = 0 /\ added = << >>
    BY <1>2 DEF Init, Emptied!Init, Emptied!NoLinks
  <2>2. << >> \in Seq(EmptiedEntry) /\ Len(<< >>) = 0 /\ \A x : ~InSeq(<< >>, x)
    BY EmptySeq DEF InSeq
  <2> QED
    BY <2>1, <2>2 DEF EmptiedIs, Distinct, NextLinks, FirstOf
<1> QED
  BY <1>1, <1>2 DEF TableInv

\* Every step keeps it, and the iterators skip nothing.
LEMMA TablesStep ==
  TableInv /\ [Next]_vars => TableInv' /\ [container = "table" => Table!CursorStep]_vars
<1> SUFFICES ASSUME TableInv, [Next]_vars
             PROVE  TableInv' /\ (container = "table" => Table!CursorStep)
  OBVIOUS
<1>1. CASE UNCHANGED <<container, tableVars>>
  <2>1. container = "table" => TableIs' /\ Table!CursorStep
    BY <1>1, TableUnmoved DEF TableInv
  <2>2. container = "emptied table" => EmptiedIs'
    BY <1>1 DEF TableInv, EmptiedIs, tableVars
  <2> QED
    BY <1>1, <2>1, <2>2 DEF TableInv
<1>2. CASE TableNext
  <2>1. container' = container
    BY <1>2 DEF TableNext
  <2>2. CASE container = "table" /\ Table!Next
    BY <2>1, <2>2, TableStep DEF TableInv
  <2>3. CASE container = "emptied table" /\ Emptied!Next
    BY <2>1, <2>3, EmptiedStep DEF TableInv
  <2> QED
    BY <1>2, <2>2, <2>3 DEF TableNext
<1>3. CASE LinkedNext \/ NodesNext \/ UNCHANGED vars
  BY <1>1, <1>3 DEF LinkedNext, NodesNext, vars
<1> QED
  BY <1>2, <1>3 DEF Next

\* For any entries, keys and number of buckets: the list and the chains of the table
\* agree, each is the same from both ends, and both iterators stay on entries that
\* are in it; a table emptied from its head holds what was added since
\* (SolarHashTable.h:141-235, 224-355, 459-511).
THEOREM TableIsRight == Spec => []TableRight
<1>1. TableInv => TableRight
  BY TableChainsRight, TableBothWays, TableIteratorSync, EmptiedAgrees DEF TableInv, TableRight
<1>2. TableInv /\ [Next]_vars => TableInv'
  BY TablesStep
<1> QED
  BY <1>1, <1>2, TablesStart, PTL DEF Spec

\* For any entries, keys and number of buckets: whatever is deleted meanwhile, an
\* iterator of the table moves over no entry that stays (SolarHashTable.h:200-235).
THEOREM IteratorSkipsNothing == Spec => [][container = "table" => Table!CursorStep]_vars
<1>1. TableInv /\ [Next]_vars => TableInv' /\ [container = "table" => Table!CursorStep]_vars
  BY TablesStep
<1> QED
  BY <1>1, TablesStart, PTL DEF Spec

-----------------------------------------------------------------------------
\* For every value of the constants: every call of the containers does what it
\* promises.  The three lists are sequences, a deletion takes one element out of
\* CLinkedlist and hands it over, and the iterators of the table skip nothing.
THEOREM CallsAreRight == Spec => CallsRight
BY ListsAreSequences, DeletionTakesOne, IteratorSkipsNothing DEF CallsRight
=============================================================================
