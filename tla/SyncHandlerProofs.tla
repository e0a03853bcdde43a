------------------------- MODULE SyncHandlerProofs -------------------------
(***************************************************************************)
(* For any pools, io threads, peers and bounds: moving a session and       *)
(* splicing a list keep every session in exactly one place, and the        *)
(* threads of SyncHandler do nothing else to the session lists.  With what *)
(* these moves do to the lengths of the lists, m_numActiveSessions is      *)
(* right at every step of Update; with where each session is, it follows   *)
(* what each is bound to, what epoll and the io threads know of it, and    *)
(* that the io threads work for a session one at a time.                   *)
(*                                                                         *)
(* From there, what passes from a peer through the io threads and the      *)
(* receive buffer to the object of a session, and back through the send    *)
(* buffer: the streams are whole, the objects hear what NetworkObjects     *)
(* promises, sends are not stuck, and what the sessions are bound to is    *)
(* right in every reachable state.                                         *)
(***************************************************************************)
EXTENDS SyncHandler, FiniteSetTheorems, SequenceTheorems, TLAPS

\* A sequence without one of its elements.
LEMMA WithoutFacts ==
  ASSUME NEW s \in Seq(Session), NEW i \in 1..Len(s)
  PROVE  /\ Lists!Without(s, i) \in Seq(Session)
         /\ Len(Lists!Without(s, i)) = Len(s) - 1
         /\ \A j \in 1..(Len(s) - 1) : Lists!Without(s, i)[j] = IF j < i THEN s[j] ELSE s[j + 1]
  <1>1. Len(s) \in Nat /\ Len(s) - 1 \in Nat /\ \A j \in 1..Len(s) : s[j] \in Session
    BY LenProperties, ElementOfSeq
  <1>2. \A j \in 1..(Len(s) - 1) : (IF j < i THEN s[j] ELSE s[j + 1]) \in Session
    BY <1>1
  <1>3. [j \in 1..(Len(s) - 1) |-> IF j < i THEN s[j] ELSE s[j + 1]] \in Seq(Session)
    BY <1>1, <1>2, IsASeq
  <1>4. DOMAIN Lists!Without(s, i) = 1..(Len(s) - 1)
    BY DEF Lists!Without
  <1>5. Len(Lists!Without(s, i)) = Len(s) - 1
    BY <1>1, <1>3, <1>4, LenProperties DEF Lists!Without
  <1>6. QED
    BY <1>3, <1>5 DEF Lists!Without

\* What Moved does to each list.
LEMMA MovedFacts ==
  ASSUME NEW l \in [Place -> Seq(Session)], NEW p \in Place, NEW q \in Place, p # q,
         NEW i \in 1..Len(l[p])
  PROVE  /\ Lists!Moved(l, p, i, q) \in [Place -> Seq(Session)]
         /\ Len(Lists!Moved(l, p, i, q)[p]) = Len(l[p]) - 1
         /\ Len(Lists!Moved(l, p, i, q)[q]) = Len(l[q]) + 1
         /\ \A r \in Place \ {p, q} : Lists!Moved(l, p, i, q)[r] = l[r]
         /\ \A j \in 1..(Len(l[p]) - 1) :
              Lists!Moved(l, p, i, q)[p][j] = IF j < i THEN l[p][j] ELSE l[p][j + 1]
         /\ \A j \in 1..Len(l[q]) : Lists!Moved(l, p, i, q)[q][j] = l[q][j]
         /\ Lists!Moved(l, p, i, q)[q][Len(l[q]) + 1] = l[p][i]
  <1> DEFINE m == Lists!Moved(l, p, i, q)
  <1>1. l[p] \in Seq(Session) /\ l[q] \in Seq(Session) /\ l[p][i] \in Session
    BY ElementOfSeq
  <1>2. m[p] = Lists!Without(l[p], i) /\ m[q] = Append(l[q], l[p][i])
        /\ \A r \in Place \ {p, q} : m[r] = l[r]
    BY DEF Lists!Moved
  <1>3. /\ Append(l[q], l[p][i]) \in Seq(Session)
        /\ Len(Append(l[q], l[p][i])) = Len(l[q]) + 1
        /\ \A j \in 1..Len(l[q]) : Append(l[q], l[p][i])[j] = l[q][j]
        /\ Append(l[q], l[p][i])[Len(l[q]) + 1] = l[p][i]
    BY <1>1, AppendProperties
  <1>4. /\ Lists!Without(l[p], i) \in Seq(Session)
        /\ Len(Lists!Without(l[p], i)) = Len(l[p]) - 1
        /\ \A j \in 1..(Len(l[p]) - 1) :
             Lists!Without(l[p], i)[j] = IF j < i THEN l[p][j] ELSE l[p][j + 1]
    BY <1>1, WithoutFacts
  <1>5. m \in [Place -> Seq(Session)]
    BY <1>3, <1>4 DEF Lists!Moved
  <1>6. QED
    BY <1>2, <1>3, <1>4, <1>5

\* A session that moves is in one place again.
LEMMA MovedPlaced ==
  ASSUME NEW l, Lists!Placed(l), NEW p \in Place, NEW q \in Place, p # q, NEW i \in 1..Len(l[p])
  PROVE  Lists!Placed(Lists!Moved(l, p, i, q))
  <1> DEFINE m == Lists!Moved(l, p, i, q)
  <1>1. l \in [Place -> Seq(Session)] /\ Lists!Exclusive(l) /\ Lists!Complete(l)
    BY DEF Lists!Placed
  <1>2. /\ m \in [Place -> Seq(Session)]
        /\ Len(m[p]) = Len(l[p]) - 1 /\ Len(m[q]) = Len(l[q]) + 1
        /\ \A r \in Place \ {p, q} : m[r] = l[r]
        /\ \A j \in 1..(Len(l[p]) - 1) : m[p][j] = IF j < i THEN l[p][j] ELSE l[p][j + 1]
        /\ \A j \in 1..Len(l[q]) : m[q][j] = l[q][j]
        /\ m[q][Len(l[q]) + 1] = l[p][i]
    BY <1>1, MovedFacts, SMTT(40)
  <1>3. \A r \in Place : Len(l[r]) \in Nat /\ Len(m[r]) \in Nat
    BY <1>1, <1>2, LenProperties
  <1> HIDE DEF m
  \* Where the session at position j of m's list r was in l.
  <1> DEFINE fromList(r, j) == IF r = q /\ j = Len(l[q]) + 1 THEN p ELSE r
             fromPos(r, j)  == IF r = q /\ j = Len(l[q]) + 1 THEN i
                               ELSE IF r = p /\ j >= i THEN j + 1 ELSE j
  <1>4. ASSUME NEW r \in Place, NEW j \in 1..Len(m[r])
        PROVE  /\ fromList(r, j) \in Place
               /\ fromPos(r, j) \in 1..Len(l[fromList(r, j)])
               /\ m[r][j] = l[fromList(r, j)][fromPos(r, j)]
    <2>1. CASE r = q
      <3>1. CASE j = Len(l[q]) + 1
        BY <2>1, <3>1, <1>2
      <3>2. CASE j # Len(l[q]) + 1
        <4>1. j \in 1..Len(l[q]) /\ q # p
          BY <2>1, <3>2, <1>2, <1>3
        <4>2. m[q][j] = l[q][j]
          BY <4>1, <1>2
        <4>3. fromList(r, j) = q /\ fromPos(r, j) = j
          BY <2>1, <3>2, <4>1
        <4>4. QED BY <2>1, <4>1, <4>2, <4>3
      <3>3. QED BY <3>1, <3>2
    <2>2. CASE r = p
      BY <2>2, <1>2, <1>3
    <2>3. CASE r \notin {p, q}
      BY <2>3, <1>2, <1>3
    <2>4. QED BY <2>1, <2>2, <2>3
  <1>5. Lists!Exclusive(m)
    <2> SUFFICES ASSUME NEW r1 \in Place, NEW r2 \in Place,
                        NEW j1 \in 1..Len(m[r1]), NEW j2 \in 1..Len(m[r2]),
                        m[r1][j1] = m[r2][j2]
                 PROVE  r1 = r2 /\ j1 = j2
      BY DEF Lists!Exclusive
    <2>1. l[fromList(r1, j1)][fromPos(r1, j1)] = l[fromList(r2, j2)][fromPos(r2, j2)]
      BY <1>4
    <2>2. /\ fromList(r1, j1) \in Place /\ fromList(r2, j2) \in Place
          /\ fromPos(r1, j1) \in 1..Len(l[fromList(r1, j1)])
          /\ fromPos(r2, j2) \in 1..Len(l[fromList(r2, j2)])
      BY <1>4
    <2> HIDE DEF fromList, fromPos
    <2>3. fromList(r1, j1) = fromList(r2, j2) /\ fromPos(r1, j1) = fromPos(r2, j2)
      BY <2>1, <2>2, <1>1 DEF Lists!Exclusive
    <2> USE DEF fromList, fromPos
    <2>4. CASE r1 = q /\ j1 = Len(l[q]) + 1
      <3>1. CASE r2 = q /\ j2 = Len(l[q]) + 1
        BY <2>4, <3>1
      <3>2. CASE ~(r2 = q /\ j2 = Len(l[q]) + 1)
        BY <2>3, <2>4, <3>2, <1>3
      <3>3. QED BY <3>1, <3>2
    <2>5. CASE ~(r1 = q /\ j1 = Len(l[q]) + 1)
      <3>1. CASE r2 = q /\ j2 = Len(l[q]) + 1
        BY <2>3, <2>5, <3>1, <1>3
      <3>2. CASE ~(r2 = q /\ j2 = Len(l[q]) + 1)
        BY <2>3, <2>5, <3>2, <1>3
      <3>3. QED BY <3>1, <3>2
    <2>6. QED BY <2>4, <2>5
  <1>6. Lists!Complete(m)
    <2> SUFFICES ASSUME NEW s \in Session
                 PROVE  \E r \in Place : \E j \in 1..Len(m[r]) : m[r][j] = s
      BY DEF Lists!Complete
    <2>a. PICK r \in Place : \E k \in 1..Len(l[r]) : l[r][k] = s
      BY <1>1 DEF Lists!Complete
    <2>1. PICK j \in 1..Len(l[r]) : l[r][j] = s
      BY <2>a
    <2>2. CASE r = p /\ j = i
      <3>1. m[q][Len(l[q]) + 1] = s /\ Len(l[q]) + 1 \in 1..Len(m[q])
        BY <2>1, <2>2, <1>2, <1>3
      <3>2. QED BY <3>1
    <2>3. CASE r = p /\ j < i
      <3>1. j \in 1..Len(m[p]) /\ j \in 1..(Len(l[p]) - 1) /\ l[p][j] = s
        BY <2>1, <2>3, <1>2, <1>3
      <3>a. m[p][j] = s
        BY <3>1, <2>3, <1>2
      <3>2. QED BY <3>1, <3>a
    <2>4. CASE r = p /\ j > i
      <3>1. j - 1 \in 1..Len(m[p]) /\ j - 1 \in 1..(Len(l[p]) - 1) /\ ~(j - 1 < i) /\ j - 1 + 1 = j
        BY <2>1, <2>4, <1>2, <1>3
      <3>2. m[p][j - 1] = s
        BY <3>1, <2>1, <2>4, <1>2
      <3>3. QED BY <3>1, <3>2
    <2>5. CASE r = q
      <3>1. m[q][j] = s /\ j \in 1..Len(m[q])
        BY <2>1, <2>5, <1>2, <1>3
      <3>2. QED BY <3>1
    <2>6. CASE r \notin {p, q}
      BY <2>1, <2>6, <1>2
    <2>7. QED BY <2>2, <2>3, <2>4, <2>5, <2>6, <2>1, <1>3
  <1>7. QED BY <1>2, <1>5, <1>6 DEF Lists!Placed, m

\* What Spliced does to each list.
LEMMA SplicedFacts ==
  ASSUME NEW l \in [Place -> Seq(Session)], NEW p \in Place, NEW q \in Place, p # q
  PROVE  /\ Lists!Spliced(l, p, q) \in [Place -> Seq(Session)]
         /\ Len(Lists!Spliced(l, p, q)[p]) = 0
         /\ Len(Lists!Spliced(l, p, q)[q]) = Len(l[q]) + Len(l[p])
         /\ \A r \in Place \ {p, q} : Lists!Spliced(l, p, q)[r] = l[r]
         /\ \A j \in 1..Len(l[q]) : Lists!Spliced(l, p, q)[q][j] = l[q][j]
         /\ \A j \in 1..Len(l[p]) : Lists!Spliced(l, p, q)[q][Len(l[q]) + j] = l[p][j]
  <1> DEFINE m == Lists!Spliced(l, p, q)
  <1>1. l[p] \in Seq(Session) /\ l[q] \in Seq(Session)
    OBVIOUS
  <1>2. m[p] = << >> /\ m[q] = l[q] \o l[p] /\ \A r \in Place \ {p, q} : m[r] = l[r]
    BY DEF Lists!Spliced
  <1>3. /\ l[q] \o l[p] \in Seq(Session)
        /\ Len(l[q] \o l[p]) = Len(l[q]) + Len(l[p])
        /\ \A k \in 1..(Len(l[q]) + Len(l[p])) :
             (l[q] \o l[p])[k] = IF k <= Len(l[q]) THEN l[q][k] ELSE l[p][k - Len(l[q])]
    BY <1>1, ConcatProperties
  <1>4. << >> \in Seq(Session) /\ Len(<< >>) = 0
    OBVIOUS
  <1>5. m \in [Place -> Seq(Session)]
    BY <1>3, <1>4 DEF Lists!Spliced
  <1>6. Len(l[q]) \in Nat /\ Len(l[p]) \in Nat
    BY <1>1, LenProperties
  <1>7. \A j \in 1..Len(l[q]) : m[q][j] = l[q][j]
    BY <1>2, <1>3, <1>6
  <1>8. \A j \in 1..Len(l[p]) : m[q][Len(l[q]) + j] = l[p][j]
    BY <1>2, <1>3, <1>6
  <1>9. QED
    BY <1>2, <1>3, <1>4, <1>5, <1>7, <1>8

\* A list that is appended to another leaves every session in one place.
LEMMA SplicedPlaced ==
  ASSUME NEW l, Lists!Placed(l), NEW p \in Place, NEW q \in Place, p # q
  PROVE  Lists!Placed(Lists!Spliced(l, p, q))
  <1> DEFINE m == Lists!Spliced(l, p, q)
  <1>1. l \in [Place -> Seq(Session)] /\ Lists!Exclusive(l) /\ Lists!Complete(l)
    BY DEF Lists!Placed
  <1>a. PICK np, nq : np = Len(l[p]) /\ nq = Len(l[q])
    OBVIOUS
  <1>3. np \in Nat /\ nq \in Nat
    BY <1>1, <1>a, LenProperties
  <1>b. m \in [Place -> Seq(Session)] /\ Len(m[p]) = 0
    BY <1>1, SplicedFacts, ZenonT(60)
  <1>c. Len(m[q]) = nq + np
    BY <1>1, <1>a, SplicedFacts
  <1>d. \A r \in Place \ {p, q} : m[r] = l[r]
    BY <1>1, SplicedFacts
  <1>e. \A j \in 1..nq : m[q][j] = l[q][j]
    BY <1>1, <1>a, SplicedFacts
  <1>f. \A j \in 1..np : m[q][nq + j] = l[p][j]
    BY <1>1, <1>a, SplicedFacts
  <1>2. /\ m \in [Place -> Seq(Session)]
        /\ Len(m[p]) = 0 /\ Len(m[q]) = nq + np /\ Len(l[p]) = np /\ Len(l[q]) = nq
        /\ \A r \in Place \ {p, q} : m[r] = l[r]
        /\ \A j \in 1..nq : m[q][j] = l[q][j]
        /\ \A j \in 1..np : m[q][nq + j] = l[p][j]
    BY <1>a, <1>b, <1>c, <1>d, <1>e, <1>f
  <1> HIDE DEF m
  \* Where the session at position j of m's list r was in l.
  <1> DEFINE fromList(r, j) == IF r = q /\ j > nq THEN p ELSE r
             fromPos(r, j)  == IF r = q /\ j > nq THEN j - nq ELSE j
  <1>4. ASSUME NEW r \in Place, NEW j \in 1..Len(m[r])
        PROVE  /\ fromList(r, j) \in Place
               /\ fromPos(r, j) \in 1..Len(l[fromList(r, j)])
               /\ m[r][j] = l[fromList(r, j)][fromPos(r, j)]
               /\ r # p
    <2>1. CASE r = q /\ j > nq
      <3>a. j \in Nat /\ j <= nq + np /\ j > nq
        BY <2>1, <1>2, <1>3
      <3>1. j - nq \in 1..np /\ nq + (j - nq) = j
        BY <3>a, <1>3
      <3>2. m[q][j] = l[p][j - nq]
        BY <3>1, <1>2
      <3>3. QED BY <2>1, <3>1, <3>2, <1>a
    <2>2. CASE r = q /\ ~(j > nq)
      <3>1. j \in 1..nq
        BY <2>2, <1>3
      <3>2. m[q][j] = l[q][j]
        BY <3>1, <1>2
      <3>3. QED BY <2>2, <3>1, <3>2, <1>a
    <2>3. CASE r # q
      BY <2>3, <1>2, <1>3
    <2>4. QED BY <2>1, <2>2, <2>3
  <1>5. Lists!Exclusive(m)
    <2> SUFFICES ASSUME NEW r1 \in Place, NEW r2 \in Place,
                        NEW j1 \in 1..Len(m[r1]), NEW j2 \in 1..Len(m[r2]),
                        m[r1][j1] = m[r2][j2]
                 PROVE  r1 = r2 /\ j1 = j2
      BY DEF Lists!Exclusive
    <2>1. l[fromList(r1, j1)][fromPos(r1, j1)] = l[fromList(r2, j2)][fromPos(r2, j2)]
      BY <1>4
    <2>2. /\ fromList(r1, j1) \in Place /\ fromList(r2, j2) \in Place
          /\ fromPos(r1, j1) \in 1..Len(l[fromList(r1, j1)])
          /\ fromPos(r2, j2) \in 1..Len(l[fromList(r2, j2)])
          /\ r1 # p /\ r2 # p
      BY <1>4
    <2> HIDE DEF fromList, fromPos
    <2>3. fromList(r1, j1) = fromList(r2, j2) /\ fromPos(r1, j1) = fromPos(r2, j2)
      BY <2>1, <2>2, <1>1 DEF Lists!Exclusive
    <2> USE DEF fromList, fromPos
    <2>4. CASE r1 = q /\ j1 > nq
      BY <2>2, <2>3, <2>4, <1>3
    <2>5. CASE ~(r1 = q /\ j1 > nq)
      BY <2>2, <2>3, <2>5, <1>3
    <2>6. QED BY <2>4, <2>5
  <1>6. Lists!Complete(m)
    <2> SUFFICES ASSUME NEW s \in Session
                 PROVE  \E r \in Place : \E j \in 1..Len(m[r]) : m[r][j] = s
      BY DEF Lists!Complete
    <2>a. PICK r \in Place : \E k \in 1..Len(l[r]) : l[r][k] = s
      BY <1>1 DEF Lists!Complete
    <2>1. PICK j \in 1..Len(l[r]) : l[r][j] = s
      BY <2>a
    <2>2. CASE r = p
      <3>1. j \in 1..np /\ l[p][j] = s
        BY <2>1, <2>2, <1>a
      <3>2. m[q][nq + j] = s
        BY <3>1, <1>2
      <3>3. nq + j \in 1..(nq + np)
        BY <3>1, <1>3
      <3>4. QED BY <3>2, <3>3, <1>2
    <2>3. CASE r = q
      <3>1. j \in 1..nq /\ l[q][j] = s
        BY <2>1, <2>3, <1>a
      <3>2. m[q][j] = s
        BY <3>1, <1>2
      <3>3. j \in 1..(nq + np)
        BY <3>1, <1>3
      <3>4. QED BY <3>2, <3>3, <1>2
    <2>4. CASE r \notin {p, q}
      BY <2>1, <2>4, <1>2
    <2>5. QED BY <2>2, <2>3, <2>4
  <1>7. QED BY <1>2, <1>5, <1>6 DEF Lists!Placed, m

\* The one place of each session.
Where(l) == [s \in Session |-> CHOOSE p \in Place : \E i \in 1..Len(l[p]) : l[p][i] = s]

LEMMA WhereFacts ==
  ASSUME NEW l, Lists!Placed(l)
  PROVE  /\ Where(l) \in [Session -> Place]
         /\ \A p \in Place : \A i \in 1..Len(l[p]) : l[p][i] \in Session /\ Where(l)[l[p][i]] = p
         /\ \A s \in Session : \E i \in 1..Len(l[Where(l)[s]]) : l[Where(l)[s]][i] = s
  <1>1. l \in [Place -> Seq(Session)] /\ Lists!Exclusive(l) /\ Lists!Complete(l)
    BY DEF Lists!Placed
  <1>2. ASSUME NEW s \in Session
        PROVE  Where(l)[s] \in Place /\ \E i \in 1..Len(l[Where(l)[s]]) : l[Where(l)[s]][i] = s
    BY <1>1 DEF Where, Lists!Complete
  <1>3. ASSUME NEW p \in Place, NEW i \in 1..Len(l[p])
        PROVE  l[p][i] \in Session /\ Where(l)[l[p][i]] = p
    <2>1. l[p][i] \in Session
      BY <1>1, ElementOfSeq
    <2>2. QED
      BY <1>1, <1>2, <2>1 DEF Lists!Exclusive
  <1>4. Where(l) \in [Session -> Place]
    BY <1>2 DEF Where
  <1>5. QED
    BY <1>2, <1>3, <1>4

\* A session is at the place where a list has it.
LEMMA WhereIs ==
  ASSUME NEW l, Lists!Placed(l), NEW p \in Place, NEW i \in 1..Len(l[p]), NEW s, l[p][i] = s
  PROVE  s \in Session /\ Where(l)[s] = p
  BY WhereFacts

\* Moving a session changes its place and no other's.
LEMMA WhereMoved ==
  ASSUME NEW l, Lists!Placed(l), NEW p \in Place, NEW q \in Place, p # q, NEW i \in 1..Len(l[p])
  PROVE  Where(Lists!Moved(l, p, i, q)) = [Where(l) EXCEPT ![l[p][i]] = q]
  <1> DEFINE m == Lists!Moved(l, p, i, q)
  <1>1. l \in [Place -> Seq(Session)]
    BY DEF Lists!Placed
  <1>2. /\ m \in [Place -> Seq(Session)]
        /\ Len(m[p]) = Len(l[p]) - 1 /\ Len(m[q]) = Len(l[q]) + 1
        /\ \A r \in Place \ {p, q} : m[r] = l[r]
        /\ \A j \in 1..(Len(l[p]) - 1) : m[p][j] = IF j < i THEN l[p][j] ELSE l[p][j + 1]
        /\ \A j \in 1..Len(l[q]) : m[q][j] = l[q][j]
        /\ m[q][Len(l[q]) + 1] = l[p][i]
    BY <1>1, MovedFacts, SMTT(40)
  <1>3. \A r \in Place : Len(l[r]) \in Nat
    BY <1>1, LenProperties
  <1>4. Lists!Placed(m)
    BY MovedPlaced
  <1> HIDE DEF m
  <1> DEFINE w == [Where(l) EXCEPT ![l[p][i]] = q]
  <1>5. Where(l) \in [Session -> Place] /\ Where(m) \in [Session -> Place] /\ w \in [Session -> Place]
    BY <1>4, WhereFacts
  <1>6. l[p][i] \in Session /\ \A j \in 1..Len(l[p]) : l[p][j] = l[p][i] => j = i
    BY <1>1, ElementOfSeq DEF Lists!Placed, Lists!Exclusive
  <1>7. ASSUME NEW s \in Session PROVE Where(m)[s] = w[s]
    <2>1. CASE s = l[p][i]
      <3>1. Len(l[q]) + 1 \in 1..Len(m[q])
        BY <1>2, <1>3
      <3>2. Where(m)[s] = q
        BY <1>2, <1>4, <2>1, <3>1, WhereIs
      <3>3. QED
        BY <1>5, <2>1, <3>2
    <2>2. CASE s # l[p][i]
      <3>1. PICK k \in 1..Len(l[Where(l)[s]]) : l[Where(l)[s]][k] = s
        BY WhereFacts
      <3> DEFINE r == Where(l)[s]
      <3>2. r \in Place /\ w[s] = r /\ k \in 1..Len(l[r]) /\ l[r][k] = s
        BY <1>5, <2>2, <3>1
      <3> HIDE DEF r
      <3>3. \E j \in 1..Len(m[r]) : m[r][j] = s
        <4>1. CASE r \notin {p, q}
          BY <1>2, <3>2, <4>1
        <4>2. CASE r = q
          <5>1. k \in 1..Len(m[q]) /\ m[q][k] = s
            BY <1>2, <1>3, <3>2, <4>2
          <5>2. QED BY <5>1, <4>2
        <4>3. CASE r = p
          <5>1. CASE k < i
            <6>1. k \in 1..(Len(l[p]) - 1)
              BY <1>3, <3>2, <4>3, <5>1
            <6>2. QED BY <1>2, <3>2, <4>3, <5>1, <6>1
          <5>2. CASE ~(k < i)
            <6>1. k - 1 \in 1..(Len(l[p]) - 1) /\ ~(k - 1 < i) /\ k - 1 + 1 = k
              BY <1>3, <2>2, <3>2, <4>3, <5>2
            <6>2. m[p][k - 1] = l[p][k - 1 + 1]
              BY <1>2, <6>1
            <6>3. QED BY <1>2, <3>2, <4>3, <6>1, <6>2
          <5>3. QED BY <5>1, <5>2
        <4>4. QED BY <4>1, <4>2, <4>3
      <3>4. QED
        BY <1>4, <3>2, <3>3, WhereIs
    <2>3. QED BY <2>1, <2>2
  <1>8. QED
    BY <1>5, <1>7 DEF m

\* Splicing p onto q takes everybody at p to q.
LEMMA WhereSpliced ==
  ASSUME NEW l, Lists!Placed(l), NEW p \in Place, NEW q \in Place, p # q
  PROVE  Where(Lists!Spliced(l, p, q)) = [s \in Session |-> IF Where(l)[s] = p THEN q ELSE Where(l)[s]]
  <1> DEFINE m == Lists!Spliced(l, p, q)
  <1>1. l \in [Place -> Seq(Session)]
    BY DEF Lists!Placed
  <1>a. PICK np, nq : np = Len(l[p]) /\ nq = Len(l[q])
    OBVIOUS
  <1>b. Len(m[q]) = nq + np
    BY <1>1, <1>a, SplicedFacts
  <1>c. \A r \in Place \ {p, q} : m[r] = l[r]
    BY <1>1, SplicedFacts
  <1>d. \A j \in 1..nq : m[q][j] = l[q][j]
    BY <1>1, <1>a, SplicedFacts
  <1>e. \A j \in 1..np : m[q][nq + j] = l[p][j]
    BY <1>1, <1>a, SplicedFacts
  <1>3. np \in Nat /\ nq \in Nat
    BY <1>1, <1>a, LenProperties
  <1>4. Lists!Placed(m)
    BY SplicedPlaced
  <1> HIDE DEF m
  <1> DEFINE w == [s \in Session |-> IF Where(l)[s] = p THEN q ELSE Where(l)[s]]
  <1>5. Where(l) \in [Session -> Place] /\ Where(m) \in [Session -> Place] /\ w \in [Session -> Place]
    BY <1>4, WhereFacts
  <1>6. ASSUME NEW s \in Session PROVE Where(m)[s] = w[s]
    <2>1. PICK k \in 1..Len(l[Where(l)[s]]) : l[Where(l)[s]][k] = s
      BY WhereFacts
    <2> DEFINE r == Where(l)[s]
               r1 == w[s]
    <2>2. /\ r \in Place /\ r1 \in Place /\ k \in 1..Len(l[r]) /\ l[r][k] = s
          /\ r = p => r1 = q
          /\ r # p => r1 = r
      BY <1>5, <2>1
    <2> HIDE DEF r, r1
    <2>3. \E j \in 1..Len(m[r1]) : m[r1][j] = s
      <3>1. CASE r \notin {p, q}
        BY <1>c, <2>2, <3>1
      <3>2. CASE r = q
        <4>1. k \in 1..nq /\ l[q][k] = s
          BY <1>a, <2>2, <3>2
        <4>2. k \in 1..(nq + np)
          BY <1>3, <4>1
        <4>3. k \in 1..Len(m[q]) /\ m[q][k] = s
          BY <1>b, <1>d, <4>1, <4>2
        <4>4. QED BY <4>3, <2>2, <3>2
      <3>3. CASE r = p
        <4>1. k \in 1..np /\ l[p][k] = s
          BY <1>a, <2>2, <3>3
        <4>2. nq + k \in 1..(nq + np)
          BY <1>3, <4>1
        <4>3. nq + k \in 1..Len(m[q]) /\ m[q][nq + k] = s
          BY <1>b, <1>e, <4>1, <4>2
        <4>4. QED BY <4>3, <2>2, <3>3
      <3>4. QED BY <3>1, <3>2, <3>3
    <2>4. QED
      BY <1>4, <2>2, <2>3, WhereIs DEF r1
  <1>7. QED
    BY <1>5, <1>6 DEF m

\* A step of the lists leaves every session in one place.
LEMMA ListsPreserve ==
  ASSUME Lists!Placed(list), [Lists!Next]_list
  PROVE  Lists!Placed(list')
  <1>1. CASE UNCHANGED list
    BY <1>1
  <1>2. CASE Lists!Next
    <2>1. PICK p \in Place, q \in Place : Lists!Move(p, q) \/ Lists!Splice(p, q)
      BY <1>2 DEF Lists!Next
    <2>2. CASE Lists!Move(p, q)
      BY <2>2, MovedPlaced DEF Lists!Move
    <2>3. CASE Lists!Splice(p, q)
      BY <2>3, SplicedPlaced DEF Lists!Splice
    <2>4. QED BY <2>1, <2>2, <2>3
  <1>3. QED
    BY <1>1, <1>2

\* Whatever moves and splices are made, every session is in exactly one place:
\* what the lists' own operations, under their separate locks, keep true
\* (Double_List_T.h, SyncHandler.cpp:265-371).
THEOREM ListsStayPlaced == Lists!Spec => []Lists!Placed(list)
  <1>1. Lists!Init => Lists!Placed(list)
    BY DEF Lists!Init
  <1>2. Lists!Placed(list) /\ [Lists!Next]_list => Lists!Placed(list)'
    BY ListsPreserve DEF Lists!Placed, Lists!Exclusive, Lists!Complete
  <1>3. QED
    BY <1>1, <1>2, PTL DEF Lists!Spec

-----------------------------------------------------------------------------
\* ScanSession takes the session at the iterator out of the active list, so
\* the iterator must be a position.
IInv == Lists!Placed(list) /\ cur \in Nat \ {0}

-----------------------------------------------------------------------------
\* A pool just created holds its sessions, each once.
LEMMA PooledFacts ==
  ASSUME NEW S, IsFiniteSet(S), S \subseteq Session
  PROVE  /\ Pooled(S) \in Seq(Session)
         /\ \A i \in 1..Len(Pooled(S)) : Pooled(S)[i] \in S
         /\ \A i, j \in 1..Len(Pooled(S)) : Pooled(S)[i] = Pooled(S)[j] => i = j
         /\ \A s \in S : \E i \in 1..Len(Pooled(S)) : Pooled(S)[i] = s
  <1> DEFINE n == Cardinality(S)
  <1>1. n \in Nat /\ Bijection(1..n, S) # {}
    BY FS_CardinalityType DEF ExistsBijection
  <1>2. Pooled(S) \in Bijection(1..n, S)
    BY <1>1 DEF Pooled
  <1>3. /\ Pooled(S) \in [1..n -> S]
        /\ \A i, j \in 1..n : Pooled(S)[i] = Pooled(S)[j] => i = j
        /\ \A s \in S : \E i \in 1..n : Pooled(S)[i] = s
    BY <1>2 DEF Bijection, Injection, Surjection, IsInjective
  <1>4. Pooled(S) \in Seq(S) /\ Len(Pooled(S)) = n
    BY <1>1, <1>3
  <1>5. Pooled(S) \in Seq(Session)
    BY <1>3, <1>1
  <1>6. QED
    BY <1>3, <1>4, <1>5

\* At the start the sessions are in their pools and nowhere else.
LEMMA InitPlaced == Init => Lists!Placed(list)
  <1> SUFFICES ASSUME Init PROVE Lists!Placed(list)
    OBVIOUS
  <1>1. list = [p \in Place |-> CASE p = "acceptPool"  -> Pooled(AcceptSession)
                                  [] p = "connectPool" -> Pooled(ConnectSession)
                                  [] OTHER             -> <<>>]
    BY DEF Init
  <1>2. /\ list["acceptPool"] = Pooled(AcceptSession)
        /\ list["connectPool"] = Pooled(ConnectSession)
        /\ \A p \in Place \ {"acceptPool", "connectPool"} : list[p] = << >>
        /\ "acceptPool" \in Place /\ "connectPool" \in Place
    BY <1>1 DEF Place
  <1>3. /\ IsFiniteSet(AcceptSession) /\ AcceptSession \subseteq Session
        /\ IsFiniteSet(ConnectSession) /\ ConnectSession \subseteq Session
        /\ AcceptSession \cap ConnectSession = {}
    BY SyncAssumption DEF Session
  <1>4. /\ list["acceptPool"] \in Seq(Session)
        /\ \A i \in 1..Len(list["acceptPool"]) : list["acceptPool"][i] \in AcceptSession
        /\ \A i, j \in 1..Len(list["acceptPool"]) :
             list["acceptPool"][i] = list["acceptPool"][j] => i = j
        /\ \A s \in AcceptSession : \E i \in 1..Len(list["acceptPool"]) : list["acceptPool"][i] = s
    BY <1>2, <1>3, PooledFacts
  <1>5. /\ list["connectPool"] \in Seq(Session)
        /\ \A i \in 1..Len(list["connectPool"]) : list["connectPool"][i] \in ConnectSession
        /\ \A i, j \in 1..Len(list["connectPool"]) :
             list["connectPool"][i] = list["connectPool"][j] => i = j
        /\ \A s \in ConnectSession : \E i \in 1..Len(list["connectPool"]) : list["connectPool"][i] = s
    BY <1>2, <1>3, PooledFacts
  <1>6. << >> \in Seq(Session) /\ 1..Len(<< >>) = {}
    OBVIOUS
  <1>7. \A p \in Place : list[p] \in Seq(Session)
    BY <1>2, <1>4, <1>5, <1>6
  <1>8. list \in [Place -> Seq(Session)]
    BY <1>1, <1>7
  <1>9. Lists!Exclusive(list)
    <2> SUFFICES ASSUME NEW p \in Place, NEW q \in Place,
                        NEW i \in 1..Len(list[p]), NEW j \in 1..Len(list[q]),
                        list[p][i] = list[q][j]
                 PROVE  p = q /\ i = j
      BY DEF Lists!Exclusive
    <2>1. p \in {"acceptPool", "connectPool"} /\ q \in {"acceptPool", "connectPool"}
      BY <1>2, <1>6
    <2>2. p = q
      BY <2>1, <1>3, <1>4, <1>5
    <2>3. QED
      BY <2>1, <2>2, <1>4, <1>5
  <1>10. Lists!Complete(list)
    BY <1>2, <1>4, <1>5 DEF Lists!Complete, Session
  <1>11. QED
    BY <1>8, <1>9, <1>10 DEF Lists!Placed

\* A pop and a push are a move.
LEMMA HeadMoves ==
  ASSUME Lists!Placed(list), NEW p \in Place, NEW q \in Place, p # q, MoveHead(p, q)
  PROVE  Lists!Next
  <1>1. list[p] \in Seq(Session) /\ list[p] # << >>
    BY DEF Lists!Placed, MoveHead
  <1>2. 1 \in 1..Len(list[p])
    BY <1>1
  <1>3. Lists!Move(p, q)
    BY <1>2 DEF Lists!Move, MoveHead
  <1>4. QED
    BY <1>3 DEF Lists!Next

\* A splice is a splice.
LEMMA Splices ==
  ASSUME NEW p \in Place, NEW q \in Place, p # q, Splice(p, q)
  PROVE  Lists!Next
  BY DEF Lists!Next, Lists!Splice, Splice

\* The main thread's steps.
LEMMA UpdateStep ==
  ASSUME IInv, Connect \/ Update
  PROVE  (Lists!Next \/ UNCHANGED list) /\ cur' \in Nat \ {0}
  <1>1. Lists!Placed(list) /\ cur \in Nat \ {0} /\ 1 \in Nat \ {0} /\ cur + 1 \in Nat \ {0}
    BY DEF IInv
  <1>2. /\ {"acceptPool", "connectPool", "active", "accepted", "success", "fail", "template",
            "connecting", "joining", "main", "acceptor", "connector"} \subseteq Place
        /\ \A s : PoolOf(s) \in {"acceptPool", "connectPool"}
    BY DEF Place, PoolOf
  <1>3. CASE Connect
    <2>1. MoveHead("connectPool", "connecting") /\ cur' = cur
      BY <1>3 DEF Connect, mainVars
    <2>2. QED BY <1>1, <1>2, <2>1, HeadMoves
  <1>4. CASE UpdateBegin \/ FailDone \/ ScanDone \/ UpdateEnd \/ OnDisconnect
    BY <1>4, <1>1 DEF UpdateBegin, FailDone, ScanDone, UpdateEnd, OnDisconnect, Goto
  <1>5. CASE CheckSession \/ RecvMalformed \/ RecvDone
    BY <1>5, <1>1 DEF CheckSession, RecvMalformed, RecvDone, NextSession
  <1>6. CASE RecvPacket
    BY <1>6, <1>1 DEF RecvPacket, mainVars
  <1>7. CASE TakeAccepted \/ TakeSuccess
    <2>1. (Splice("accepted", "template") \/ Splice("success", "template")) /\ cur' = 1
      BY <1>7 DEF TakeAccepted, TakeSuccess, Goto
    <2>2. QED BY <1>1, <1>2, <2>1, Splices
  <1>8. CASE JoinAccepted \/ JoinConnected
    <2>1. Splice("joining", "active") /\ cur' = 1
      BY <1>8 DEF JoinAccepted, JoinConnected, Goto
    <2>2. QED BY <1>1, <1>2, <2>1, Splices
  <1>9. CASE AddAccepted \/ AddConnected
    <2>1. MoveHead("template", "main") /\ cur' = 1
      BY <1>9 DEF AddAccepted, AddConnected, Goto
    <2>2. QED BY <1>1, <1>2, <2>1, HeadMoves
  <1>10. CASE OnAccept \/ OnConnect
    <2>1. MoveHead("main", "joining") /\ cur' = 1
      BY <1>10 DEF OnAccept, OnConnect, Goto
    <2>2. QED BY <1>1, <1>2, <2>1, HeadMoves
  <1>11. CASE RefuseAccepted \/ RefuseConnected \/ OnConnectFail \/ KickSession
    <2>1. PICK p \in {"template", "fail"} : FreeSession(p) /\ cur' \in {cur, 1}
      BY <1>11 DEF RefuseAccepted, RefuseConnected, OnConnectFail, KickSession, FailConnect,
                   mainVars, Goto
    <2>2. MoveHead(p, PoolOf(Head(list[p])))
      BY <2>1 DEF FreeSession
    <2>3. p \in Place /\ PoolOf(Head(list[p])) \in Place /\ p # PoolOf(Head(list[p]))
      BY <1>2
    <2>4. QED BY <1>1, <2>1, <2>2, <2>3, HeadMoves
  <1>12. CASE ScanSession
    <2>1. CASE remove[Current]
      <3>1. list' = Lists!Moved(list, "active", cur, "template") /\ cur' = cur
            /\ cur <= Len(list["active"])
        BY <1>12, <2>1 DEF ScanSession
      <3>2. list["active"] \in Seq(Session)
        BY <1>1, <1>2 DEF Lists!Placed
      <3>3. cur \in 1..Len(list["active"])
        BY <1>1, <3>1, <3>2
      <3>4. Lists!Move("active", "template")
        BY <3>1, <3>3 DEF Lists!Move
      <3>5. QED BY <1>1, <1>2, <3>1, <3>4 DEF Lists!Next
    <2>2. CASE ~remove[Current]
      BY <1>12, <2>2, <1>1 DEF ScanSession
    <2>3. QED BY <2>1, <2>2
  <1>13. QED
    BY <1>3, <1>4, <1>5, <1>6, <1>7, <1>8, <1>9, <1>10, <1>11, <1>12 DEF Update

\* The steps of the other threads and of the peers.
LEMMA ThreadStep ==
  ASSUME IInv,
         \/ AcceptSocket \/ AcceptPush \/ ConnectThread \/ EpollWait \/ EpollHandle \/ PreSend
         \/ \E t \in IoThread : IoTake(t) \/ IoStep(t)
         \/ Peer
  PROVE  (Lists!Next \/ UNCHANGED list) /\ cur' = cur
  <1>1. Lists!Placed(list)
    BY DEF IInv
  <1>2. {"acceptPool", "success", "fail", "accepted", "connecting", "acceptor", "connector"}
          \subseteq Place
    BY DEF Place
  <1>3. CASE AcceptSocket
    <2>1. (UNCHANGED list \/ MoveHead("acceptPool", "acceptor")) /\ cur' = cur
      BY <1>3 DEF AcceptSocket, mainVars
    <2>2. QED BY <1>1, <1>2, <2>1, HeadMoves
  <1>4. CASE AcceptPush
    <2>1. MoveHead("acceptor", "accepted") /\ cur' = cur
      BY <1>4 DEF AcceptPush, mainVars
    <2>2. QED BY <1>1, <1>2, <2>1, HeadMoves
  <1>5. CASE ConnectThread
    <2>1. /\ \/ UNCHANGED list
             \/ MoveHead("connecting", "connector")
             \/ MoveHead("connector", "success")
             \/ MoveHead("connector", "fail")
          /\ cur' = cur
      BY <1>5 DEF ConnectThread, ConnectWait, ConnectTake, ConnectDone, ConnectDrained, mainVars
    <2>2. QED BY <1>1, <1>2, <2>1, HeadMoves
  <1>6. CASE EpollWait \/ EpollHandle \/ PreSend
    BY <1>6 DEF EpollWait, EpollHandle, PreSend, mainVars
  <1>7. CASE \E t \in IoThread : IoTake(t) \/ IoStep(t)
    BY <1>7 DEF IoTake, IoStep, RecvCheck, RecvCall, RecvStore, SendCheck, SendCall, mainVars
  <1>8. CASE Peer
    BY <1>8 DEF Peer, PeerSend, PeerLeave, PeerDrain, mainVars
  <1>9. QED
    BY <1>3, <1>4, <1>5, <1>6, <1>7, <1>8

\* Every step of the program is a step of the lists.
LEMMA Step ==
  ASSUME IInv, [Next]_vars
  PROVE  [Lists!Next]_list /\ cur' \in Nat \ {0}
  <1>1. CASE UNCHANGED vars
    BY <1>1 DEF vars, mainVars, IInv
  <1>2. CASE Connect \/ Update
    BY <1>2, UpdateStep
  <1>3. CASE Next /\ ~(Connect \/ Update)
    BY <1>3, ThreadStep DEF Next, IInv
  <1>4. QED
    BY <1>1, <1>2, <1>3

\* The invariant the refinement rests on holds in every reachable state.
LEMMA IInvHolds == Spec => []IInv
  <1>1. Init => IInv
    BY InitPlaced DEF Init, IInv
  <1>2. IInv /\ [Next]_vars => IInv'
    BY Step, ListsPreserve DEF IInv, Lists!Placed, Lists!Exclusive, Lists!Complete
  <1>3. QED
    BY <1>1, <1>2, PTL DEF Spec

\* Whatever the five threads do, each session is on exactly one list or held by
\* exactly one thread (SessionPool.cpp:97 asserts a part of it).
THEOREM AlwaysPlaced == Spec => []Lists!Placed(list)
  <1>1. IInv => Lists!Placed(list)
    BY DEF IInv
  <1>2. QED
    BY <1>1, IInvHolds, PTL

\* SyncHandler implements SessionLists: every step of every thread is one move
\* of one session, one splice of two lists, or leaves the lists alone.
THEOREM SyncImplementsLists == Spec => ImplementsLists
  <1>1. Init => Lists!Init
    BY InitPlaced DEF Lists!Init
  <1>2. IInv /\ [Next]_vars => [Lists!Next]_list
    BY Step
  <1>3. QED
    BY <1>1, <1>2, IInvHolds, PTL DEF Spec, ImplementsLists, Lists!Spec
-----------------------------------------------------------------------------
\* Where the main thread is.
Phase == {"idle", "active", "packets", "accepted", "accept", "take", "success", "connect",
          "fail", "scan", "kick", "kicked"}

\* The local list of Update is empty outside the two phases that fill it, and
\* the template list before the phase that uses it next.
ListsEmptied ==
  /\ pc \notin {"accepted", "accept", "success", "connect"} => Len(list["joining"]) = 0
  /\ pc \in {"idle", "active", "packets", "take", "fail"} => Len(list["template"]) = 0

\* CountAgrees, phase by phase.
CountByPhase ==
  LET active   == Len(list["active"])
      joining  == Len(list["joining"])
      template == Len(list["template"])
  IN  /\ pc \in {"accepted", "accept"} => numActive = active + joining
      /\ pc \in {"scan", "kick", "kicked"} => numActive = active + template
      /\ pc \notin {"accepted", "accept", "scan", "kick", "kicked"} => numActive = active

\* A phase hands its sessions to the next with the count already right only if
\* the lists it shares with the next are empty by then.
CountInv == pc \in Phase /\ CountByPhase /\ ListsEmptied

\* The places that the count is about.
Counted == {"active", "joining", "template"}

\* The length of each list, as a number.
LEMMA Lengths ==
  ASSUME IInv
  PROVE  /\ list \in [Place -> Seq(Session)]
         /\ \A r \in Place : list[r] \in Seq(Session) /\ Len(list[r]) \in Nat
         /\ \A r \in Place : list[r] # << >> <=> Len(list[r]) > 0
         /\ Counted \cup {"main"} \subseteq Place
  <1>1. list \in [Place -> Seq(Session)]
    BY DEF IInv, Lists!Placed
  <1>2. \A r \in Place : list[r] \in Seq(Session)
    BY <1>1
  <1>3. \A r \in Place : Len(list[r]) \in Nat
    BY <1>2, LenProperties
  <1>4. \A r \in Place : list[r] # << >> <=> Len(list[r]) > 0
    BY <1>2, <1>3, EmptySeq
  <1>5. QED
    BY <1>1, <1>2, <1>3, <1>4 DEF Counted, Place

\* A move makes one list shorter and one longer.
LEMMA MoveLengths ==
  ASSUME IInv, NEW p \in Place, NEW q \in Place, p # q, NEW i \in 1..Len(list[p]),
         list' = Lists!Moved(list, p, i, q)
  PROVE  /\ Len(list'[p]) = Len(list[p]) - 1
         /\ Len(list'[q]) = Len(list[q]) + 1
         /\ \A r \in Place \ {p, q} : list'[r] = list[r]
  BY Lengths, MovedFacts

LEMMA HeadLengths ==
  ASSUME IInv, NEW p \in Place, NEW q \in Place, p # q, MoveHead(p, q)
  PROVE  /\ Len(list'[p]) = Len(list[p]) - 1
         /\ Len(list'[q]) = Len(list[q]) + 1
         /\ \A r \in Place \ {p, q} : list'[r] = list[r]
  <1>1. 1 \in 1..Len(list[p])
    BY Lengths DEF MoveHead
  <1>2. QED
    BY <1>1, MoveLengths DEF MoveHead

\* A splice empties one list and adds its length to the other.
LEMMA SpliceLengths ==
  ASSUME IInv, NEW p \in Place, NEW q \in Place, p # q, Splice(p, q)
  PROVE  /\ Len(list'[p]) = 0
         /\ Len(list'[q]) = Len(list[q]) + Len(list[p])
         /\ \A r \in Place \ {p, q} : list'[r] = list[r]
  <1>1. list' = Lists!Spliced(list, p, q)
    BY DEF Splice
  <1>2. list \in [Place -> Seq(Session)]
    BY Lengths
  <1>3. Len(Lists!Spliced(list, p, q)[p]) = 0
    BY <1>2, SplicedFacts, ZenonT(60)
  <1>4. Len(Lists!Spliced(list, p, q)[q]) = Len(list[q]) + Len(list[p])
    BY <1>2, SplicedFacts, ZenonT(60)
  <1>5. \A r \in Place \ {p, q} : Lists!Spliced(list, p, q)[r] = list[r]
    BY <1>2, SplicedFacts
  <1>6. QED
    BY <1>1, <1>3, <1>4, <1>5

\* A step that leaves the main thread, and the lists that count, alone.
LEMMA CountAlone ==
  ASSUME CountInv, UNCHANGED <<numActive, pc>>, \A r \in Counted : list'[r] = list[r]
  PROVE  CountInv'
  BY DEF CountInv, CountByPhase, ListsEmptied, Counted

\* The steps of Update, phase by phase.
LEMMA CountUpdate ==
  ASSUME IInv, CountInv, Connect \/ Update
  PROVE  CountInv'
  <1>1. /\ {"acceptPool", "connectPool", "active", "accepted", "success", "fail", "template",
            "connecting", "joining", "main"} \subseteq Place
        /\ \A s : PoolOf(s) \in {"acceptPool", "connectPool"}
    BY DEF Place, PoolOf
  <1> DEFINE a == Len(list["active"])
             j == Len(list["joining"])
             t == Len(list["template"])
             a1 == Len(list'["active"])
             j1 == Len(list'["joining"])
             t1 == Len(list'["template"])
  <1>2. /\ a \in Nat /\ j \in Nat /\ t \in Nat
        /\ list["template"] = << >> => t = 0
        /\ list' = list => a1 = a /\ j1 = j /\ t1 = t
    BY <1>1, Lengths
  <1>3. /\ pc \in Phase
        /\ pc \in {"accepted", "accept"} => numActive = a + j
        /\ pc \in {"scan", "kick", "kicked"} => numActive = a + t
        /\ pc \notin {"accepted", "accept", "scan", "kick", "kicked"} => numActive = a
        /\ pc \notin {"accepted", "accept", "success", "connect"} => j = 0
        /\ pc \in {"idle", "active", "packets", "take", "fail"} => t = 0
    BY DEF CountInv, CountByPhase, ListsEmptied
  <1>4. /\ pc' \in Phase
        /\ pc' \in {"accepted", "accept"} => numActive' = a1 + j1
        /\ pc' \in {"scan", "kick", "kicked"} => numActive' = a1 + t1
        /\ pc' \notin {"accepted", "accept", "scan", "kick", "kicked"} => numActive' = a1
        /\ pc' \notin {"accepted", "accept", "success", "connect"} => j1 = 0
        /\ pc' \in {"idle", "active", "packets", "take", "fail"} => t1 = 0
        => CountInv'
    BY DEF CountInv, CountByPhase, ListsEmptied
  <1> HIDE DEF a, j, t, a1, j1, t1
  <1>5. CASE Connect
    <2>1. MoveHead("connectPool", "connecting") /\ UNCHANGED <<numActive, pc>>
      BY <1>5 DEF Connect, mainVars
    <2>2. \A r \in Counted : list'[r] = list[r]
      BY <1>1, <2>1, HeadLengths, SMTT(40) DEF Counted
    <2>3. QED BY <2>1, <2>2, CountAlone
  <1>6. CASE CheckSession \/ RecvPacket \/ RecvMalformed \/ RecvDone \/ OnDisconnect \/ UpdateBegin
    <2>1. list' = list /\ numActive' = numActive
      BY <1>6 DEF CheckSession, RecvPacket, RecvMalformed, RecvDone, OnDisconnect, UpdateBegin,
                  mainVars
    <2>2. \/ pc \in {"idle", "active", "packets"} /\ pc' \in {"active", "packets"}
          \/ pc = "kicked" /\ pc' = "kick"
      BY <1>6 DEF CheckSession, RecvPacket, RecvMalformed, RecvDone, OnDisconnect, UpdateBegin,
                  NextSession, Goto, mainVars
    <2>3. QED
      BY <1>3, <1>4, <1>2, <2>1, <2>2 DEF Phase
  <1>7. CASE TakeAccepted \/ TakeSuccess
    <2>1. /\ numActive' = numActive
          /\ \/ pc = "active" /\ pc' = "accepted" /\ Splice("accepted", "template")
             \/ pc = "take" /\ pc' = "success" /\ Splice("success", "template")
      BY <1>7 DEF TakeAccepted, TakeSuccess, Goto
    <2>2. PICK p \in {"accepted", "success"} : Splice(p, "template")
      BY <2>1
    <2>3. \A r \in Place \ {p, "template"} : list'[r] = list[r]
      BY <1>1, <2>2, SpliceLengths
    <2>4. a1 = a /\ j1 = j
      BY <1>1, <2>3 DEF a, j, t, a1, j1, t1
    <2>5. QED
      BY <1>3, <1>4, <1>2, <2>1, <2>4 DEF Phase
  <1>8. CASE AddAccepted \/ AddConnected
    <2>1. /\ numActive' = numActive /\ MoveHead("template", "main")
          /\ \/ pc = "accepted" /\ pc' = "accept"
             \/ pc = "success" /\ pc' = "connect"
      BY <1>8 DEF AddAccepted, AddConnected, Goto
    <2>2. a1 = a /\ j1 = j
      BY <1>1, <2>1, HeadLengths DEF a, j, t, a1, j1, t1
    <2>3. QED
      BY <1>3, <1>4, <1>2, <2>1, <2>2 DEF Phase
  <1>9. CASE OnAccept \/ OnConnect
    <2>1. /\ MoveHead("main", "joining")
          /\ \/ pc = "accept" /\ pc' = "accepted" /\ numActive' = numActive + 1
             \/ pc = "connect" /\ pc' = "success" /\ numActive' = numActive
      BY <1>9 DEF OnAccept, OnConnect, Goto
    <2>2. a1 = a /\ j1 = j + 1
      <3>1. /\ Len(list'["joining"]) = Len(list["joining"]) + 1
            /\ \A r \in Place \ {"main", "joining"} : list'[r] = list[r]
        BY <1>1, <2>1, HeadLengths
      <3>2. QED BY <1>1, <3>1 DEF a, j, a1, j1
    <2>3. QED
      BY <1>3, <1>4, <1>2, <2>1, <2>2 DEF Phase
  <1>10. CASE JoinAccepted \/ JoinConnected
    <2>1. /\ Splice("joining", "active") /\ list["template"] = << >>
          /\ \/ pc = "accepted" /\ pc' = "take" /\ numActive' = numActive
             \/ pc = "success" /\ pc' = "fail" /\ numActive' = numActive + j
      BY <1>10 DEF JoinAccepted, JoinConnected, Goto, j
    <2>2. /\ Len(list'["joining"]) = 0
          /\ Len(list'["active"]) = Len(list["active"]) + Len(list["joining"])
          /\ \A r \in Place \ {"joining", "active"} : list'[r] = list[r]
      BY <1>1, <2>1, SpliceLengths
    <2>3. a1 = a + j /\ j1 = 0 /\ t1 = t
      BY <1>1, <2>2 DEF a, j, t, a1, j1, t1
    <2>4. QED
      BY <1>3, <1>4, <1>2, <2>1, <2>3 DEF Phase
  <1>11. CASE RefuseAccepted \/ RefuseConnected \/ OnConnectFail
    <2>1. /\ UNCHANGED <<numActive, pc>>
          /\ \/ pc \in {"accepted", "success"} /\ FreeSession("template")
             \/ FreeSession("fail")
      BY <1>11 DEF RefuseAccepted, RefuseConnected, OnConnectFail, FailConnect, mainVars
    <2>2. PICK p \in {"template", "fail"} :
            /\ p = "template" => pc \in {"accepted", "success"}
            /\ MoveHead(p, PoolOf(Head(list[p])))
      BY <2>1 DEF FreeSession
    <2>3. /\ a1 = a /\ j1 = j
          /\ p = "fail" => t1 = t
      BY <1>1, <2>2, HeadLengths, SMTT(40) DEF a, j, t, a1, j1, t1
    <2>4. QED
      BY <1>3, <1>4, <1>2, <2>1, <2>2, <2>3 DEF Phase
  <1>12. CASE FailDone \/ ScanDone \/ UpdateEnd
    <2>1. /\ list' = list /\ numActive' = numActive
          /\ \/ pc = "fail" /\ pc' = "scan"
             \/ pc = "scan" /\ pc' = "kick"
             \/ pc = "kick" /\ pc' = "idle" /\ list["template"] = << >>
      BY <1>12 DEF FailDone, ScanDone, UpdateEnd, Goto
    <2>2. QED
      BY <1>3, <1>4, <1>2, <2>1 DEF Phase
  <1>13. CASE ScanSession
    <2>1. pc = "scan" /\ UNCHANGED <<numActive, pc>>
      BY <1>13 DEF ScanSession
    <2>2. CASE remove[Current]
      <3>1. list' = Lists!Moved(list, "active", cur, "template") /\ cur \in 1..a
        BY <1>13, <2>2, <1>2 DEF ScanSession, IInv, a
      <3>2. /\ a1 = a - 1
            /\ t1 = t + 1
            /\ j1 = j
        BY <1>1, <3>1, MoveLengths DEF a, j, t, a1, j1, t1
      <3>3. QED
        BY <1>3, <1>4, <1>2, <2>1, <3>2 DEF Phase
    <2>3. CASE ~remove[Current]
      <3>1. list' = list
        BY <1>13, <2>3 DEF ScanSession
      <3>2. QED BY <2>1, <3>1, CountAlone
    <2>4. QED BY <2>2, <2>3
  <1>14. CASE KickSession
    <2>1. /\ pc = "kick" /\ pc' = "kicked" /\ numActive' = numActive - 1
          /\ MoveHead("template", PoolOf(Head(list["template"])))
      BY <1>14 DEF KickSession, FreeSession, Goto
    <2>2. /\ t1 = t - 1
          /\ a1 = a /\ j1 = j
      <3>1. PICK q \in {"acceptPool", "connectPool"} : MoveHead("template", q)
        BY <1>1, <2>1
      <3>2. /\ Len(list'["template"]) = Len(list["template"]) - 1
            /\ \A r \in Place \ {"template", q} : list'[r] = list[r]
        BY <1>1, <3>1, HeadLengths
      <3>3. QED BY <1>1, <3>2 DEF a, j, t, a1, j1, t1
    <2>3. QED
      BY <1>3, <1>4, <1>2, <2>1, <2>2 DEF Phase
  <1>15. QED
    BY <1>5, <1>6, <1>7, <1>8, <1>9, <1>10, <1>11, <1>12, <1>13, <1>14 DEF Update

\* The other threads reach neither the count nor the lists it is about.
LEMMA CountThreads ==
  ASSUME IInv, CountInv,
         \/ AcceptSocket \/ AcceptPush \/ ConnectThread \/ EpollWait \/ EpollHandle \/ PreSend
         \/ \E t \in IoThread : IoTake(t) \/ IoStep(t)
         \/ Peer
  PROVE  CountInv'
  <1> DEFINE Same == \A r \in Counted : list'[r] = list[r]
  <1>1. {"acceptPool", "success", "fail", "accepted", "connecting", "acceptor", "connector"}
          \subseteq Place \ Counted /\ Counted \subseteq Place
    BY DEF Place, Counted
  <1>2. ASSUME NEW p \in Place \ Counted, NEW q \in Place \ Counted, p # q, MoveHead(p, q)
        PROVE  Same
    BY <1>1, <1>2, HeadLengths
  <1> HIDE DEF Same
  <1>3. UNCHANGED list => Same
    BY DEF Same
  <1>4. CASE AcceptSocket \/ AcceptPush
    <2>1. /\ UNCHANGED <<numActive, pc>>
          /\ UNCHANGED list \/ MoveHead("acceptPool", "acceptor") \/ MoveHead("acceptor", "accepted")
      BY <1>4 DEF AcceptSocket, AcceptPush, mainVars
    <2>2. Same
      BY <1>1, <1>2, <1>3, <2>1
    <2>3. QED BY <2>1, <2>2, CountAlone DEF Same
  <1>5. CASE ConnectThread
    <2>1. /\ UNCHANGED <<numActive, pc>>
          /\ \/ UNCHANGED list
             \/ MoveHead("connecting", "connector")
             \/ MoveHead("connector", "success")
             \/ MoveHead("connector", "fail")
      BY <1>5 DEF ConnectThread, ConnectWait, ConnectTake, ConnectDone, ConnectDrained, mainVars
    <2>2. Same
      BY <1>1, <1>2, <1>3, <2>1
    <2>3. QED BY <2>1, <2>2, CountAlone DEF Same
  <1>6. CASE EpollWait \/ EpollHandle \/ PreSend
    <2>1. UNCHANGED <<list, numActive, pc>>
      BY <1>6 DEF EpollWait, EpollHandle, PreSend, mainVars
    <2>2. QED BY <1>3, <2>1, CountAlone DEF Same
  <1>7. CASE \E t \in IoThread : IoTake(t) \/ IoStep(t)
    <2>1. UNCHANGED <<list, numActive, pc>>
      BY <1>7 DEF IoTake, IoStep, RecvCheck, RecvCall, RecvStore, SendCheck, SendCall, mainVars
    <2>2. QED BY <1>3, <2>1, CountAlone DEF Same
  <1>8. CASE Peer
    <2>1. UNCHANGED <<list, numActive, pc>>
      BY <1>8 DEF Peer, PeerSend, PeerLeave, PeerDrain, mainVars
    <2>2. QED BY <1>3, <2>1, CountAlone DEF Same
  <1>9. QED
    BY <1>4, <1>5, <1>6, <1>7, <1>8

\* The count's invariant holds in every reachable state.
LEMMA CountInvHolds == Spec => []CountInv
  <1>1. Init => CountInv
    BY DEF Init, CountInv, Phase, CountByPhase, ListsEmptied, Place
  <1>2. IInv /\ CountInv /\ [Next]_vars => CountInv'
    <2>1. CASE UNCHANGED vars
      BY <2>1 DEF vars, mainVars, CountInv, CountByPhase, ListsEmptied
    <2>2. CASE Connect \/ Update
      BY <2>2, CountUpdate
    <2>3. CASE Next /\ ~(Connect \/ Update)
      BY <2>3, CountThreads DEF Next
    <2>4. QED
      BY <2>1, <2>2, <2>3
  <1>3. QED
    BY <1>1, <1>2, IInvHolds, PTL DEF Spec

\* m_numActiveSessions is the number of sessions that are active, about to join
\* or being kicked, at every step of Update (SyncHandler.cpp:308, 342, 361, 430),
\* for any pools, io threads and limits.
THEOREM CountIsRight == Spec => []CountAgrees
  <1>1. IInv /\ CountInv => CountAgrees
    <2> SUFFICES ASSUME IInv, CountInv PROVE CountAgrees
      OBVIOUS
    <2>1. \A p \in {"active", "joining", "template"} : Len(list[p]) \in Nat
      BY Lengths DEF Counted
    <2> DEFINE active == Len(list["active"])
               joining == Len(list["joining"])
               template == Len(list["template"])
    <2>2. /\ pc \in {"accepted", "accept"} => numActive = active + joining
          /\ pc \in {"scan", "kick", "kicked"} => numActive = active + template
          /\ pc \notin {"accepted", "accept", "scan", "kick", "kicked"} => numActive = active
          /\ active \in Nat /\ joining \in Nat /\ template \in Nat
      BY <2>1 DEF CountInv, CountByPhase
    <2>3. CountAgrees <=> numActive = active + (IF pc \in {"accepted", "accept"} THEN joining ELSE 0)
                                      + (IF pc \in {"scan", "kick", "kicked"} THEN template ELSE 0)
      BY DEF CountAgrees
    <2> HIDE DEF active, joining, template
    <2>4. CASE pc \in {"accepted", "accept"}
      BY <2>2, <2>3, <2>4
    <2>5. CASE pc \in {"scan", "kick", "kicked"}
      BY <2>2, <2>3, <2>5
    <2>6. CASE pc \notin {"accepted", "accept", "scan", "kick", "kicked"}
      BY <2>2, <2>3, <2>6
    <2>7. QED
      BY <2>4, <2>5, <2>6
  <1>2. QED
    BY <1>1, IInvHolds, CountInvHolds, PTL

-----------------------------------------------------------------------------
\* The types of what the sessions, their objects and the threads are made of,
\* but for the events, which follow from more than types.
DataInv ==
  /\ sock \in [Session -> Conn \cup {0}]
  /\ remove \in [Session -> BOOLEAN] /\ ordered \in [Session -> BOOLEAN]
  /\ canSend \in [Session -> BOOLEAN] /\ unsent \in [Session -> BOOLEAN]
  /\ complete \in [Session -> BOOLEAN]
  /\ obj \in [Session -> Conn \cup {0}]
  /\ objSess \in [Conn -> Session \cup {NULL}]
  /\ life \in [Conn -> {"none", "opening", "open", "failed", "closed"}]
  /\ net \in Conn \cup {0} /\ accSock \in Conn \cup {0} /\ sem \in Nat
  /\ made \in Nat /\ made <= MaxConns
  /\ reg \in [Conn -> Session \cup {NULL}]
  /\ sent \in [Conn -> Nat]

dataVars == <<sock, remove, ordered, canSend, unsent, complete, obj, objSess, life,
              net, accSock, sem, made, reg, sent>>

\* A flag is never taken back.
RemoveGrows == \A s \in Session : remove[s] => remove'[s]

LEMMA HeadIn ==
  ASSUME IInv, NEW p \in Place, list[p] # << >>
  PROVE  Head(list[p]) \in Session /\ Head(list[p]) = list[p][1] /\ 1 \in 1..Len(list[p])
  <1>1. list[p] \in Seq(Session) /\ Len(list[p]) \in Nat /\ Len(list[p]) > 0
    BY Lengths
  <1>2. QED
    BY <1>1

\* What the application does sets flags of the session, and only sets remove.
LEMMA AppData ==
  ASSUME DataInv, NEW s \in Session, NEW u, NEW o, AppReacts(s, remove, u, o),
         u \in [Session -> BOOLEAN], o \in [Session -> BOOLEAN]
  PROVE  /\ unsent' \in [Session -> BOOLEAN] /\ ordered' \in [Session -> BOOLEAN]
         /\ remove' \in [Session -> BOOLEAN] /\ RemoveGrows
         /\ \A r \in Session \ {s} : remove'[r] = remove[r]
  BY DEF DataInv, AppReacts, AppNothing, AppSend, AppDisconnect, AppOrder, RemoveGrows

\* What the main thread does to the data.
LEMMA DataUpdate ==
  ASSUME IInv, CountInv, DataInv, Connect \/ Update
  PROVE  DataInv' /\ RemoveGrows
  <1>1. /\ {"acceptPool", "connectPool", "active", "accepted", "success", "fail", "template",
            "connecting", "joining", "main"} \subseteq Place
        /\ Conn \subseteq Nat /\ MaxConns \in Nat /\ Conn = 1..MaxConns
    BY SyncAssumption DEF Place, Conn
  <1>2. CASE Connect
    <2>1. At("connectPool") \in Session
      BY <1>1, <1>2, HeadIn DEF Connect, At
    <2>2. made + 1 \in Conn
      BY <1>1, <1>2 DEF Connect, DataInv
    <2> DEFINE s == At("connectPool")
               c == made + 1
    <2>3. /\ made' = c /\ sock' = [sock EXCEPT ![s] = c] /\ obj' = [obj EXCEPT ![s] = c]
          /\ objSess' = [objSess EXCEPT ![c] = s] /\ life' = [life EXCEPT ![c] = "opening"]
          /\ sem' = sem + 1
          /\ UNCHANGED <<remove, ordered, canSend, unsent, complete, net, reg, accSock, sent>>
      BY <1>2 DEF Connect, Bind, Told, Post, mainVars, pollVars
    <2>4. QED
      BY <1>1, <2>1, <2>2, <2>3 DEF DataInv, RemoveGrows
  <1>3. CASE UpdateBegin \/ RecvDone \/ TakeAccepted \/ JoinAccepted \/ TakeSuccess
             \/ FailDone \/ ScanSession \/ ScanDone \/ UpdateEnd \/ JoinConnected
    <2>1. UNCHANGED dataVars
      BY <1>3 DEF UpdateBegin, RecvDone, TakeAccepted, JoinAccepted, TakeSuccess, FailDone,
                  ScanSession, ScanDone, UpdateEnd, JoinConnected, dataVars,
                  sessVars, objVars, pollVars, makeVars, peerVars
    <2>2. QED
      BY <2>1 DEF DataInv, dataVars, RemoveGrows
  <1>4. CASE CheckSession \/ RecvMalformed
    <2>1. /\ UNCHANGED remove \/ Removed(Current)
          /\ UNCHANGED <<sock, ordered, canSend, unsent, complete, obj, objSess, life,
                         net, accSock, sem, made, reg, sent>>
      BY <1>4 DEF CheckSession, RecvMalformed, objVars, pollVars, makeVars, peerVars
    <2>2. QED
      BY <2>1 DEF DataInv, Removed, RemoveGrows
  <1>5. CASE RecvPacket
    <2>1. /\ AppReacts(Current, remove, unsent, ordered)
          /\ UNCHANGED <<sock, canSend, complete, obj, objSess, life,
                         net, accSock, sem, made, reg, sent>>
      BY <1>5 DEF RecvPacket, mainVars, pollVars, makeVars, peerVars
    <2>2. QED
      BY <2>1 DEF DataInv, RemoveGrows, AppReacts, AppNothing, AppSend, AppDisconnect, AppOrder,
                  Removed
  <1>6. CASE RefuseAccepted
    <2>1. Head(list["template"]) \in Session
      BY <1>1, <1>6, HeadIn DEF RefuseAccepted
    <2>2. CloseSocket(Head(list["template"])) /\ InitSession(Head(list["template"]))
      BY <1>6 DEF RefuseAccepted, FreeSession
    <2>3. UNCHANGED <<obj, objSess, life, net, accSock, sem, made, sent>>
      BY <1>6 DEF RefuseAccepted, objVars, mainVars, threadVars, makeVars, peerVars
    <2>4. QED
      BY <2>1, <2>2, <2>3 DEF DataInv, RemoveGrows, CloseSocket, InitSession, ResetKillFlag
  <1>7. CASE RefuseConnected \/ OnConnectFail
    <2>1. PICK p \in {"template", "fail"} : FailConnect(p) /\ list[p] # << >>
      BY <1>7 DEF RefuseConnected, OnConnectFail
    <2>2. Head(list[p]) \in Session
      BY <1>1, <2>1, HeadIn
    <2> DEFINE s == Head(list[p])
    <2>3. CloseSocket(s) /\ InitSession(s) /\ Unbind(s) /\ Told(obj[s], "failed")
      BY <2>1 DEF FailConnect, FreeSession, At
    <2>4. UNCHANGED <<net, accSock, sem, made, sent>>
      BY <2>1 DEF FailConnect, mainVars, threadVars, makeVars, peerVars
    <2>5. QED
      BY <2>2, <2>3, <2>4 DEF DataInv, RemoveGrows, CloseSocket, InitSession, ResetKillFlag,
                              Unbind, Told
  <1>8. CASE AddAccepted \/ AddConnected
    <2>1. Head(list["template"]) \in Session
      BY <1>1, <1>8, HeadIn DEF AddAccepted, AddConnected
    <2>2. /\ reg' = [reg EXCEPT ![sock[Head(list["template"])]] = Head(list["template"])]
          /\ UNCHANGED <<sock, remove, ordered, canSend, unsent, complete, obj, objSess, life,
                         net, accSock, sem, made, sent>>
      BY <1>8 DEF AddAccepted, AddConnected, AddEpollEvent, At, sessVars, objVars, makeVars, peerVars
    <2>3. QED
      BY <2>1, <2>2 DEF DataInv, RemoveGrows
  <1>9. CASE OnAccept \/ OnConnect
    <2>1. Head(list["main"]) \in Session
      BY <1>1, <1>9, HeadIn DEF OnAccept, OnConnect, MoveHead
    <2> DEFINE s == Head(list["main"])
    <2>2. CASE OnAccept
      <3>1. /\ obj' = [obj EXCEPT ![s] = sock[s]] /\ objSess' = [objSess EXCEPT ![sock[s]] = s]
            /\ life' = [life EXCEPT ![sock[s]] = "open"]
            /\ AppReacts(s, remove, unsent, ordered)
            /\ UNCHANGED <<sock, canSend, complete, net, accSock, sem, made, reg, sent>>
        BY <2>2 DEF OnAccept, ResetKillFlag, Bind, Told, At, pollVars, makeVars, peerVars
      <3>2. unsent' \in [Session -> BOOLEAN] /\ ordered' \in [Session -> BOOLEAN]
            /\ remove' \in [Session -> BOOLEAN] /\ RemoveGrows
        <4>1. unsent \in [Session -> BOOLEAN] /\ ordered \in [Session -> BOOLEAN]
          BY DEF DataInv
        <4>2. QED
          BY <2>1, <3>1, <4>1, AppData
      <3>3. QED
        BY <2>1, <3>1, <3>2 DEF DataInv
    <2>3. CASE OnConnect
      <3> DEFINE u == [unsent EXCEPT ![s] = FALSE]
                 o == [ordered EXCEPT ![s] = FALSE]
      <3>1. /\ complete' = [complete EXCEPT ![s] = TRUE] /\ canSend' = [canSend EXCEPT ![s] = TRUE]
            /\ life' = [life EXCEPT ![obj[s]] = "open"]
            /\ AppReacts(s, remove, u, o)
            /\ UNCHANGED <<sock, obj, objSess, net, accSock, sem, made, reg, sent>>
        BY <2>3 DEF OnConnect, ResetKillFlag, Told, At, pollVars, makeVars, peerVars
      <3>2. unsent' \in [Session -> BOOLEAN] /\ ordered' \in [Session -> BOOLEAN]
            /\ remove' \in [Session -> BOOLEAN] /\ RemoveGrows
        <4>1. u \in [Session -> BOOLEAN] /\ o \in [Session -> BOOLEAN]
          BY DEF DataInv
        <4> HIDE DEF u, o
        <4>2. QED
          BY <2>1, <3>1, <4>1, AppData
      <3>3. QED
        BY <2>1, <3>1, <3>2 DEF DataInv
    <2>4. QED BY <1>9, <2>2, <2>3
  <1>10. CASE KickSession
    <2>1. Head(list["template"]) \in Session
      BY <1>1, <1>10, HeadIn DEF KickSession
    <2> DEFINE s == Head(list["template"])
    <2>2. CloseSocket(s) /\ InitSession(s) /\ Unbind(s) /\ net' = obj[s]
      BY <1>10 DEF KickSession, FreeSession, At
    <2>3. UNCHANGED <<life, accSock, sem, made, sent>>
      BY <1>10 DEF KickSession, threadVars, makeVars, peerVars
    <2>4. QED
      BY <2>1, <2>2, <2>3 DEF DataInv, RemoveGrows, CloseSocket, InitSession, ResetKillFlag, Unbind
  <1>11. CASE OnDisconnect
    <2>1. /\ life' = [life EXCEPT ![net] = "closed"] /\ net' = 0
          /\ UNCHANGED <<sock, remove, ordered, canSend, unsent, complete, obj, objSess,
                         accSock, sem, made, reg, sent>>
      BY <1>11 DEF OnDisconnect, Told, sessVars, pollVars, makeVars, peerVars
    <2>2. QED
      BY <2>1 DEF DataInv, RemoveGrows
  <1>12. QED
    BY <1>2, <1>3, <1>4, <1>5, <1>6, <1>7, <1>8, <1>9, <1>10, <1>11 DEF Update

\* What the other threads and the peers do to the data.
LEMMA DataThreads ==
  ASSUME IInv, DataInv,
         \/ AcceptSocket \/ AcceptPush \/ ConnectThread \/ EpollWait \/ EpollHandle \/ PreSend
         \/ \E t \in IoThread : IoTake(t) \/ IoStep(t)
         \/ Peer
  PROVE  DataInv' /\ RemoveGrows
  <1>1. Conn \subseteq Nat /\ MaxConns \in Nat /\ Conn = 1..MaxConns
    BY SyncAssumption DEF Conn
  <1>2. CASE AcceptSocket
    <2>1. /\ made < MaxConns /\ made' = made + 1 /\ accSock' \in {accSock, made + 1}
          /\ UNCHANGED <<sock, remove, ordered, canSend, unsent, complete, obj, objSess, life,
                         net, sem, reg, sent>>
      BY <1>2 DEF AcceptSocket, sessVars, objVars, mainVars, pollVars
    <2>2. QED
      BY <1>1, <2>1 DEF DataInv, RemoveGrows
  <1>3. CASE AcceptPush
    <2>1. /\ sock' = [sock EXCEPT ![At1("acceptor")] = accSock] /\ accSock' = 0
          /\ UNCHANGED <<remove, ordered, canSend, unsent, complete, obj, objSess, life,
                         net, sem, made, reg, sent>>
      BY <1>3 DEF AcceptPush, objVars, mainVars, pollVars, peerVars
    <2>2. QED
      BY <1>1, <2>1 DEF DataInv, RemoveGrows
  <1>4. CASE ConnectThread
    <2>1. UNCHANGED <<sock, remove, ordered, canSend, unsent, complete, obj, objSess, life,
                      net, accSock, made, reg, sent>>
      BY <1>4 DEF ConnectThread, ConnectWait, ConnectTake, ConnectDone, ConnectDrained,
                  sessVars, objVars, mainVars, pollVars, makeVars, peerVars
    <2>2. UNCHANGED sem \/ (sem > 0 /\ sem' = sem - 1)
      BY <1>4 DEF ConnectThread, ConnectWait, ConnectTake, ConnectDone, ConnectDrained, makeVars
    <2>3. QED
      BY <2>1, <2>2 DEF DataInv, RemoveGrows
  <1>5. CASE EpollWait \/ PreSend
    <2>1. UNCHANGED dataVars
      BY <1>5 DEF EpollWait, PreSend, dataVars, sessVars, objVars, mainVars, pollVars, makeVars,
                  peerVars
    <2>2. QED
      BY <2>1 DEF DataInv, dataVars, RemoveGrows
  <1>6. CASE EpollHandle
    <2>1. PICK ev \in fetched : /\ UNCHANGED remove \/ Removed(ev.s)
                                /\ UNCHANGED canSend \/ canSend' = [canSend EXCEPT ![ev.s] = TRUE]
      BY <1>6 DEF EpollHandle, EpollHup, EpollOnSend, EpollMod, EpollIn
    <2>2. UNCHANGED <<sock, ordered, unsent, complete, obj, objSess, life,
                      net, accSock, sem, made, reg, sent>>
      BY <1>6 DEF EpollHandle, objVars, mainVars, makeVars, peerVars
    <2>3. QED
      BY <2>1, <2>2 DEF DataInv, RemoveGrows, Removed
  <1>7. ASSUME NEW t \in IoThread, IoTake(t) \/ IoStep(t)
        PROVE  DataInv' /\ RemoveGrows
    <2>1. UNCHANGED <<sock, ordered, obj, objSess, life, net, accSock, sem, made, reg, sent>>
      BY <1>7 DEF IoTake, IoStep, RecvCheck, RecvCall, RecvStore, SendCheck, SendCall,
                  sessVars, objVars, mainVars, pollVars, makeVars, peerVars
    <2>2. /\ UNCHANGED remove \/ Removed(io[t].s)
          /\ UNCHANGED canSend \/ canSend' = [canSend EXCEPT ![io[t].s] = FALSE]
          /\ UNCHANGED unsent \/ unsent' = [unsent EXCEPT ![io[t].s] = FALSE]
          /\ \/ UNCHANGED complete
             \/ complete' = [complete EXCEPT ![io[t].s] = TRUE]
             \/ complete' = [complete EXCEPT ![io[t].s] = FALSE]
      BY <1>7 DEF IoTake, IoStep, RecvCheck, RecvCall, RecvSome, RecvStore, SendCheck, SendCall,
                  SendSome, SendBlocks, SendFails, sessVars
    <2>3. QED
      BY <2>1, <2>2 DEF DataInv, RemoveGrows, Removed
  <1>8. CASE Peer
    <2>1. /\ UNCHANGED sent \/ \E c \in Conn : sent' = [sent EXCEPT ![c] = @ + 1]
          /\ UNCHANGED <<sock, remove, ordered, canSend, unsent, complete, obj, objSess, life,
                         net, accSock, sem, made, reg>>
      BY <1>8 DEF Peer, PeerSend, PeerLeave, PeerDrain, sessVars, objVars, mainVars, makeVars,
                  peerVars
    <2>2. QED
      BY <2>1 DEF DataInv, RemoveGrows
  <1>9. QED
    BY <1>2, <1>3, <1>4, <1>5, <1>6, <1>7, <1>8

LEMMA DataStep ==
  ASSUME IInv, CountInv, DataInv, [Next]_vars
  PROVE  DataInv' /\ RemoveGrows
  <1>1. CASE UNCHANGED vars
    BY <1>1 DEF vars, sessVars, objVars, mainVars, pollVars, makeVars, peerVars, DataInv, RemoveGrows
  <1>2. CASE Connect \/ Update
    BY <1>2, DataUpdate
  <1>3. CASE Next /\ ~(Connect \/ Update)
    BY <1>3, DataThreads DEF Next
  <1>4. QED
    BY <1>1, <1>2, <1>3

LEMMA DataHolds == Spec => []DataInv
  <1>1. Init => DataInv
    BY SyncAssumption DEF Init, DataInv, Conn
  <1>2. IInv /\ CountInv /\ DataInv /\ [Next]_vars => DataInv'
    BY DataStep
  <1>3. QED
    BY <1>1, <1>2, IInvHolds, CountInvHolds, PTL DEF Spec

-----------------------------------------------------------------------------
\* The main thread holds a session of its own while it calls epoll_ctl's user
\* and the object's OnAccept or OnConnect, the accept thread holds one while it
\* has a socket, and the iterator is on the active list while packets are read.
HeldInv ==
  /\ Len(list["main"]) = IF pc \in {"accept", "connect"} THEN 1 ELSE 0
  /\ Len(list["acceptor"]) = IF accSock = 0 THEN 0 ELSE 1
  /\ pc = "packets" => cur <= Len(list["active"])

LEMMA HeldUpdate ==
  ASSUME IInv, CountInv, DataInv, HeldInv, Connect \/ Update
  PROVE  HeldInv'
  <1>1. /\ {"acceptPool", "connectPool", "active", "accepted", "success", "fail", "template",
            "connecting", "joining", "main", "acceptor"} \subseteq Place
        /\ \A s : PoolOf(s) \in {"acceptPool", "connectPool"}
    BY DEF Place, PoolOf
  <1>2. accSock' = accSock
    BY DEF Connect, Update, UpdateBegin, CheckSession, RecvPacket, RecvMalformed, RecvDone,
           TakeAccepted, RefuseAccepted, AddAccepted, OnAccept, JoinAccepted, TakeSuccess,
           AddConnected, OnConnect, RefuseConnected, JoinConnected, OnConnectFail, FailDone,
           ScanSession, ScanDone, KickSession, OnDisconnect, UpdateEnd, FailConnect,
           threadVars, makeVars
  <1> DEFINE m == Len(list["main"])
             a == Len(list["acceptor"])
             n == Len(list["active"])
             m1 == Len(list'["main"])
             a1 == Len(list'["acceptor"])
             n1 == Len(list'["active"])
  <1>3. /\ m \in Nat /\ a \in Nat /\ n \in Nat /\ cur \in Nat
        /\ list' = list => m1 = m /\ a1 = a /\ n1 = n
    BY <1>1, Lengths DEF IInv
  <1>4. /\ m = IF pc \in {"accept", "connect"} THEN 1 ELSE 0
        /\ a = IF accSock = 0 THEN 0 ELSE 1
        /\ pc = "packets" => cur <= n
        /\ pc \in Phase
    BY DEF HeldInv, CountInv
  <1>5. /\ a1 = a
        /\ m1 = IF pc' \in {"accept", "connect"} THEN 1 ELSE 0
        /\ pc' = "packets" => cur' <= n1
        => HeldInv'
    BY <1>2, <1>4 DEF HeldInv
  <1> HIDE DEF m, a, n, m1, a1, n1
  <1>6. CASE Connect
    <2>1. MoveHead("connectPool", "connecting") /\ UNCHANGED <<pc, cur>> /\ pc = "idle"
      BY <1>6 DEF Connect, mainVars
    <2>2. m1 = m /\ a1 = a
      BY <1>1, <2>1, HeadLengths DEF m, a, m1, a1
    <2>3. QED BY <1>4, <1>5, <2>1, <2>2
  <1>7. CASE CheckSession \/ RecvMalformed \/ RecvDone \/ UpdateBegin \/ FailDone
             \/ ScanDone \/ UpdateEnd \/ OnDisconnect
    <2>1. list' = list /\ (pc' = "packets" => pc = "active" /\ cur' = cur /\ cur <= n)
      BY <1>7 DEF CheckSession, RecvMalformed, RecvDone, UpdateBegin, FailDone, ScanDone, UpdateEnd,
                  OnDisconnect, NextSession, Goto, n
    <2>2. pc \notin {"accept", "connect"} /\ pc' \notin {"accept", "connect"}
      BY <1>7 DEF CheckSession, RecvMalformed, RecvDone, UpdateBegin, FailDone, ScanDone, UpdateEnd,
                  OnDisconnect, NextSession, Goto
    <2>3. QED BY <1>3, <1>4, <1>5, <2>1, <2>2
  <1>8. CASE RecvPacket
    <2>1. UNCHANGED <<list, pc, cur>>
      BY <1>8 DEF RecvPacket, mainVars
    <2>2. QED BY <1>3, <1>4, <1>5, <2>1
  <1>9. CASE TakeAccepted \/ TakeSuccess
    <2>1. PICK p \in {"accepted", "success"} :
            Splice(p, "template") /\ pc' = p /\ pc \in {"active", "take"}
      BY <1>9 DEF TakeAccepted, TakeSuccess, Goto
    <2>2. \A r \in Place \ {p, "template"} : list'[r] = list[r]
      BY <1>1, <2>1, SpliceLengths
    <2>3. m1 = m /\ a1 = a
      BY <1>1, <2>1, <2>2 DEF m, a, m1, a1
    <2>4. QED BY <1>4, <1>5, <2>1, <2>3
  <1>10. CASE JoinAccepted \/ JoinConnected
    <2>1. Splice("joining", "active") /\ pc \in {"accepted", "success"} /\ pc' \in {"take", "fail"}
      BY <1>10 DEF JoinAccepted, JoinConnected, Goto
    <2>2. \A r \in Place \ {"joining", "active"} : list'[r] = list[r]
      BY <1>1, <2>1, SpliceLengths
    <2>3. m1 = m /\ a1 = a
      BY <1>1, <2>2 DEF m, a, m1, a1
    <2>4. QED BY <1>4, <1>5, <2>1, <2>3
  <1>11. CASE AddAccepted \/ AddConnected
    <2>1. MoveHead("template", "main") /\ pc \in {"accepted", "success"}
          /\ pc' \in {"accept", "connect"}
      BY <1>11 DEF AddAccepted, AddConnected, Goto
    <2>2. /\ Len(list'["main"]) = Len(list["main"]) + 1
          /\ \A r \in Place \ {"template", "main"} : list'[r] = list[r]
      BY <1>1, <2>1, HeadLengths
    <2>3. m1 = m + 1 /\ a1 = a
      BY <1>1, <2>2 DEF m, a, m1, a1
    <2>4. QED BY <1>3, <1>4, <1>5, <2>1, <2>3
  <1>12. CASE OnAccept \/ OnConnect
    <2>1. MoveHead("main", "joining") /\ pc \in {"accept", "connect"}
          /\ pc' \in {"accepted", "success"}
      BY <1>12 DEF OnAccept, OnConnect, Goto
    <2>2. m1 = m - 1 /\ a1 = a
      BY <1>1, <2>1, HeadLengths DEF m, a, m1, a1
    <2>3. QED BY <1>3, <1>4, <1>5, <2>1, <2>2
  <1>13. CASE RefuseAccepted \/ RefuseConnected \/ OnConnectFail \/ KickSession
    <2>1. PICK p \in {"template", "fail"} : FreeSession(p)
      BY <1>13 DEF RefuseAccepted, RefuseConnected, OnConnectFail, KickSession, FailConnect
    <2>2. pc \in {"accepted", "success", "fail", "kick"} /\ pc' \in {pc, "kicked"}
      BY <1>13 DEF RefuseAccepted, RefuseConnected, OnConnectFail, KickSession, FailConnect,
                   mainVars, Goto
    <2>3. MoveHead(p, PoolOf(Head(list[p])))
      BY <2>1 DEF FreeSession
    <2>4. m1 = m /\ a1 = a
      <3>1. PICK q \in {"acceptPool", "connectPool"} : MoveHead(p, q)
        BY <1>1, <2>3
      <3>2. \A r \in Place \ {p, q} : list'[r] = list[r]
        BY <1>1, <3>1, HeadLengths, SMTT(40)
      <3>3. QED BY <1>1, <3>2 DEF m, a, m1, a1
    <2>5. QED BY <1>4, <1>5, <2>2, <2>4
  <1>14. CASE ScanSession
    <2>1. pc = "scan" /\ pc' = "scan"
      BY <1>14 DEF ScanSession
    <2>2. CASE remove[Current]
      <3>1. list' = Lists!Moved(list, "active", cur, "template") /\ cur \in 1..n
        BY <1>14, <2>2, <1>3 DEF ScanSession, IInv, n
      <3>2. m1 = m /\ a1 = a
        BY <1>1, <3>1, MoveLengths DEF m, a, n, m1, a1
      <3>3. QED BY <1>4, <1>5, <2>1, <3>2
    <2>3. CASE ~remove[Current]
      BY <1>14, <2>1, <2>3, <1>3, <1>4, <1>5 DEF ScanSession
    <2>4. QED BY <2>2, <2>3
  <1>15. QED
    BY <1>6, <1>7, <1>8, <1>9, <1>10, <1>11, <1>12, <1>13, <1>14 DEF Update

LEMMA HeldThreads ==
  ASSUME IInv, DataInv, HeldInv,
         \/ AcceptSocket \/ AcceptPush \/ ConnectThread \/ EpollWait \/ EpollHandle \/ PreSend
         \/ \E t \in IoThread : IoTake(t) \/ IoStep(t)
         \/ Peer
  PROVE  HeldInv'
  <1>1. {"acceptPool", "active", "accepted", "success", "fail", "connecting", "main", "acceptor",
         "connector"} \subseteq Place
    BY DEF Place
  <1>2. \A r \in Place : Len(list[r]) \in Nat
    BY Lengths
  <1>3. CASE AcceptSocket
    <2>1. UNCHANGED <<pc, cur>> /\ accSock = 0
      BY <1>3 DEF AcceptSocket, mainVars
    <2>2. CASE list["acceptPool"] = << >>
      BY <1>3, <2>1, <2>2 DEF AcceptSocket, HeldInv
    <2>3. CASE list["acceptPool"] # << >>
      <3>1. MoveHead("acceptPool", "acceptor") /\ accSock' = made + 1 /\ made \in Nat
        BY <1>3, <2>3 DEF AcceptSocket, DataInv
      <3>2. accSock' # 0
        BY <3>1
      <3>3. Len(list'["acceptor"]) = Len(list["acceptor"]) + 1
            /\ list'["main"] = list["main"] /\ list'["active"] = list["active"]
        BY <1>1, <3>1, HeadLengths, SMTT(40)
      <3>4. QED BY <2>1, <3>2, <3>3 DEF HeldInv
    <2>4. QED BY <2>2, <2>3
  <1>4. CASE AcceptPush
    <2>1. UNCHANGED <<pc, cur>> /\ accSock # 0 /\ accSock' = 0 /\ MoveHead("acceptor", "accepted")
      BY <1>4 DEF AcceptPush, mainVars
    <2>2. Len(list'["acceptor"]) = Len(list["acceptor"]) - 1
          /\ list'["main"] = list["main"] /\ list'["active"] = list["active"]
      BY <1>1, <2>1, HeadLengths, SMTT(40)
    <2>3. QED BY <2>1, <2>2 DEF HeldInv
  <1>5. CASE ConnectThread
    <2>1. /\ UNCHANGED <<pc, cur, accSock>>
          /\ \/ UNCHANGED list
             \/ MoveHead("connecting", "connector")
             \/ MoveHead("connector", "success")
             \/ MoveHead("connector", "fail")
      BY <1>5 DEF ConnectThread, ConnectWait, ConnectTake, ConnectDone, ConnectDrained, mainVars,
                  makeVars
    <2>2. UNCHANGED <<list["main"], list["active"], list["acceptor"]>>
      BY <1>1, <2>1, HeadLengths
    <2>3. QED BY <2>1, <2>2 DEF HeldInv
  <1>6. CASE EpollWait \/ EpollHandle \/ PreSend
    BY <1>6 DEF EpollWait, EpollHandle, PreSend, mainVars, makeVars, HeldInv
  <1>7. CASE \E t \in IoThread : IoTake(t) \/ IoStep(t)
    BY <1>7 DEF IoTake, IoStep, RecvCheck, RecvCall, RecvStore, SendCheck, SendCall, mainVars,
                makeVars, HeldInv
  <1>8. CASE Peer
    BY <1>8 DEF Peer, PeerSend, PeerLeave, PeerDrain, mainVars, makeVars, HeldInv
  <1>9. QED
    BY <1>3, <1>4, <1>5, <1>6, <1>7, <1>8

LEMMA HeldHolds == Spec => []HeldInv
  <1>1. Init => HeldInv
    BY DEF Init, HeldInv, Place
  <1>2. IInv /\ CountInv /\ DataInv /\ HeldInv /\ [Next]_vars => HeldInv'
    <2>1. CASE UNCHANGED vars
      BY <2>1 DEF vars, mainVars, makeVars, HeldInv
    <2>2. CASE Connect \/ Update
      BY <2>2, HeldUpdate
    <2>3. CASE Next /\ ~(Connect \/ Update)
      BY <2>3, HeldThreads DEF Next
    <2>4. QED
      BY <2>1, <2>2, <2>3
  <1>3. QED
    BY <1>1, <1>2, IInvHolds, CountInvHolds, DataHolds, PTL DEF Spec

-----------------------------------------------------------------------------
\* The place of each session, and how far the session is: in a pool or about to
\* leave it; with a socket that nobody knows yet; registered, before OnAccept;
\* connecting; registered, before OnConnect; on its way to the active list or on
\* it; off it and about to be freed.
where == Where(list)

StageAt(p, at) ==
  CASE p \in {"acceptPool", "connectPool", "acceptor"} -> "free"
    [] p = "accepted" \/ (p = "template" /\ at \in {"accepted", "accept"}) -> "fresh"
    [] p = "main" /\ at = "accept" -> "accept"
    [] p \in {"connecting", "connector", "success", "fail"}
       \/ (p = "template" /\ at \in {"success", "connect"}) -> "opening"
    [] p = "main" /\ at = "connect" -> "connect"
    [] p \in {"joining", "active"} -> "running"
    [] p = "template" /\ at \in {"scan", "kick", "kicked"} -> "dead"
    [] OTHER -> "none"

stage == [s \in Session |-> StageAt(where[s], pc)]

\* Session s, and no other, goes from one stage to another.
Becomes(s, from, to) ==
  s \in Session /\ stage[s] = from /\ stage' = [stage EXCEPT ![s] = to]

\* The stages in which epoll may know a session.
Known == {"accept", "connect", "running", "dead"}

\* Everybody is somewhere, and the local lists of Update are empty when it is
\* not in the phase they are for.
LEMMA Wheres ==
  ASSUME IInv
  PROVE  /\ where \in [Session -> Place]
         /\ \A p \in Place : \A i \in 1..Len(list[p]) : where[list[p][i]] = p /\ list[p][i] \in Session
         /\ \A s \in Session : \E i \in 1..Len(list[where[s]]) : list[where[s]][i] = s
  <1>1. Lists!Placed(list)
    BY DEF IInv
  <1>2. QED
    BY <1>1, WhereFacts DEF where

LEMMA Occupied ==
  ASSUME IInv, CountInv, HeldInv, NEW s \in Session
  PROVE  /\ where[s] = "main" => pc \in {"accept", "connect"} /\ s = Head(list["main"])
         /\ where[s] = "template" => pc \notin {"idle", "active", "packets", "take", "fail"}
         /\ where[s] = "acceptor" => accSock # 0 /\ s = Head(list["acceptor"])
  <1>1. where[s] \in Place /\ \E i \in 1..Len(list[where[s]]) : list[where[s]][i] = s
    BY Wheres
  <1>2. \A r \in Place : list[r] \in Seq(Session) /\ Len(list[r]) \in Nat
    BY Lengths
  <1>3. {"main", "template", "acceptor"} \subseteq Place
    BY DEF Place
  <1>4. CASE where[s] = "main"
    <2>1. PICK i \in 1..Len(list["main"]) : list["main"][i] = s
      BY <1>1, <1>4
    <2>2. Len(list["main"]) = IF pc \in {"accept", "connect"} THEN 1 ELSE 0
      BY DEF HeldInv
    <2>3. pc \in {"accept", "connect"} /\ i = 1
      BY <2>1, <2>2
    <2>4. QED
      BY <1>2, <1>3, <1>4, <2>1, <2>2, <2>3, HeadIn, Lengths
  <1>5. CASE where[s] = "template"
    <2>1. PICK i \in 1..Len(list["template"]) : list["template"][i] = s
      BY <1>1, <1>5
    <2>2. Len(list["template"]) # 0
      BY <2>1
    <2>3. QED
      BY <1>5, <2>2 DEF CountInv, ListsEmptied
  <1>6. CASE where[s] = "acceptor"
    <2>1. PICK i \in 1..Len(list["acceptor"]) : list["acceptor"][i] = s
      BY <1>1, <1>6
    <2>2. Len(list["acceptor"]) = IF accSock = 0 THEN 0 ELSE 1
      BY DEF HeldInv
    <2>3. accSock # 0 /\ i = 1
      BY <2>1, <2>2
    <2>4. QED
      BY <1>2, <1>3, <1>6, <2>1, <2>2, <2>3, HeadIn, Lengths
  <1>7. QED
    BY <1>4, <1>5, <1>6

\* A pop and a push take the session from one place to the other; a splice
\* takes all sessions of a list.
LEMMA MovedWhere ==
  ASSUME IInv, NEW p \in Place, NEW q \in Place, p # q, NEW i \in 1..Len(list[p]),
         list' = Lists!Moved(list, p, i, q)
  PROVE  list[p][i] \in Session /\ where[list[p][i]] = p /\ where' = [where EXCEPT ![list[p][i]] = q]
  <1>1. Lists!Placed(list)
    BY DEF IInv
  <1>2. Where(list') = [Where(list) EXCEPT ![list[p][i]] = q]
    BY <1>1, WhereMoved
  <1>3. QED
    BY <1>2, Wheres DEF where

LEMMA HeadWhere ==
  ASSUME IInv, NEW p \in Place, NEW q \in Place, p # q, MoveHead(p, q)
  PROVE  /\ Head(list[p]) \in Session /\ where[Head(list[p])] = p
         /\ where' = [where EXCEPT ![Head(list[p])] = q]
  <1>1. Head(list[p]) = list[p][1] /\ 1 \in 1..Len(list[p])
    BY HeadIn DEF MoveHead
  <1>2. list' = Lists!Moved(list, p, 1, q)
    BY DEF MoveHead
  <1>3. QED
    BY <1>1, <1>2, MovedWhere

LEMMA SplicedWhere ==
  ASSUME IInv, NEW p \in Place, NEW q \in Place, p # q, Splice(p, q)
  PROVE  where' = [s \in Session |-> IF where[s] = p THEN q ELSE where[s]]
  <1>1. Lists!Placed(list) /\ list' = Lists!Spliced(list, p, q)
    BY DEF IInv, Splice
  <1>2. Where(list') = [s \in Session |-> IF Where(list)[s] = p THEN q ELSE Where(list)[s]]
    BY <1>1, WhereSpliced
  <1>3. QED
    BY <1>2 DEF where

\* The stage follows from the place.
LEMMA StageOf ==
  ASSUME IInv, CountInv, HeldInv, NEW s \in Session
  PROVE  /\ stage[s] \in {"free", "fresh", "accept", "opening", "connect", "running", "dead"}
         /\ stage[s] = StageAt(where[s], pc)
         /\ where[s] \in Place
  <1>1. where[s] \in Place /\ pc \in Phase
    BY Wheres DEF CountInv
  <1>2. stage[s] = StageAt(where[s], pc)
    BY DEF stage
  <1>3. /\ where[s] = "main" => pc \in {"accept", "connect"}
        /\ where[s] = "template" => pc \notin {"idle", "active", "packets", "take", "fail"}
    BY Occupied
  <1>4. QED
    BY <1>1, <1>2, <1>3 DEF StageAt, Place, Phase

\* A step that moves one session, described by its stages.
LEMMA MoveStage ==
  ASSUME IInv, NEW s \in Session, NEW q \in Place, where' = [where EXCEPT ![s] = q],
         NEW from, NEW to, StageAt(where[s], pc) = from, StageAt(q, pc') = to,
         \A r \in Session \ {s} : StageAt(where[r], pc') = StageAt(where[r], pc)
  PROVE  Becomes(s, from, to)
  <1>1. where \in [Session -> Place]
    BY Wheres
  <1>2. stage' = [r \in Session |-> StageAt(where'[r], pc')]
    BY DEF stage
  <1>3. \A r \in Session : stage'[r] = IF r = s THEN to ELSE stage[r]
    BY <1>1, <1>2 DEF stage
  <1>4. QED
    BY <1>2, <1>3 DEF Becomes, stage

\* A step of the main thread that moves whole lists or none.
LEMMA SameStage ==
  ASSUME \A r \in Session : StageAt(where'[r], pc') = StageAt(where[r], pc)
  PROVE  stage' = stage
  BY DEF stage

\* What each step of Update does to the stages.
LEMMA StageUpdate ==
  ASSUME IInv, CountInv, DataInv, HeldInv
  PROVE  /\ Connect => Becomes(Head(list["connectPool"]), "free", "opening")
         /\ RefuseAccepted => Becomes(Head(list["template"]), "fresh", "free")
         /\ AddAccepted => Becomes(Head(list["template"]), "fresh", "accept")
         /\ OnAccept => Becomes(Head(list["main"]), "accept", "running")
         /\ AddConnected => Becomes(Head(list["template"]), "opening", "connect")
         /\ OnConnect => Becomes(Head(list["main"]), "connect", "running")
         /\ RefuseConnected => Becomes(Head(list["template"]), "opening", "free")
         /\ OnConnectFail => Becomes(Head(list["fail"]), "opening", "free")
         /\ ScanSession /\ remove[Current] => Becomes(Current, "running", "dead")
         /\ ScanSession /\ ~remove[Current] => UNCHANGED stage
         /\ KickSession => Becomes(Head(list["template"]), "dead", "free")
         /\ \/ UpdateBegin \/ CheckSession \/ RecvPacket \/ RecvMalformed \/ RecvDone
            \/ TakeAccepted \/ JoinAccepted \/ TakeSuccess \/ JoinConnected \/ FailDone
            \/ ScanDone \/ OnDisconnect \/ UpdateEnd
            => UNCHANGED stage
  <1>1. /\ {"acceptPool", "connectPool", "active", "accepted", "success", "fail", "template",
            "connecting", "joining", "main"} \subseteq Place
        /\ \A s : PoolOf(s) \in {"acceptPool", "connectPool"}
    BY DEF Place, PoolOf
  <1>2. /\ \A s \in Session : where[s] = "main" => pc \in {"accept", "connect"} /\ s = Head(list["main"])
        /\ \A s \in Session : where[s] = "template" =>
             pc \notin {"idle", "active", "packets", "take", "fail"} /\ list["template"] # << >>
    <2>1. ASSUME NEW s \in Session, where[s] = "template" PROVE list["template"] # << >>
      <3>1. Len(list["template"]) # 0 /\ Len(list["template"]) \in Nat
        BY <2>1, <1>1, Wheres, Lengths
      <3>2. QED BY <1>1, <3>1, Lengths
    <2>2. QED BY <2>1, Occupied
  <1>3. ASSUME Connect PROVE Becomes(Head(list["connectPool"]), "free", "opening")
    <2>1. MoveHead("connectPool", "connecting") /\ UNCHANGED pc
      BY <1>3 DEF Connect, mainVars
    <2>2. QED BY <1>1, <2>1, HeadWhere, MoveStage DEF StageAt
  <1>4. ASSUME RefuseAccepted PROVE Becomes(Head(list["template"]), "fresh", "free")
    <2> DEFINE s == Head(list["template"])
    <2>1. MoveHead("template", PoolOf(s)) /\ pc = "accepted" /\ UNCHANGED pc
      BY <1>4 DEF RefuseAccepted, FreeSession, mainVars
    <2>2. QED BY <1>1, <2>1, HeadWhere, MoveStage DEF StageAt
  <1>5. ASSUME AddAccepted PROVE Becomes(Head(list["template"]), "fresh", "accept")
    <2>1. MoveHead("template", "main") /\ pc = "accepted" /\ pc' = "accept"
      BY <1>5 DEF AddAccepted, Goto
    <2>2. QED BY <1>1, <1>2, <2>1, HeadWhere, MoveStage DEF StageAt
  <1>6. ASSUME OnAccept PROVE Becomes(Head(list["main"]), "accept", "running")
    <2>1. MoveHead("main", "joining") /\ pc = "accept" /\ pc' = "accepted"
      BY <1>6 DEF OnAccept, Goto
    <2>2. QED BY <1>1, <1>2, <2>1, HeadWhere, MoveStage DEF StageAt
  <1>7. ASSUME AddConnected PROVE Becomes(Head(list["template"]), "opening", "connect")
    <2>1. MoveHead("template", "main") /\ pc = "success" /\ pc' = "connect"
      BY <1>7 DEF AddConnected, Goto
    <2>2. QED BY <1>1, <1>2, <2>1, HeadWhere, MoveStage DEF StageAt
  <1>8. ASSUME OnConnect PROVE Becomes(Head(list["main"]), "connect", "running")
    <2>1. MoveHead("main", "joining") /\ pc = "connect" /\ pc' = "success"
      BY <1>8 DEF OnConnect, Goto
    <2>2. QED BY <1>1, <1>2, <2>1, HeadWhere, MoveStage DEF StageAt
  <1>9. ASSUME RefuseConnected PROVE Becomes(Head(list["template"]), "opening", "free")
    <2> DEFINE s == Head(list["template"])
    <2>1. MoveHead("template", PoolOf(s)) /\ pc = "success" /\ UNCHANGED pc
      BY <1>9 DEF RefuseConnected, FailConnect, FreeSession, mainVars
    <2>2. QED BY <1>1, <2>1, HeadWhere, MoveStage DEF StageAt
  <1>10. ASSUME OnConnectFail PROVE Becomes(Head(list["fail"]), "opening", "free")
    <2> DEFINE s == Head(list["fail"])
    <2>1. MoveHead("fail", PoolOf(s)) /\ UNCHANGED pc
      BY <1>10 DEF OnConnectFail, FailConnect, FreeSession, mainVars
    <2>2. QED BY <1>1, <2>1, HeadWhere, MoveStage DEF StageAt
  <1>11. ASSUME ScanSession, remove[Current] PROVE Becomes(Current, "running", "dead")
    <2>1. /\ list' = Lists!Moved(list, "active", cur, "template") /\ cur \in 1..Len(list["active"])
          /\ pc = "scan" /\ UNCHANGED pc
      BY <1>1, <1>11, Lengths DEF ScanSession, IInv
    <2>2. /\ Current \in Session /\ where[Current] = "active"
          /\ where' = [where EXCEPT ![Current] = "template"]
      BY <1>1, <2>1, MovedWhere DEF Current
    <2>3. QED BY <1>1, <2>1, <2>2, MoveStage DEF StageAt
  <1>12. ASSUME ScanSession, ~remove[Current] PROVE UNCHANGED stage
    BY <1>12 DEF ScanSession, stage, where
  <1>13. ASSUME KickSession PROVE Becomes(Head(list["template"]), "dead", "free")
    <2> DEFINE s == Head(list["template"])
    <2>1. MoveHead("template", PoolOf(s)) /\ pc = "kick" /\ pc' = "kicked"
      BY <1>13 DEF KickSession, FreeSession, Goto
    <2>2. QED BY <1>1, <1>2, <2>1, HeadWhere, MoveStage DEF StageAt
  <1>14. ASSUME TakeAccepted \/ TakeSuccess PROVE UNCHANGED stage
    <2>1. \/ pc = "active" /\ pc' = "accepted" /\ Splice("accepted", "template")
          \/ pc = "take" /\ pc' = "success" /\ Splice("success", "template")
      BY <1>14 DEF TakeAccepted, TakeSuccess, Goto
    <2>2. PICK p \in {"accepted", "success"} :
            Splice(p, "template") /\ pc' = p /\ pc = IF p = "accepted" THEN "active" ELSE "take"
      BY <2>1
    <2>3. \A r \in Session : where'[r] = IF where[r] = p THEN "template" ELSE where[r]
      BY <1>1, <2>2, SplicedWhere
    <2>4. \A r \in Session : StageAt(where'[r], pc') = StageAt(where[r], pc)
      BY <1>2, <2>2, <2>3 DEF StageAt
    <2>5. QED BY <2>4, SameStage
  <1>15. ASSUME JoinAccepted \/ JoinConnected PROVE UNCHANGED stage
    <2>1. /\ Splice("joining", "active") /\ list["template"] = << >>
          /\ pc \in {"accepted", "success"} /\ pc' \in {"take", "fail"}
      BY <1>15 DEF JoinAccepted, JoinConnected, Goto
    <2>2. \A r \in Session : where'[r] = IF where[r] = "joining" THEN "active" ELSE where[r]
      BY <1>1, <2>1, SplicedWhere
    <2>3. \A r \in Session : StageAt(where'[r], pc') = StageAt(where[r], pc)
      BY <1>2, <2>1, <2>2 DEF StageAt
    <2>4. QED BY <2>3, SameStage
  <1>16. ASSUME UpdateBegin \/ CheckSession \/ RecvPacket \/ RecvMalformed \/ RecvDone
                \/ FailDone \/ ScanDone \/ OnDisconnect \/ UpdateEnd
         PROVE  UNCHANGED stage
    <2>1. UNCHANGED list
      BY <1>16 DEF UpdateBegin, CheckSession, RecvPacket, RecvMalformed, RecvDone, FailDone, ScanDone,
                   OnDisconnect, UpdateEnd
    <2>2. \/ pc \in {"idle", "active", "packets"} /\ pc' \in {"idle", "active", "packets"}
          \/ pc \in {"scan", "kick", "kicked"} /\ pc' \in {"scan", "kick", "kicked"}
          \/ pc = "fail" /\ pc' = "scan"
          \/ pc = "kick" /\ pc' = "idle" /\ list["template"] = << >>
      BY <1>16 DEF UpdateBegin, CheckSession, RecvPacket, RecvMalformed, RecvDone, FailDone, ScanDone,
                   OnDisconnect, UpdateEnd, NextSession, Goto, mainVars
    <2>3. where' = where
      BY <2>1 DEF where
    <2>4. \A r \in Session : StageAt(where'[r], pc') = StageAt(where[r], pc)
      BY <1>2, <2>2, <2>3 DEF StageAt
    <2>5. QED BY <2>4, SameStage
  <1>17. QED
    BY <1>3, <1>4, <1>5, <1>6, <1>7, <1>8, <1>9, <1>10, <1>11, <1>12, <1>13, <1>14, <1>15, <1>16

\* What the steps of the other threads do to the stages.
LEMMA StageThreads ==
  ASSUME IInv, CountInv, DataInv, HeldInv
  PROVE  /\ AcceptPush => Becomes(Head(list["acceptor"]), "free", "fresh")
         /\ \/ AcceptSocket \/ ConnectThread \/ EpollWait \/ EpollHandle \/ PreSend
            \/ \E t \in IoThread : IoTake(t) \/ IoStep(t)
            \/ Peer
            => UNCHANGED stage
  <1>1. {"acceptPool", "accepted", "success", "fail", "connecting", "acceptor", "connector"}
          \subseteq Place
    BY DEF Place
  <1>2. ASSUME AcceptPush PROVE Becomes(Head(list["acceptor"]), "free", "fresh")
    <2>1. MoveHead("acceptor", "accepted") /\ UNCHANGED pc
      BY <1>2 DEF AcceptPush, mainVars
    <2>2. QED BY <1>1, <2>1, HeadWhere, MoveStage DEF StageAt
  <1>3. ASSUME AcceptSocket \/ ConnectThread PROVE UNCHANGED stage
    <2>1. /\ UNCHANGED pc
          /\ \/ UNCHANGED list
             \/ MoveHead("acceptPool", "acceptor")
             \/ MoveHead("connecting", "connector")
             \/ MoveHead("connector", "success")
             \/ MoveHead("connector", "fail")
      BY <1>3 DEF AcceptSocket, ConnectThread, ConnectWait, ConnectTake, ConnectDone, ConnectDrained,
                  mainVars
    <2>2. \A r \in Session : StageAt(where'[r], pc) = StageAt(where[r], pc)
      <3>1. CASE UNCHANGED list
        BY <3>1 DEF where
      <3>2. ASSUME NEW p \in Place, NEW q \in Place, p # q, MoveHead(p, q), StageAt(p, pc) = StageAt(q, pc)
            PROVE  \A r \in Session : StageAt(where'[r], pc) = StageAt(where[r], pc)
        <4>1. \A r \in Session : where'[r] = IF r = Head(list[p]) THEN q ELSE where[r]
          BY <3>2, HeadWhere, Wheres
        <4>2. where[Head(list[p])] = p
          BY <3>2, HeadWhere
        <4>3. QED BY <3>2, <4>1, <4>2
      <3>3. /\ StageAt("acceptPool", pc) = StageAt("acceptor", pc)
            /\ StageAt("connecting", pc) = StageAt("connector", pc)
            /\ StageAt("connector", pc) = StageAt("success", pc)
            /\ StageAt("connector", pc) = StageAt("fail", pc)
        BY DEF StageAt
      <3>4. QED BY <1>1, <2>1, <3>1, <3>2, <3>3
    <2>3. QED BY <2>1, <2>2, SameStage
  <1>4. ASSUME EpollWait \/ EpollHandle \/ PreSend PROVE UNCHANGED stage
    BY <1>4 DEF EpollWait, EpollHandle, PreSend, mainVars, stage, where
  <1>5. ASSUME NEW t \in IoThread, IoTake(t) \/ IoStep(t) PROVE UNCHANGED stage
    BY <1>5 DEF IoTake, IoStep, RecvCheck, RecvCall, RecvStore, SendCheck, SendCall, mainVars,
                stage, where
  <1>6. ASSUME Peer PROVE UNCHANGED stage
    BY <1>6 DEF Peer, PeerSend, PeerLeave, PeerDrain, mainVars, stage, where
  <1>7. QED
    BY <1>2, <1>3, <1>4, <1>5, <1>6

-----------------------------------------------------------------------------
\* What a session is bound to, by its stage.
BoundByStage ==
  \A s \in Session :
    /\ stage[s] = "free" => sock[s] = 0 /\ obj[s] = 0
    /\ stage[s] \in {"fresh", "accept"} => sock[s] # 0 /\ obj[s] = 0 /\ life[sock[s]] = "none"
    /\ stage[s] \in {"opening", "connect"} =>
         sock[s] # 0 /\ obj[s] = sock[s] /\ life[sock[s]] = "opening"
    /\ stage[s] \in {"running", "dead"} =>
         sock[s] # 0 /\ obj[s] = sock[s] /\ life[sock[s]] = "open"

\* Session and object point at each other.
Linked == \A s \in Session, c \in Conn : obj[s] = c <=> objSess[c] = s

\* No two have the same socket, and a connection not yet made is nobody's.
Distinct ==
  /\ \A s, r \in Session : sock[s] = sock[r] /\ sock[s] # 0 => s = r
  /\ \A s \in Session : sock[s] <= made /\ (accSock # 0 => sock[s] # accSock)

Unused ==
  /\ accSock <= made /\ (accSock # 0 => life[accSock] = "none")
  /\ \A c \in Conn : c > made => life[c] = "none"

\* The object of a session just kicked hears OnDisconnect next, and nobody else
\* has its connection.
NetRight ==
  IF pc = "kicked"
  THEN net \in Conn /\ net <= made /\ life[net] = "open" /\ \A s \in Session : sock[s] # net
  ELSE net = 0

BoundInv == BoundByStage /\ Linked /\ Distinct /\ Unused /\ NetRight

boundVars == <<stage, sock, obj, objSess, life, made, accSock, net>>

LEMMA BoundAlone ==
  ASSUME BoundInv, UNCHANGED boundVars, (pc = "kicked") <=> (pc' = "kicked")
  PROVE  BoundInv'
  BY DEF BoundInv, BoundByStage, Linked, Distinct, Unused, NetRight, boundVars

LEMMA BoundUpdate ==
  ASSUME IInv, CountInv, DataInv, HeldInv, BoundInv, Connect \/ Update
  PROVE  BoundInv'
  <1>1. /\ Conn \subseteq Nat /\ Conn = 1..MaxConns /\ MaxConns \in Nat /\ 0 \notin Conn
        /\ made \in Nat /\ net \in Conn \cup {0} /\ accSock \in Conn \cup {0}
        /\ sock \in [Session -> Conn \cup {0}] /\ obj \in [Session -> Conn \cup {0}]
        /\ objSess \in [Conn -> Session \cup {NULL}] /\ DOMAIN life = Conn
        /\ NULL \notin Session
        /\ stage \in [Session -> {"free", "fresh", "accept", "opening", "connect", "running", "dead"}]
    <2>1. stage \in [Session -> {"free", "fresh", "accept", "opening", "connect", "running", "dead"}]
      BY StageOf DEF stage
    <2>2. QED BY <2>1, SyncAssumption DEF DataInv, Conn
  <1>2. BoundByStage /\ Linked /\ Distinct /\ Unused /\ NetRight
    BY DEF BoundInv
  <1>3. CASE Connect
    <2> DEFINE s == Head(list["connectPool"])
               c == made + 1
    <2>1. Becomes(s, "free", "opening") /\ c \in Conn
      BY <1>1, <1>3, StageUpdate DEF Connect
    <2>2. /\ made' = c /\ sock' = [sock EXCEPT ![s] = c] /\ obj' = [obj EXCEPT ![s] = c]
          /\ objSess' = [objSess EXCEPT ![c] = s] /\ life' = [life EXCEPT ![c] = "opening"]
          /\ UNCHANGED <<accSock, net, pc>> /\ pc = "idle"
      BY <1>3 DEF Connect, Bind, Told, At, mainVars
    <2>3. s \in Session /\ stage[s] = "free" /\ stage' = [stage EXCEPT ![s] = "opening"]
      BY <2>1 DEF Becomes
    <2> HIDE DEF s, c
    <2>4. c = made + 1
      BY DEF c
    <2>5. BoundByStage'
      BY <1>1, <1>2, <2>1, <2>2, <2>3, <2>4 DEF BoundByStage, Distinct
    <2>6. Linked'
      <3>1. \A r \in Session : obj[r] # c
        BY <1>1, <1>2, <2>4 DEF BoundByStage, Distinct
      <3>2. objSess[c] \notin Session
        BY <1>2, <2>1, <3>1 DEF Linked
      <3>3. obj[s] = 0
        BY <1>2, <2>3 DEF BoundByStage
      <3>4. QED BY <1>1, <1>2, <2>1, <2>2, <2>3, <3>1, <3>2, <3>3 DEF Linked
    <2>7. Distinct'
      BY <1>1, <1>2, <2>1, <2>2, <2>3, <2>4 DEF Distinct, Unused
    <2>8. Unused'
      BY <1>1, <1>2, <2>1, <2>2, <2>4 DEF Unused
    <2>10. NetRight'
      BY <1>2, <2>2 DEF NetRight
    <2>9. QED BY <2>5, <2>6, <2>7, <2>8, <2>10 DEF BoundInv
  <1>4. CASE UpdateBegin \/ CheckSession \/ RecvPacket \/ RecvMalformed \/ RecvDone
             \/ TakeAccepted \/ JoinAccepted \/ TakeSuccess \/ JoinConnected \/ FailDone
             \/ ScanDone \/ UpdateEnd
    <2>1. UNCHANGED stage
      BY <1>4, StageUpdate
    <2>2. UNCHANGED <<sock, obj, objSess, life, made, accSock, net>>
      BY <1>4 DEF UpdateBegin, CheckSession, RecvPacket, RecvMalformed, RecvDone, TakeAccepted,
                  JoinAccepted, TakeSuccess, JoinConnected, FailDone, ScanDone, UpdateEnd,
                  sessVars, objVars, mainVars, makeVars, peerVars
    <2>3. pc # "kicked" /\ pc' # "kicked"
      BY <1>4 DEF UpdateBegin, CheckSession, RecvPacket, RecvMalformed, RecvDone, TakeAccepted,
                  JoinAccepted, TakeSuccess, JoinConnected, FailDone, ScanDone, UpdateEnd,
                  NextSession, Goto, mainVars
    <2>4. QED BY <2>1, <2>2, <2>3, BoundAlone DEF boundVars
  <1>5. CASE RefuseAccepted
    <2> DEFINE s == Head(list["template"])
    <2>1. s \in Session /\ stage[s] = "fresh" /\ stage' = [stage EXCEPT ![s] = "free"]
      BY <1>5, StageUpdate DEF Becomes
    <2>2. /\ sock' = [sock EXCEPT ![s] = 0]
          /\ UNCHANGED <<obj, objSess, life, made, accSock, net, pc>>
      BY <1>5 DEF RefuseAccepted, FreeSession, CloseSocket, objVars, mainVars, threadVars,
                  makeVars, peerVars
    <2> HIDE DEF s
    <2>3. BoundByStage'
      BY <1>1, <1>2, <2>1, <2>2 DEF BoundByStage
    <2>4. Linked' /\ Unused'
      BY <1>2, <2>2 DEF Linked, Unused
    <2>5. Distinct'
      BY <1>1, <1>2, <2>1, <2>2 DEF Distinct
    <2>6. NetRight'
      BY <1>1, <1>2, <2>1, <2>2 DEF NetRight
    <2>7. QED BY <2>3, <2>4, <2>5, <2>6 DEF BoundInv
  <1>6. CASE RefuseConnected \/ OnConnectFail
    <2>1. PICK p \in {"template", "fail"} :
            /\ FailConnect(p)
            /\ Becomes(Head(list[p]), "opening", "free")
            /\ pc # "kicked"
      BY <1>6, StageUpdate DEF RefuseConnected, OnConnectFail
    <2> DEFINE s == Head(list[p])
    <2>2. s \in Session /\ stage[s] = "opening" /\ stage' = [stage EXCEPT ![s] = "free"]
      BY <2>1 DEF Becomes
    <2>3. /\ sock' = [sock EXCEPT ![s] = 0]
          /\ objSess' = [o \in Conn |-> IF o = obj[s] THEN NULL ELSE objSess[o]]
          /\ obj' = [obj EXCEPT ![s] = 0]
          /\ life' = [life EXCEPT ![obj[s]] = "failed"]
          /\ UNCHANGED <<made, accSock, net, pc>>
      BY <2>1 DEF FailConnect, FreeSession, CloseSocket, Unbind, Told, At, mainVars, threadVars,
                  makeVars, peerVars
    <2> HIDE DEF s
    <2>4. sock[s] \in Conn /\ obj[s] = sock[s] /\ sock[s] <= made /\ accSock # sock[s]
          /\ \A r \in Session \ {s} : sock[r] # sock[s]
      BY <1>1, <1>2, <2>2 DEF BoundByStage, Distinct
    <2>5. BoundByStage'
      BY <1>1, <1>2, <2>2, <2>3, <2>4 DEF BoundByStage
    <2>6. Linked'
      BY <1>1, <1>2, <2>2, <2>3 DEF Linked
    <2>7. Distinct'
      BY <1>1, <1>2, <2>2, <2>3 DEF Distinct
    <2>8. Unused' /\ NetRight'
      BY <1>1, <1>2, <2>1, <2>3, <2>4 DEF Unused, NetRight
    <2>9. QED BY <2>5, <2>6, <2>7, <2>8 DEF BoundInv
  <1>7. CASE AddAccepted \/ AddConnected \/ ScanSession
    <2>1. \/ UNCHANGED stage
          \/ \E s \in Session : stage[s] = "fresh" /\ stage' = [stage EXCEPT ![s] = "accept"]
          \/ \E s \in Session : stage[s] = "opening" /\ stage' = [stage EXCEPT ![s] = "connect"]
          \/ \E s \in Session : stage[s] = "running" /\ stage' = [stage EXCEPT ![s] = "dead"]
      BY <1>7, StageUpdate DEF Becomes
    <2>2. UNCHANGED <<sock, obj, objSess, life, made, accSock, net>>
      BY <1>7 DEF AddAccepted, AddConnected, ScanSession, sessVars, objVars, mainVars, makeVars,
                  peerVars
    <2>3. pc # "kicked" /\ pc' # "kicked"
      BY <1>7 DEF AddAccepted, AddConnected, ScanSession, Goto
    <2>4. BoundByStage'
      BY <1>1, <1>2, <2>1, <2>2 DEF BoundByStage
    <2>5. Linked' /\ Distinct' /\ Unused' /\ NetRight'
      BY <1>2, <2>2, <2>3 DEF Linked, Distinct, Unused, NetRight
    <2>6. QED BY <2>4, <2>5 DEF BoundInv
  <1>8. CASE OnAccept
    <2> DEFINE s == Head(list["main"])
    <2>1. s \in Session /\ stage[s] = "accept" /\ stage' = [stage EXCEPT ![s] = "running"]
      BY <1>8, StageUpdate DEF Becomes
    <2>2. /\ obj' = [obj EXCEPT ![s] = sock[s]] /\ objSess' = [objSess EXCEPT ![sock[s]] = s]
          /\ life' = [life EXCEPT ![sock[s]] = "open"]
          /\ UNCHANGED <<sock, made, accSock, net>>
      BY <1>8 DEF OnAccept, Bind, Told, At, makeVars, peerVars
    <2>3. pc # "kicked" /\ pc' # "kicked"
      BY <1>8 DEF OnAccept, Goto
    <2> HIDE DEF s
    <2>4. sock[s] \in Conn /\ obj[s] = 0 /\ sock[s] <= made /\ accSock # sock[s]
          /\ \A r \in Session \ {s} : sock[r] # sock[s]
      BY <1>1, <1>2, <2>1 DEF BoundByStage, Distinct
    <2>5. BoundByStage'
      BY <1>1, <1>2, <2>1, <2>2, <2>4 DEF BoundByStage
    <2>6. Linked'
      <3>1. \A r \in Session : obj[r] # sock[s]
        BY <1>1, <1>2, <2>4 DEF BoundByStage
      <3>2. objSess[sock[s]] \notin Session
        BY <1>2, <2>4, <3>1 DEF Linked
      <3>3. QED BY <1>1, <1>2, <2>1, <2>2, <2>4, <3>1, <3>2 DEF Linked
    <2>7. Distinct'
      BY <1>2, <2>2 DEF Distinct
    <2>8. Unused' /\ NetRight'
      BY <1>1, <1>2, <2>2, <2>3, <2>4 DEF Unused, NetRight
    <2>9. QED BY <2>5, <2>6, <2>7, <2>8 DEF BoundInv
  <1>9. CASE OnConnect
    <2> DEFINE s == Head(list["main"])
    <2>1. s \in Session /\ stage[s] = "connect" /\ stage' = [stage EXCEPT ![s] = "running"]
      BY <1>9, StageUpdate DEF Becomes
    <2>2. /\ life' = [life EXCEPT ![obj[s]] = "open"]
          /\ UNCHANGED <<sock, obj, objSess, made, accSock, net>>
      BY <1>9 DEF OnConnect, Told, At, makeVars, peerVars
    <2>3. pc # "kicked" /\ pc' # "kicked"
      BY <1>9 DEF OnConnect, Goto
    <2> HIDE DEF s
    <2>4. sock[s] \in Conn /\ obj[s] = sock[s] /\ sock[s] <= made /\ accSock # sock[s]
          /\ \A r \in Session \ {s} : sock[r] # sock[s]
      BY <1>1, <1>2, <2>1 DEF BoundByStage, Distinct
    <2>5. BoundByStage'
      BY <1>1, <1>2, <2>1, <2>2, <2>4 DEF BoundByStage
    <2>6. Linked' /\ Distinct'
      BY <1>2, <2>2 DEF Linked, Distinct
    <2>7. Unused' /\ NetRight'
      BY <1>1, <1>2, <2>2, <2>3, <2>4 DEF Unused, NetRight
    <2>8. QED BY <2>5, <2>6, <2>7 DEF BoundInv
  <1>10. CASE KickSession
    <2> DEFINE s == Head(list["template"])
    <2>1. s \in Session /\ stage[s] = "dead" /\ stage' = [stage EXCEPT ![s] = "free"]
      BY <1>10, StageUpdate DEF Becomes
    <2>2. /\ sock' = [sock EXCEPT ![s] = 0] /\ net' = obj[s]
          /\ objSess' = [o \in Conn |-> IF o = obj[s] THEN NULL ELSE objSess[o]]
          /\ obj' = [obj EXCEPT ![s] = 0]
          /\ pc = "kick" /\ pc' = "kicked"
          /\ UNCHANGED <<life, made, accSock>>
      BY <1>10 DEF KickSession, FreeSession, CloseSocket, Unbind, At, Goto, threadVars, makeVars,
                   peerVars
    <2> HIDE DEF s
    <2>3. sock[s] \in Conn /\ obj[s] = sock[s] /\ sock[s] <= made /\ life[sock[s]] = "open"
          /\ \A r \in Session \ {s} : sock[r] # sock[s]
      BY <1>1, <1>2, <2>1 DEF BoundByStage, Distinct
    <2>4. BoundByStage'
      BY <1>1, <1>2, <2>1, <2>2, <2>3 DEF BoundByStage
    <2>5. Linked'
      BY <1>1, <1>2, <2>1, <2>2 DEF Linked
    <2>6. Distinct'
      BY <1>1, <1>2, <2>1, <2>2 DEF Distinct
    <2>7. Unused' /\ NetRight'
      BY <1>1, <1>2, <2>1, <2>2, <2>3 DEF Unused, NetRight
    <2>8. QED BY <2>4, <2>5, <2>6, <2>7 DEF BoundInv
  <1>11. CASE OnDisconnect
    <2>1. UNCHANGED stage
      BY <1>11, StageUpdate
    <2>2. /\ life' = [life EXCEPT ![net] = "closed"] /\ net' = 0
          /\ pc = "kicked" /\ pc' = "kick"
          /\ UNCHANGED <<sock, obj, objSess, made, accSock>>
      BY <1>11 DEF OnDisconnect, Told, Goto, sessVars, makeVars, peerVars
    <2>3. net \in Conn /\ net <= made /\ life[net] = "open" /\ \A s \in Session : sock[s] # net
      BY <1>2, <2>2 DEF NetRight
    <2>4. BoundByStage'
      BY <1>1, <1>2, <2>1, <2>2, <2>3 DEF BoundByStage
    <2>5. Linked' /\ Distinct' /\ NetRight'
      BY <1>2, <2>2 DEF Linked, Distinct, NetRight
    <2>6. Unused'
      BY <1>1, <1>2, <2>2, <2>3 DEF Unused
    <2>7. QED BY <2>4, <2>5, <2>6 DEF BoundInv
  <1>12. QED
    BY <1>3, <1>4, <1>5, <1>6, <1>7, <1>8, <1>9, <1>10, <1>11 DEF Update

LEMMA BoundThreads ==
  ASSUME IInv, CountInv, DataInv, HeldInv, BoundInv,
         \/ AcceptSocket \/ AcceptPush \/ ConnectThread \/ EpollWait \/ EpollHandle \/ PreSend
         \/ \E t \in IoThread : IoTake(t) \/ IoStep(t)
         \/ Peer
  PROVE  BoundInv'
  <1>1. /\ Conn \subseteq Nat /\ Conn = 1..MaxConns /\ MaxConns \in Nat /\ 0 \notin Conn
        /\ made \in Nat /\ net \in Conn \cup {0} /\ accSock \in Conn \cup {0}
        /\ sock \in [Session -> Conn \cup {0}]
        /\ stage \in [Session -> {"free", "fresh", "accept", "opening", "connect", "running", "dead"}]
    <2>1. stage \in [Session -> {"free", "fresh", "accept", "opening", "connect", "running", "dead"}]
      BY StageOf DEF stage
    <2>2. QED BY <2>1, SyncAssumption DEF DataInv, Conn
  <1>2. BoundByStage /\ Linked /\ Distinct /\ Unused /\ NetRight
    BY DEF BoundInv
  <1>3. CASE AcceptSocket
    <2>1. UNCHANGED stage
      BY <1>3, StageThreads
    <2>2. /\ accSock = 0 /\ made' = made + 1 /\ accSock' \in {0, made + 1} /\ made + 1 \in Conn
          /\ UNCHANGED <<sock, obj, objSess, life, net, pc>>
      BY <1>1, <1>3 DEF AcceptSocket, sessVars, objVars, mainVars
    <2>3. BoundByStage' /\ Linked'
      BY <1>2, <2>1, <2>2 DEF BoundByStage, Linked
    <2>4. Distinct' /\ Unused'
      BY <1>1, <1>2, <2>2 DEF Distinct, Unused
    <2>5. NetRight'
      BY <1>1, <1>2, <2>2 DEF NetRight
    <2>6. QED BY <2>3, <2>4, <2>5 DEF BoundInv
  <1>4. CASE AcceptPush
    <2> DEFINE s == Head(list["acceptor"])
    <2>1. s \in Session /\ stage[s] = "free" /\ stage' = [stage EXCEPT ![s] = "fresh"]
      BY <1>4, StageThreads DEF Becomes
    <2>2. /\ accSock # 0 /\ sock' = [sock EXCEPT ![s] = accSock] /\ accSock' = 0
          /\ UNCHANGED <<obj, objSess, life, net, pc, made>>
      BY <1>4 DEF AcceptPush, At1, objVars, mainVars, peerVars
    <2> HIDE DEF s
    <2>3. BoundByStage'
      BY <1>1, <1>2, <2>1, <2>2 DEF BoundByStage, Unused
    <2>4. Linked' /\ Distinct' /\ Unused'
      BY <1>1, <1>2, <2>1, <2>2 DEF Linked, Distinct, Unused
    <2>5. NetRight'
      BY <1>1, <1>2, <2>1, <2>2 DEF NetRight, Unused
    <2>6. QED BY <2>3, <2>4, <2>5 DEF BoundInv
  <1>5. CASE \/ ConnectThread \/ EpollWait \/ EpollHandle \/ PreSend
             \/ \E t \in IoThread : IoTake(t) \/ IoStep(t)
             \/ Peer
    <2>1. UNCHANGED stage
      BY <1>5, StageThreads
    <2>2. UNCHANGED <<sock, obj, objSess, life, made, accSock, net, pc>>
      <3>1. CASE ConnectThread
        BY <3>1 DEF ConnectThread, ConnectWait, ConnectTake, ConnectDone, ConnectDrained,
                    sessVars, objVars, mainVars, makeVars, peerVars
      <3>2. CASE EpollWait \/ EpollHandle \/ PreSend
        BY <3>2 DEF EpollWait, EpollHandle, PreSend, sessVars, objVars, mainVars, makeVars, peerVars
      <3>3. CASE \E t \in IoThread : IoTake(t) \/ IoStep(t)
        BY <3>3 DEF IoTake, IoStep, RecvCheck, RecvCall, RecvStore, SendCheck, SendCall,
                    sessVars, objVars, mainVars, makeVars, peerVars
      <3>4. CASE Peer
        BY <3>4 DEF Peer, PeerSend, PeerLeave, PeerDrain, sessVars, objVars, mainVars, makeVars,
                    peerVars
      <3>5. QED BY <1>5, <3>1, <3>2, <3>3, <3>4
    <2>3. QED BY <2>1, <2>2, BoundAlone DEF boundVars
  <1>6. QED
    BY <1>3, <1>4, <1>5

LEMMA BoundHolds == Spec => []BoundInv
  <1>1. Init => BoundInv
    <2> SUFFICES ASSUME Init PROVE BoundInv
      OBVIOUS
    <2>1. IInv /\ pc = "idle"
      BY InitPlaced DEF Init, IInv
    <2>2. ASSUME NEW s \in Session PROVE stage[s] = "free"
      <3>1. /\ where[s] \in Place
            /\ \E i \in 1..Len(list[where[s]]) : list[where[s]][i] = s
        BY <2>1, Wheres
      <3>2. \A p \in Place \ {"acceptPool", "connectPool"} : list[p] = << >>
        BY DEF Init
      <3>3. where[s] \in {"acceptPool", "connectPool"}
        BY <3>1, <3>2
      <3>4. QED BY <3>3 DEF stage, StageAt
    <2>3. QED
      BY <2>1, <2>2, SyncAssumption
         DEF Init, BoundInv, BoundByStage, Linked, Distinct, Unused, NetRight, Conn
  <1>2. IInv /\ CountInv /\ DataInv /\ HeldInv /\ BoundInv /\ [Next]_vars => BoundInv'
    <2>1. ASSUME UNCHANGED vars, BoundInv PROVE BoundInv'
      BY <2>1, BoundAlone
         DEF vars, sessVars, objVars, mainVars, makeVars, peerVars, boundVars, stage, where
    <2>2. QED
      BY <2>1, BoundUpdate, BoundThreads DEF Next
  <1>3. QED
    BY <1>1, <1>2, IInvHolds, CountInvHolds, DataHolds, HeldHolds, PTL DEF Spec

-----------------------------------------------------------------------------
\* epoll knows the sockets of sessions in a known stage only, has events of
\* those sockets only, and what has been fetched or queued names sessions.
Registered ==
  \A c \in Conn : reg[c] # NULL =>
    reg[c] \in Session /\ sock[reg[c]] = c /\ stage[reg[c]] \in Known

EdgesRight ==
  /\ edge \subseteq Conn \X {"in", "out", "hup"} /\ \A e \in edge : reg[e[1]] # NULL
  /\ armed \subseteq Conn /\ \A c \in armed : reg[c] # NULL

EventRecord == [s : Session, flags : SUBSET {"in", "out", "hup", "mod"}]

EventsRight ==
  /\ fetched \subseteq EventRecord
  /\ ioq \in Seq(Session \X {"recv", "send"}) /\ Len(ioq) <= QueueSize

\* An io thread that is not idle works for a session; what it may have read is
\* left open here.
IoAt == {"idle", "took recv", "took send", "again", "recv", "stored", "stored, full", "send"}

IoNames ==
  /\ \E G : io \in [IoThread -> [at : IoAt, s : Session \cup {NULL}, got : G]]
  /\ \A t \in IoThread :
       /\ IF io[t].at = "idle" THEN io[t].s = NULL ELSE io[t].s \in Session
       /\ io[t].at \notin {"stored", "stored, full"} => io[t].got = << >>

PollInv == Registered /\ EdgesRight /\ EventsRight /\ IoNames

LEMMA PollAlone ==
  ASSUME PollInv, UNCHANGED <<stage, sock, fetched, reg, armed, edge, ioq, io>>
  PROVE  PollInv'
  BY DEF PollInv, Registered, EdgesRight, EventsRight, IoNames

\* An EXCEPT on the fields of an io thread's record is the whole record.
LEMMA RecordIs ==
  ASSUME NEW u, NEW v, NEW w, NEW r, r \in [at : {u}, s : {v}, got : {w}]
  PROVE  r = [at |-> u, s |-> v, got |-> w]
  OBVIOUS

LEMMA IoExcept ==
  ASSUME IoNames, NEW t \in IoThread, NEW x, NEW y
  PROVE  /\ [io EXCEPT ![t].at = x] = [io EXCEPT ![t] = [at |-> x, s |-> io[t].s, got |-> io[t].got]]
         /\ [io EXCEPT ![t].at = x, ![t].got = y]
              = [io EXCEPT ![t] = [at |-> x, s |-> io[t].s, got |-> y]]
         /\ [io[t] EXCEPT !.at = x, !.got = y] = [at |-> x, s |-> io[t].s, got |-> y]
  <1>1. PICK G : io \in [IoThread -> [at : IoAt, s : Session \cup {NULL}, got : G]]
    BY DEF IoNames
  <1> DEFINE v == io[t].s
             w == io[t].got
  <1>2. io[t] \in [at : IoAt, s : {v}, got : {w}]
    BY <1>1
  <1> HIDE DEF v, w
  <1>3. [io EXCEPT ![t].at = x] = [io EXCEPT ![t] = [at |-> x, s |-> v, got |-> w]]
    <2> DEFINE g == [io EXCEPT ![t].at = x]
    <2>1. g[t] \in [at : {x}, s : {v}, got : {w}]
      BY <1>1, <1>2
    <2>2. g = [i \in IoThread |-> g[i]] /\ \A i \in IoThread \ {t} : g[i] = io[i]
      BY <1>1
    <2> HIDE DEF g
    <2>3. g[t] = [at |-> x, s |-> v, got |-> w]
      BY <2>1, RecordIs
    <2>4. g = [io EXCEPT ![t] = [at |-> x, s |-> v, got |-> w]]
      BY <1>1, <2>2, <2>3
    <2>5. QED
      BY <2>4 DEF g
  <1> DEFINE r == [io[t] EXCEPT !.at = x, !.got = y]
  <1>4. r = [at |-> x, s |-> v, got |-> y]
    <2>1. r \in [at : {x}, s : {v}, got : {y}]
      BY <1>2
    <2> HIDE DEF r
    <2>2. QED
      BY <2>1, RecordIs
  <1>5. [io EXCEPT ![t].at = x, ![t].got = y] = [io EXCEPT ![t] = [at |-> x, s |-> v, got |-> y]]
    <2> DEFINE g == [io EXCEPT ![t].at = x, ![t].got = y]
    <2>1. g[t] = r
      BY <1>1
    <2>2. g = [i \in IoThread |-> g[i]] /\ \A i \in IoThread \ {t} : g[i] = io[i]
      BY <1>1
    <2> HIDE DEF g, r
    <2>3. g = [io EXCEPT ![t] = [at |-> x, s |-> v, got |-> y]]
      BY <1>1, <1>4, <2>1, <2>2
    <2>4. QED
      BY <2>3 DEF g
  <1>6. QED
    BY <1>3, <1>4, <1>5 DEF v, w

LEMMA TakenRecord ==
  ASSUME NEW s, NEW at
  PROVE  [Idle EXCEPT !.s = s, !.at = at] = [at |-> at, s |-> s, got |-> << >>]
  <1> DEFINE r == [Idle EXCEPT !.s = s, !.at = at]
  <1>1. r \in [at : {at}, s : {s}, got : {<< >>}]
    BY DEF Idle
  <1> HIDE DEF r
  <1>2. r = [at |-> at, s |-> s, got |-> << >>]
    BY <1>1, RecordIs
  <1>3. QED
    BY <1>2 DEF r

\* What an io thread's step does to its record.
LEMMA IoEffects ==
  ASSUME PollInv, NEW t \in IoThread
  PROVE  /\ IoTake(t) => \E s \in Session, at \in {"took recv", "took send"} :
                 ioq # << >> /\ s = Head(ioq)[1]
                 /\ io' = [io EXCEPT ![t] = [at |-> at, s |-> s, got |-> << >>]]
         /\ RecvCheck(t) => \/ io' = [io EXCEPT ![t] = [at |-> "recv", s |-> io[t].s, got |-> << >>]]
                            \/ io' = [io EXCEPT ![t] = [at |-> "idle", s |-> NULL, got |-> << >>]]
         /\ SendCheck(t) => \/ io' = [io EXCEPT ![t] = [at |-> "send", s |-> io[t].s, got |-> << >>]]
                            \/ io' = [io EXCEPT ![t] = [at |-> "idle", s |-> NULL, got |-> << >>]]
         /\ RecvCall(t) => \/ \E got : \E at \in {"stored", "stored, full"} :
                                io' = [io EXCEPT ![t] = [at |-> at, s |-> io[t].s, got |-> got]]
                           \/ io' = [io EXCEPT ![t] = [at |-> "idle", s |-> NULL, got |-> << >>]]
         /\ RecvStore(t) => \/ io' = [io EXCEPT ![t] = [at |-> "again", s |-> io[t].s, got |-> << >>]]
                            \/ io' = [io EXCEPT ![t] = [at |-> "idle", s |-> NULL, got |-> << >>]]
         /\ SendCall(t) => io' = [io EXCEPT ![t] = [at |-> "idle", s |-> NULL, got |-> << >>]]
  <1>1. /\ IoNames
        /\ io[t].at \notin {"stored", "stored, full"} => io[t].got = << >>
    BY DEF PollInv, IoNames
  <1>2. Idle = [at |-> "idle", s |-> NULL, got |-> << >>]
    BY DEF Idle
  <1>9. ASSUME IoTake(t)
        PROVE  \E s \in Session, at \in {"took recv", "took send"} :
                 ioq # << >> /\ s = Head(ioq)[1]
                 /\ io' = [io EXCEPT ![t] = [at |-> at, s |-> s, got |-> << >>]]
    <2>1. ioq # << >> /\ Head(ioq) \in Session \X {"recv", "send"}
      BY <1>9, HeadTailProperties DEF IoTake, PollInv, EventsRight
    <2> DEFINE s == Head(ioq)[1]
               at == IF Head(ioq)[2] = "send" THEN "took send" ELSE "took recv"
    <2>2. s \in Session /\ at \in {"took recv", "took send"}
      BY <2>1
    <2>3. io' = [io EXCEPT ![t] = [Idle EXCEPT !.s = s, !.at = at]]
      BY <1>9 DEF IoTake
    <2> HIDE DEF s, at
    <2>5. io' = [io EXCEPT ![t] = [at |-> at, s |-> s, got |-> << >>]]
      BY <2>3, TakenRecord
    <2>6. QED BY <2>1, <2>2, <2>5 DEF s
  <1>3. ASSUME RecvCheck(t)
        PROVE  \/ io' = [io EXCEPT ![t] = [at |-> "recv", s |-> io[t].s, got |-> << >>]]
               \/ io' = [io EXCEPT ![t] = [at |-> "idle", s |-> NULL, got |-> << >>]]
    <2>1. io[t].got = << >>
      BY <1>1, <1>3 DEF RecvCheck
    <2>2. io' = [io EXCEPT ![t].at = "recv"] \/ io' = [io EXCEPT ![t] = Idle]
      BY <1>3 DEF RecvCheck
    <2>3. QED BY <1>1, <1>2, <2>1, <2>2, IoExcept, ZenonT(60)
  <1>4. ASSUME SendCheck(t)
        PROVE  \/ io' = [io EXCEPT ![t] = [at |-> "send", s |-> io[t].s, got |-> << >>]]
               \/ io' = [io EXCEPT ![t] = [at |-> "idle", s |-> NULL, got |-> << >>]]
    <2>1. io[t].got = << >>
      BY <1>1, <1>4 DEF SendCheck
    <2>2. io' = [io EXCEPT ![t].at = "send"] \/ io' = [io EXCEPT ![t] = Idle]
      BY <1>4 DEF SendCheck
    <2>3. QED BY <1>1, <1>2, <2>1, <2>2, IoExcept, ZenonT(60)
  <1>5. ASSUME RecvCall(t)
        PROVE  \/ \E got : \E at \in {"stored", "stored, full"} :
                    io' = [io EXCEPT ![t] = [at |-> at, s |-> io[t].s, got |-> got]]
               \/ io' = [io EXCEPT ![t] = [at |-> "idle", s |-> NULL, got |-> << >>]]
    <2>1. ASSUME NEW c, NEW n, RecvSome(t, c, n)
          PROVE  \E got : \E at \in {"stored", "stored, full"} :
                    io' = [io EXCEPT ![t] = [at |-> at, s |-> io[t].s, got |-> got]]
      <3> DEFINE at == IF n = RecvSize - Len(recvBuf[io[t].s]) THEN "stored, full" ELSE "stored"
                 got == [i \in 1..n |-> <<c, read[c] + i>>]
      <3>1. io' = [io EXCEPT ![t].at = at, ![t].got = got] /\ at \in {"stored", "stored, full"}
        BY <2>1 DEF RecvSome
      <3> HIDE DEF at, got
      <3>2. io' = [io EXCEPT ![t] = [at |-> at, s |-> io[t].s, got |-> got]]
        BY <1>1, <3>1, IoExcept
      <3>3. QED BY <3>1, <3>2
    <2>2. (\E c, n : RecvSome(t, c, n)) \/ io' = [io EXCEPT ![t] = Idle]
      BY <1>5 DEF RecvCall
    <2>3. QED BY <1>2, <2>1, <2>2
  <1>6. ASSUME RecvStore(t)
        PROVE  \/ io' = [io EXCEPT ![t] = [at |-> "again", s |-> io[t].s, got |-> << >>]]
               \/ io' = [io EXCEPT ![t] = [at |-> "idle", s |-> NULL, got |-> << >>]]
    <2>1. \/ io' = [io EXCEPT ![t] = Idle]
          \/ io' = [io EXCEPT ![t] = [io[t] EXCEPT !.at = "again", !.got = << >>]]
      BY <1>6 DEF RecvStore
    <2>2. QED BY <1>1, <1>2, <2>1, IoExcept, ZenonT(60)
  <1>7. ASSUME SendCall(t)
        PROVE  io' = [io EXCEPT ![t] = [at |-> "idle", s |-> NULL, got |-> << >>]]
    BY <1>7 DEF SendCall, Idle
  <1>8. QED
    BY <1>9, <1>3, <1>4, <1>5, <1>6, <1>7

\* The names stay right.
LEMMA IoNamesStep ==
  ASSUME PollInv, NEW t \in IoThread, IoTake(t) \/ IoStep(t)
  PROVE  IoNames'
  <1>1. IoNames
    BY DEF PollInv
  <1>2. IoTake(t) \/ io[t].s \in Session
    <2>1. IoStep(t) => io[t].at # "idle"
      BY DEF IoStep, RecvCheck, RecvCall, RecvStore, SendCheck, SendCall
    <2>2. QED BY <1>1, <2>1 DEF IoNames
  <1>3. \E got : \E at \in IoAt, s \in Session \cup {NULL} :
          /\ io' = [io EXCEPT ![t] = [at |-> at, s |-> s, got |-> got]]
          /\ IF at = "idle" THEN s = NULL ELSE s \in Session
          /\ at \notin {"stored", "stored, full"} => got = << >>
    <2>1. CASE IoTake(t)
      BY <2>1, IoEffects DEF IoAt
    <2>2. CASE ~IoTake(t) /\ IoStep(t)
      BY <1>2, <2>2, IoEffects, ZenonT(60) DEF IoAt, IoStep
    <2>3. QED BY <2>1, <2>2
  <1>a. PICK got : \E at \in IoAt, s \in Session \cup {NULL} :
          /\ io' = [io EXCEPT ![t] = [at |-> at, s |-> s, got |-> got]]
          /\ IF at = "idle" THEN s = NULL ELSE s \in Session
          /\ at \notin {"stored", "stored, full"} => got = << >>
    BY <1>3
  <1>4. PICK at \in IoAt, s \in Session \cup {NULL} :
          /\ io' = [io EXCEPT ![t] = [at |-> at, s |-> s, got |-> got]]
          /\ IF at = "idle" THEN s = NULL ELSE s \in Session
          /\ at \notin {"stored", "stored, full"} => got = << >>
    BY <1>a
  <1>5. PICK G : io \in [IoThread -> [at : IoAt, s : Session \cup {NULL}, got : G]]
    BY <1>1 DEF IoNames
  <1>6. io' \in [IoThread -> [at : IoAt, s : Session \cup {NULL}, got : G \cup {got}]]
    BY <1>4, <1>5
  <1>7. \A u \in IoThread : io'[u] = IF u = t THEN [at |-> at, s |-> s, got |-> got] ELSE io[u]
    BY <1>4, <1>5
  <1>8. ASSUME NEW u \in IoThread
        PROVE  /\ IF io'[u].at = "idle" THEN io'[u].s = NULL ELSE io'[u].s \in Session
               /\ io'[u].at \notin {"stored", "stored, full"} => io'[u].got = << >>
    BY <1>1, <1>4, <1>7 DEF IoNames
  <1>9. QED
    BY <1>6, <1>8 DEF IoNames

\* What holds of a socket is about that socket.
LEMMA HoldsOf ==
  ASSUME NEW c \in Conn
  PROVE  Holds(c) \subseteq Conn \X {"in", "out", "hup"} /\ \A e \in Holds(c) : e[1] = c
  BY DEF Holds

\* Queueing an event keeps the queue within its capacity.
LEMMA Queued ==
  ASSUME ioq \in Seq(Session \X {"recv", "send"}), Len(ioq) <= QueueSize,
         NEW s \in Session, NEW kind \in {"recv", "send"}, AddIoEvent(s, kind)
  PROVE  /\ ioq' \in Seq(Session \X {"recv", "send"}) /\ Len(ioq') <= QueueSize
         /\ ioq' = ioq \/ ioq' = Append(ioq, <<s, kind>>)
  <1>1. QueueSize \in Nat /\ Len(ioq) \in Nat
    BY SyncAssumption, LenProperties
  <1>2. Append(ioq, <<s, kind>>) \in Seq(Session \X {"recv", "send"})
        /\ Len(Append(ioq, <<s, kind>>)) = Len(ioq) + 1
    BY AppendProperties
  <1>3. QED
    BY <1>1, <1>2 DEF AddIoEvent

\* A session that is freed is unregistered.
LEMMA PollFree ==
  ASSUME DataInv, PollInv, NEW s \in Session, CloseSocket(s), UNCHANGED <<fetched, ioq, io>>,
         \A r \in Session \ {s} : stage'[r] = stage[r]
  PROVE  PollInv'
  <1>1. /\ sock' = [sock EXCEPT ![s] = 0]
        /\ reg' = [c \in Conn |-> IF c = sock[s] THEN NULL ELSE reg[c]]
        /\ edge' = {e \in edge : e[1] # sock[s]}
        /\ armed' = armed \ {sock[s]}
    BY DEF CloseSocket
  <1>2. Registered /\ EdgesRight /\ EventsRight /\ IoNames
    BY DEF PollInv
  <1>3. sock \in [Session -> Conn \cup {0}] /\ 0 \notin Conn
    BY DEF DataInv, Conn
  <1>4. Registered'
    BY <1>1, <1>2, <1>3 DEF Registered
  <1>5. EdgesRight'
    BY <1>1, <1>2 DEF EdgesRight
  <1>6. EventsRight' /\ IoNames'
    BY <1>2 DEF EventsRight, IoNames
  <1>7. QED
    BY <1>4, <1>5, <1>6 DEF PollInv

LEMMA PollUpdate ==
  ASSUME IInv, CountInv, DataInv, HeldInv, BoundInv, PollInv, Connect \/ Update
  PROVE  PollInv'
  <1>1. /\ sock \in [Session -> Conn \cup {0}] /\ 0 \notin Conn /\ NULL \notin Session
        /\ reg \in [Conn -> Session \cup {NULL}] /\ stage = [s \in Session |-> stage[s]]
    BY SyncAssumption DEF DataInv, Conn, stage
  <1>2. Registered /\ EdgesRight /\ EventsRight /\ IoNames
    BY DEF PollInv
  <1>3. CASE Connect
    <2> DEFINE s == Head(list["connectPool"])
    <2>1. s \in Session /\ stage[s] = "free" /\ stage' = [stage EXCEPT ![s] = "opening"]
      BY <1>3, StageUpdate DEF Becomes
    <2>2. sock' = [sock EXCEPT ![s] = made + 1] /\ UNCHANGED <<fetched, reg, armed, edge, ioq, io>>
      BY <1>3 DEF Connect, At, ioVars, pollVars
    <2> HIDE DEF s
    <2>3. Registered'
      BY <1>1, <1>2, <2>1, <2>2 DEF Registered, Known
    <2>4. EdgesRight' /\ EventsRight' /\ IoNames'
      BY <1>2, <2>2 DEF EdgesRight, EventsRight, IoNames
    <2>5. QED BY <2>3, <2>4 DEF PollInv
  <1>4. CASE \/ UpdateBegin \/ CheckSession \/ RecvPacket \/ RecvMalformed \/ RecvDone
             \/ TakeAccepted \/ JoinAccepted \/ TakeSuccess \/ JoinConnected \/ FailDone
             \/ ScanDone \/ OnDisconnect \/ UpdateEnd
    <2>1. UNCHANGED stage
      BY <1>4, StageUpdate
    <2>2. UNCHANGED <<sock, fetched, reg, armed, edge, ioq, io>>
      BY <1>4 DEF UpdateBegin, CheckSession, RecvPacket, RecvMalformed, RecvDone, TakeAccepted,
                  JoinAccepted, TakeSuccess, JoinConnected, FailDone, ScanDone, OnDisconnect,
                  UpdateEnd, sessVars, pollVars, ioVars
    <2>3. QED BY <2>1, <2>2, PollAlone
  <1>5. CASE RefuseAccepted \/ RefuseConnected \/ OnConnectFail \/ KickSession
    <2>1. PICK p \in {"template", "fail"} :
            /\ FreeSession(p)
            /\ \E from \in {"fresh", "opening", "dead"} : Becomes(Head(list[p]), from, "free")
      BY <1>5, StageUpdate DEF RefuseAccepted, RefuseConnected, OnConnectFail, KickSession, FailConnect
    <2>2. UNCHANGED <<fetched, ioq, io>>
      BY <1>5 DEF RefuseAccepted, RefuseConnected, OnConnectFail, KickSession, FailConnect,
                  threadVars, ioVars
    <2>3. Head(list[p]) \in Session /\ CloseSocket(Head(list[p]))
          /\ \A r \in Session \ {Head(list[p])} : stage'[r] = stage[r]
      BY <2>1, <1>1 DEF Becomes, FreeSession
    <2>4. QED BY <2>2, <2>3, PollFree
  <1>6. CASE AddAccepted \/ AddConnected
    <2> DEFINE s == Head(list["template"])
    <2>1. /\ s \in Session /\ stage[s] \in {"fresh", "opening"}
          /\ \E to \in Known : stage' = [stage EXCEPT ![s] = to]
      BY <1>6, StageUpdate DEF Becomes, Known
    <2>2. /\ reg' = [reg EXCEPT ![sock[s]] = s] /\ edge' = edge \cup Holds(sock[s])
          /\ UNCHANGED <<sock, armed, fetched, ioq, io>>
      BY <1>6 DEF AddAccepted, AddConnected, AddEpollEvent, At, sessVars, ioVars
    <2> HIDE DEF s
    <2>3. sock[s] \in Conn /\ \A r \in Session \ {s} : sock[r] # sock[s]
      BY <1>1, <2>1 DEF BoundInv, BoundByStage, Distinct
    <2>4. Registered'
      BY <1>1, <1>2, <2>1, <2>2, <2>3 DEF Registered
    <2>5. EdgesRight'
      BY <1>1, <1>2, <2>1, <2>2, <2>3, HoldsOf DEF EdgesRight
    <2>6. EventsRight' /\ IoNames'
      BY <1>2, <2>2 DEF EventsRight, IoNames
    <2>7. QED BY <2>4, <2>5, <2>6 DEF PollInv
  <1>7. CASE OnAccept \/ OnConnect \/ ScanSession
    <2>1. \/ UNCHANGED stage
          \/ \E s \in Session, to \in Known : stage' = [stage EXCEPT ![s] = to]
      BY <1>7, StageUpdate DEF Becomes, Known
    <2>2. UNCHANGED <<sock, fetched, reg, armed, edge, ioq, io>>
      BY <1>7 DEF OnAccept, OnConnect, ScanSession, sessVars, pollVars, ioVars
    <2>3. Registered'
      BY <1>1, <1>2, <2>1, <2>2 DEF Registered
    <2>4. EdgesRight' /\ EventsRight' /\ IoNames'
      BY <1>2, <2>2 DEF EdgesRight, EventsRight, IoNames
    <2>5. QED BY <2>3, <2>4 DEF PollInv
  <1>8. QED
    BY <1>3, <1>4, <1>5, <1>6, <1>7 DEF Update

LEMMA PollThreads ==
  ASSUME IInv, CountInv, DataInv, HeldInv, BoundInv, PollInv,
         \/ AcceptSocket \/ AcceptPush \/ ConnectThread \/ EpollWait \/ EpollHandle \/ PreSend
         \/ \E t \in IoThread : IoTake(t) \/ IoStep(t)
         \/ Peer
  PROVE  PollInv'
  <1>1. /\ sock \in [Session -> Conn \cup {0}] /\ 0 \notin Conn /\ NULL \notin Session
        /\ reg \in [Conn -> Session \cup {NULL}] /\ stage = [s \in Session |-> stage[s]]
    BY SyncAssumption DEF DataInv, Conn, stage
  <1>2. Registered /\ EdgesRight /\ EventsRight /\ IoNames
    BY DEF PollInv
  <1>3. CASE AcceptPush
    <2> DEFINE s == Head(list["acceptor"])
    <2>1. s \in Session /\ stage[s] = "free" /\ stage' = [stage EXCEPT ![s] = "fresh"]
      BY <1>3, StageThreads DEF Becomes
    <2>2. sock' = [sock EXCEPT ![s] = accSock] /\ UNCHANGED <<fetched, reg, armed, edge, ioq, io>>
      BY <1>3 DEF AcceptPush, At1, ioVars, pollVars
    <2> HIDE DEF s
    <2>3. Registered'
      BY <1>1, <1>2, <2>1, <2>2 DEF Registered, Known
    <2>4. EdgesRight' /\ EventsRight' /\ IoNames'
      BY <1>2, <2>2 DEF EdgesRight, EventsRight, IoNames
    <2>5. QED BY <2>3, <2>4 DEF PollInv
  <1>4. CASE AcceptSocket \/ ConnectThread
    <2>1. UNCHANGED stage
      BY <1>4, StageThreads
    <2>2. UNCHANGED <<sock, fetched, reg, armed, edge, ioq, io>>
      BY <1>4 DEF AcceptSocket, ConnectThread, ConnectWait, ConnectTake, ConnectDone, ConnectDrained,
                  sessVars, ioVars, pollVars
    <2>3. QED BY <2>1, <2>2, PollAlone
  <1>5. CASE EpollWait
    <2>1. UNCHANGED stage
      BY <1>5, StageThreads
    <2>2. /\ fetched' = {[s |-> reg[c], flags |-> Flags(c)] : c \in {e[1] : e \in edge}}
          /\ edge' = {} /\ UNCHANGED <<sock, reg, armed, ioq, io>>
      BY <1>5 DEF EpollWait, sessVars, ioVars
    <2>3. ASSUME NEW c \in {e[1] : e \in edge}
          PROVE  [s |-> reg[c], flags |-> Flags(c)] \in EventRecord
      <3>1. c \in Conn /\ reg[c] # NULL
        BY <1>2, <2>3 DEF EdgesRight
      <3>2. Flags(c) \subseteq {"in", "out", "hup", "mod"}
        BY <1>2 DEF EdgesRight, Flags
      <3>3. QED BY <1>1, <3>1, <3>2 DEF EventRecord
    <2>4. EventsRight'
      BY <1>2, <2>2, <2>3 DEF EventsRight
    <2>5. Registered' /\ EdgesRight' /\ IoNames'
      BY <1>2, <2>1, <2>2 DEF Registered, EdgesRight, IoNames
    <2>6. QED BY <2>4, <2>5 DEF PollInv
  <1>6. CASE EpollHandle
    <2>1. UNCHANGED stage
      BY <1>6, StageThreads
    <2>2. UNCHANGED <<sock, reg, io>>
      BY <1>6 DEF EpollHandle
    <2>3. PICK ev \in fetched : EpollHup(ev) \/ EpollOnSend(ev) \/ EpollMod(ev) \/ EpollIn(ev)
      BY <1>6 DEF EpollHandle
    <2>4. ev \in EventRecord /\ ev.s \in Session /\ ev.flags \subseteq {"in", "out", "hup", "mod"}
      BY <1>2, <2>3 DEF EventsRight, EventRecord
    <2>5. ASSUME NEW f \in SUBSET {"in", "out", "hup", "mod"}, Rest(ev, f)
          PROVE  fetched' \subseteq EventRecord
      <3>1. [ev EXCEPT !.flags = f] \in EventRecord
        BY <2>4 DEF EventRecord
      <3>2. QED BY <1>2, <2>5, <3>1 DEF Rest, EventsRight
    <2>6. fetched' \subseteq EventRecord
      <3>1. \E f \in SUBSET {"in", "out", "hup", "mod"} : Rest(ev, f)
        <4>1. {} \in SUBSET {"in", "out", "hup", "mod"}
              /\ (ev.flags \ {"out"}) \cup {"mod"} \in SUBSET {"in", "out", "hup", "mod"}
              /\ ev.flags \ {"mod"} \in SUBSET {"in", "out", "hup", "mod"}
          BY <2>4
        <4>2. QED BY <2>3, <4>1 DEF EpollHup, EpollOnSend, EpollMod, EpollIn
      <3>2. QED BY <3>1, <2>5
    <2>7. ioq' \in Seq(Session \X {"recv", "send"}) /\ Len(ioq') <= QueueSize
      <3>1. UNCHANGED ioq \/ AddIoEvent(ev.s, "recv")
        BY <2>3 DEF EpollHup, EpollOnSend, EpollMod, EpollIn
      <3>2. QED BY <1>2, <2>4, <3>1, Queued DEF EventsRight
    <2>8. EdgesRight'
      <3>1. UNCHANGED <<edge, armed>> \/ ModEpollEvent(ev.s, FALSE)
        BY <2>3 DEF EpollHup, EpollOnSend, EpollMod, EpollIn
      <3>2. CASE UNCHANGED <<edge, armed>>
        BY <1>2, <2>2, <3>2 DEF EdgesRight
      <3>3. CASE ~UNCHANGED <<edge, armed>> /\ ModEpollEvent(ev.s, FALSE)
        <4> DEFINE c == sock[ev.s]
        <4>1. /\ c # 0 /\ reg[c] # NULL /\ armed' = armed \ {c}
              /\ edge' = (edge \ {<<c, "out">>}) \cup Holds(c)
          BY <3>3 DEF ModEpollEvent
        <4>2. c \in Conn
          BY <1>1, <2>4, <4>1
        <4> HIDE DEF c
        <4>3. QED BY <1>2, <2>2, <4>1, <4>2, HoldsOf DEF EdgesRight
      <3>4. QED BY <3>1, <3>2, <3>3
    <2>9. Registered' /\ IoNames'
      BY <1>2, <2>1, <2>2 DEF Registered, IoNames
    <2>10. QED BY <2>6, <2>7, <2>8, <2>9 DEF PollInv, EventsRight
  <1>7. CASE PreSend
    <2>1. UNCHANGED stage
      BY <1>7, StageThreads
    <2>2. PICK i \in 1..Len(list["active"]) : AddIoEvent(list["active"][i], "send")
      BY <1>7 DEF PreSend
    <2>3. list["active"][i] \in Session
      BY Wheres DEF Place
    <2>4. UNCHANGED <<sock, fetched, reg, armed, edge, io>>
      BY <1>7 DEF PreSend, sessVars, pollVars
    <2>5. EventsRight'
      BY <1>2, <2>2, <2>3, <2>4, Queued DEF EventsRight
    <2>6. Registered' /\ EdgesRight' /\ IoNames'
      BY <1>2, <2>1, <2>4 DEF Registered, EdgesRight, IoNames
    <2>7. QED BY <2>5, <2>6 DEF PollInv
  <1>8. ASSUME NEW t \in IoThread, IoTake(t)
        PROVE  PollInv'
    <2>1. UNCHANGED stage
      BY <1>8, StageThreads
    <2>2. ioq # << >> /\ ioq' = Tail(ioq) /\ UNCHANGED <<sock, fetched, reg, armed, edge>>
      BY <1>8 DEF IoTake, sessVars, pollVars
    <2>3. ioq' \in Seq(Session \X {"recv", "send"}) /\ Len(ioq') <= QueueSize
      <3>1. Tail(ioq) \in Seq(Session \X {"recv", "send"}) /\ Len(Tail(ioq)) = Len(ioq) - 1
        BY <1>2, <2>2, HeadTailProperties DEF EventsRight
      <3>2. Len(ioq) \in Nat /\ Len(ioq) <= QueueSize /\ QueueSize \in Nat
        BY <1>2, SyncAssumption, LenProperties DEF EventsRight
      <3>3. QED BY <2>2, <3>1, <3>2
    <2>4. EventsRight' /\ Registered' /\ EdgesRight'
      BY <1>2, <2>1, <2>2, <2>3 DEF EventsRight, Registered, EdgesRight
    <2>5. QED BY <1>8, <2>4, IoNamesStep DEF PollInv
  <1>9. ASSUME NEW t \in IoThread, RecvCheck(t) \/ RecvCall(t) \/ RecvStore(t) \/ SendCheck(t)
        PROVE  PollInv'
    <2>1. UNCHANGED stage
      BY <1>9, StageThreads DEF IoStep
    <2>2. UNCHANGED <<sock, fetched, reg, armed, edge, ioq>>
      BY <1>9 DEF RecvCheck, RecvCall, RecvStore, SendCheck, sessVars, pollVars
    <2>3. Registered' /\ EdgesRight' /\ EventsRight'
      BY <1>2, <2>1, <2>2 DEF Registered, EdgesRight, EventsRight
    <2>4. QED BY <1>9, <2>3, IoNamesStep DEF PollInv, IoStep
  <1>10. ASSUME NEW t \in IoThread, SendCall(t)
         PROVE  PollInv'
    <2>1. UNCHANGED stage
      BY <1>10, StageThreads DEF IoStep
    <2>2. UNCHANGED <<sock, fetched, reg, ioq>>
      BY <1>10 DEF SendCall
    <2>3. EdgesRight'
      <3>1. UNCHANGED <<edge, armed>> \/ (Writable(sock[io[t].s]) /\ ModEpollEvent(io[t].s, TRUE))
        BY <1>10 DEF SendCall, SendSome, SendBlocks, SendFails
      <3>2. CASE UNCHANGED <<edge, armed>>
        BY <1>2, <2>2, <3>2 DEF EdgesRight
      <3>3. CASE ~UNCHANGED <<edge, armed>> /\ ModEpollEvent(io[t].s, TRUE)
        <4> DEFINE c == sock[io[t].s]
        <4>1. /\ c # 0 /\ reg[c] # NULL /\ armed' = armed \cup {c}
              /\ edge' = edge \cup Holds(c)
          BY <3>3 DEF ModEpollEvent
        <4>2. c \in Conn
          <5>1. io[t].s \in Session
            BY <1>2, <1>10 DEF IoNames, SendCall
          <5>2. QED BY <1>1, <4>1, <5>1
        <4> HIDE DEF c
        <4>3. QED BY <1>2, <2>2, <4>1, <4>2, HoldsOf DEF EdgesRight
      <3>4. QED BY <3>1, <3>2, <3>3
    <2>4. EventsRight' /\ Registered'
      BY <1>2, <2>1, <2>2 DEF EventsRight, Registered
    <2>5. QED BY <1>10, <2>3, <2>4, IoNamesStep DEF PollInv, IoStep
  <1>11. CASE Peer
    <2>1. UNCHANGED stage
      BY <1>11, StageThreads
    <2>2. UNCHANGED <<sock, fetched, reg, armed, ioq, io>>
      BY <1>11 DEF Peer, PeerSend, PeerLeave, PeerDrain, sessVars, ioVars
    <2>3. PICK c \in Conn :
            \/ UNCHANGED edge
            \/ reg[c] # NULL /\ \E new \in SUBSET ({c} \X {"in", "out", "hup"}) : edge' = edge \cup new
      <3>1. PICK c \in Conn : PeerSend(c) \/ PeerLeave(c, "fin") \/ PeerLeave(c, "rst") \/ PeerDrain(c)
        BY <1>11 DEF Peer
      <3>2. CASE PeerSend(c)
        <4>1. {<<c, "in">>} \in SUBSET ({c} \X {"in", "out", "hup"})
          OBVIOUS
        <4>2. QED BY <3>2, <4>1 DEF PeerSend
      <3>3. ASSUME NEW how, PeerLeave(c, how)
            PROVE  \/ UNCHANGED edge
                   \/ reg[c] # NULL
                      /\ \E new \in SUBSET ({c} \X {"in", "out", "hup"}) : edge' = edge \cup new
        <4> DEFINE new == {<<c, "in">>} \cup (IF how = "rst" THEN {<<c, "hup">>} ELSE {})
        <4>1. new \in SUBSET ({c} \X {"in", "out", "hup"})
          OBVIOUS
        <4>2. UNCHANGED edge \/ (reg[c] # NULL /\ edge' = edge \cup new)
          BY <3>3 DEF PeerLeave
        <4>3. QED BY <4>1, <4>2
      <3>4. CASE PeerDrain(c)
        <4>1. {<<c, "out">>} \in SUBSET ({c} \X {"in", "out", "hup"}) /\ reg[c] # NULL
          BY <1>2, <3>4 DEF PeerDrain, EdgesRight
        <4>2. QED BY <3>4, <4>1 DEF PeerDrain
      <3>5. QED BY <3>1, <3>2, <3>3, <3>4
    <2>4. EdgesRight'
      BY <1>2, <2>2, <2>3 DEF EdgesRight
    <2>5. Registered' /\ EventsRight' /\ IoNames'
      BY <1>2, <2>1, <2>2 DEF Registered, EventsRight, IoNames
    <2>6. QED BY <2>4, <2>5 DEF PollInv
  <1>12. QED
    BY <1>3, <1>4, <1>5, <1>6, <1>7, <1>8, <1>9, <1>10, <1>11 DEF IoStep

LEMMA PollHolds == Spec => []PollInv
  <1>1. Init => PollInv
    <2> SUFFICES ASSUME Init PROVE PollInv
      OBVIOUS
    <2>1. Registered /\ EdgesRight
      BY DEF Init, Registered, EdgesRight
    <2>2. EventsRight
      BY SyncAssumption, EmptySeq DEF Init, EventsRight
    <2>3. IoNames
      <3>1. Idle \in [at : IoAt, s : Session \cup {NULL}, got : {<< >>}]
            /\ Idle.at = "idle" /\ Idle.s = NULL /\ Idle.got = << >>
        BY DEF Idle, IoAt
      <3>2. io = [t \in IoThread |-> Idle]
        BY DEF Init
      <3>3. io \in [IoThread -> [at : IoAt, s : Session \cup {NULL}, got : {<< >>}]]
        BY <3>1, <3>2
      <3>4. QED
        BY <3>1, <3>2, <3>3 DEF IoNames
    <2>4. QED
      BY <2>1, <2>2, <2>3 DEF PollInv
  <1>2. IInv /\ CountInv /\ DataInv /\ HeldInv /\ BoundInv /\ PollInv /\ [Next]_vars => PollInv'
    <2>1. ASSUME UNCHANGED vars, PollInv PROVE PollInv'
      BY <2>1, PollAlone DEF vars, sessVars, mainVars, pollVars, ioVars, stage, where
    <2>2. QED
      BY <2>1, PollUpdate, PollThreads DEF Next
  <1>3. QED
    BY <1>1, <1>2, IInvHolds, CountInvHolds, DataHolds, HeldHolds, BoundHolds, PTL DEF Spec

-----------------------------------------------------------------------------
\* What the main thread never touches, and what only the main thread does.
LEMMA UpdateLeaves ==
  ASSUME Connect \/ Update
  PROVE  UNCHANGED <<ioq, io, fetched, accSock, draining, peer, sent, read>>
  <1>1. CASE Connect \/ RefuseAccepted \/ RefuseConnected \/ OnConnectFail \/ KickSession
    BY <1>1 DEF Connect, RefuseAccepted, RefuseConnected, OnConnectFail, KickSession, FailConnect,
                threadVars, ioVars, pollVars, makeVars, peerVars
  <1>2. CASE AddAccepted \/ AddConnected
    BY <1>2 DEF AddAccepted, AddConnected, AddEpollEvent, ioVars, makeVars, peerVars
  <1>3. CASE \/ UpdateBegin \/ CheckSession \/ RecvPacket \/ RecvMalformed \/ RecvDone
             \/ TakeAccepted \/ OnAccept \/ JoinAccepted \/ TakeSuccess \/ OnConnect \/ JoinConnected
             \/ FailDone \/ ScanSession \/ ScanDone \/ OnDisconnect \/ UpdateEnd
    BY <1>3 DEF UpdateBegin, CheckSession, RecvPacket, RecvMalformed, RecvDone, TakeAccepted, OnAccept,
                JoinAccepted, TakeSuccess, OnConnect, JoinConnected, FailDone, ScanSession, ScanDone,
                OnDisconnect, UpdateEnd, ioVars, pollVars, makeVars, peerVars
  <1>4. QED
    BY <1>1, <1>2, <1>3 DEF Update

Threads ==
  \/ AcceptSocket \/ AcceptPush \/ ConnectThread \/ EpollWait \/ EpollHandle \/ PreSend
  \/ \E t \in IoThread : IoTake(t) \/ IoStep(t)
  \/ Peer

LEMMA ThreadsLeave ==
  ASSUME Threads
  PROVE  UNCHANGED <<ordered, obj, objSess, life, inbox, numActive, pc, cur, net, reg>>
  <1>1. CASE AcceptSocket \/ AcceptPush \/ ConnectThread
    BY <1>1 DEF AcceptSocket, AcceptPush, ConnectThread, ConnectWait, ConnectTake, ConnectDone,
                ConnectDrained, sessVars, objVars, mainVars, pollVars
  <1>2. CASE EpollWait \/ EpollHandle \/ PreSend \/ Peer
    BY <1>2 DEF EpollWait, EpollHandle, PreSend, Peer, PeerSend, PeerLeave, PeerDrain,
                sessVars, objVars, mainVars, pollVars
  <1>3. CASE \E t \in IoThread : IoTake(t) \/ IoStep(t)
    BY <1>3 DEF IoTake, IoStep, RecvCheck, RecvCall, RecvStore, SendCheck, SendCall,
                sessVars, objVars, mainVars, pollVars
  <1>4. QED
    BY <1>1, <1>2, <1>3 DEF Threads

\* The threads that do no i/o leave the io threads' own state alone.
LEMMA OthersLeave ==
  ASSUME \/ AcceptSocket \/ AcceptPush \/ ConnectThread \/ EpollWait \/ EpollHandle \/ PreSend
         \/ Peer
  PROVE  UNCHANGED <<io, recvBuf, complete, unsent, read>>
  <1>1. CASE AcceptSocket \/ AcceptPush \/ ConnectThread
    BY <1>1 DEF AcceptSocket, AcceptPush, ConnectThread, ConnectWait, ConnectTake, ConnectDone,
                ConnectDrained, sessVars, ioVars, peerVars
  <1>2. CASE EpollWait \/ EpollHandle \/ PreSend \/ Peer
    BY <1>2 DEF EpollWait, EpollHandle, PreSend, Peer, PeerSend, PeerLeave, PeerDrain,
                sessVars, ioVars, peerVars
  <1>3. QED
    BY <1>1, <1>2

\* One io thread at a time holds a session's lock.
Unlocked == {"idle", "took recv", "took send"}

Alone ==
  \A t, u \in IoThread :
    io[t].s = io[u].s /\ io[t].at \notin Unlocked /\ io[u].at \notin Unlocked => t = u

\* What an io thread's step does to where it is.
LEMMA IoMoves ==
  ASSUME PollInv, NEW t \in IoThread, IoTake(t) \/ IoStep(t)
  PROVE  /\ \/ io'[t].at \in Unlocked
            \/ io'[t].s = io[t].s /\ (~Locked(io[t].s) \/ io[t].at \notin Unlocked)
         /\ \A u \in IoThread \ {t} : io'[u] = io[u]
         /\ DOMAIN io' = IoThread
  <1>1. PICK G : io \in [IoThread -> [at : IoAt, s : Session \cup {NULL}, got : G]]
    BY DEF PollInv, IoNames
  <1> DEFINE Sets(rec) == io' = [io EXCEPT ![t] = rec]
  <1>2. ASSUME NEW rec, Sets(rec)
        PROVE  io'[t] = rec /\ (\A u \in IoThread \ {t} : io'[u] = io[u]) /\ DOMAIN io' = IoThread
    BY <1>1, <1>2
  <1>3. \A x, s, g : /\ [at |-> x, s |-> s, got |-> g].at = x
                    /\ [at |-> x, s |-> s, got |-> g].s = s
    OBVIOUS
  <1> HIDE DEF Sets
  <1>4. CASE IoTake(t)
    <2>1. \E s \in Session, at \in {"took recv", "took send"} : Sets([at |-> at, s |-> s, got |-> << >>])
      BY <1>4, IoEffects DEF Sets
    <2>2. \E rec : Sets(rec) /\ rec.at \in Unlocked
      BY <1>3, <2>1 DEF Unlocked
    <2>3. PICK rec : Sets(rec) /\ rec.at \in Unlocked
      BY <2>2
    <2>4. io'[t] = rec /\ (\A u \in IoThread \ {t} : io'[u] = io[u]) /\ DOMAIN io' = IoThread
      BY <1>2, <2>3
    <2>5. io'[t].at \in Unlocked
      BY <2>3, <2>4
    <2>6. QED BY <2>4, <2>5
  <1>5. CASE IoStep(t)
    <2>1. io[t].at \in {"took recv", "took send"} => ~Locked(io[t].s)
      BY <1>5 DEF IoStep, RecvCheck, RecvCall, RecvStore, SendCheck, SendCall
    <2>2. io[t].at # "idle"
      BY <1>5 DEF IoStep, RecvCheck, RecvCall, RecvStore, SendCheck, SendCall
    <2>3. \E at, got : \/ Sets([at |-> at, s |-> io[t].s, got |-> got])
                      \/ Sets([at |-> "idle", s |-> NULL, got |-> << >>])
      BY <1>5, IoEffects DEF IoStep, Sets
    <2>4. \E rec : Sets(rec) /\ (rec.s = io[t].s \/ rec.at = "idle")
      BY <1>3, <2>3
    <2>5. PICK rec : Sets(rec) /\ (rec.s = io[t].s \/ rec.at = "idle")
      BY <2>4
    <2>6. QED BY <1>2, <2>1, <2>2, <2>5 DEF Unlocked
  <1>6. QED
    BY <1>4, <1>5

LEMMA AloneHolds == Spec => []Alone
  <1>1. Init => Alone
    <2>1. Idle.at = "idle"
      BY DEF Idle
    <2>2. QED
      BY <2>1 DEF Init, Alone, Unlocked
  <1>2. PollInv /\ Alone /\ [Next]_vars => Alone'
    <2> SUFFICES ASSUME PollInv, Alone, [Next]_vars PROVE Alone'
      OBVIOUS
    <2>1. CASE UNCHANGED io
      BY <2>1 DEF Alone
    <2>2. ASSUME NEW t \in IoThread, IoTake(t) \/ IoStep(t) PROVE Alone'
      <3>1. /\ \/ io'[t].at \in Unlocked
               \/ io'[t].s = io[t].s /\ (~Locked(io[t].s) \/ io[t].at \notin Unlocked)
            /\ \A u \in IoThread \ {t} : io'[u] = io[u]
        BY <2>2, IoMoves
      <3>2. CASE io'[t].at \in Unlocked
        BY <3>1, <3>2 DEF Alone
      <3>3. CASE io'[t].s = io[t].s /\ ~Locked(io[t].s)
        BY <3>1, <3>3, ZenonT(60) DEF Alone, Locked, Unlocked
      <3>4. CASE io'[t].s = io[t].s /\ io[t].at \notin Unlocked
        BY <3>1, <3>4 DEF Alone
      <3>5. QED BY <3>1, <3>2, <3>3, <3>4
    <2>3. QED
      BY <2>1, <2>2, UpdateLeaves, OthersLeave DEF Next, vars, ioVars
  <1>3. QED
    BY <1>1, <1>2, PollHolds, PTL DEF Spec

-----------------------------------------------------------------------------
\* Thread t's record after its step, the others unchanged.
Does(t, at, s, got) ==
  /\ io'[t].at = at /\ io'[t].s = s /\ io'[t].got = got
  /\ \A u \in IoThread \ {t} : io'[u] = io[u]

LEMMA DoesIt ==
  ASSUME IoNames, NEW t \in IoThread, NEW x, NEW y, NEW z,
         io' = [io EXCEPT ![t] = [at |-> x, s |-> y, got |-> z]]
  PROVE  Does(t, x, y, z)
  <1>1. PICK G : io \in [IoThread -> [at : IoAt, s : Session \cup {NULL}, got : G]]
    BY DEF IoNames
  <1> DEFINE r == [at |-> x, s |-> y, got |-> z]
  <1>2. r.at = x /\ r.s = y /\ r.got = z
    OBVIOUS
  <1> HIDE DEF r
  <1>3. io' = [io EXCEPT ![t] = r]
    BY DEF r
  <1>4. io'[t] = r /\ \A u \in IoThread \ {t} : io'[u] = io[u]
    BY <1>1, <1>3
  <1>5. QED
    BY <1>2, <1>4 DEF Does

\* What recv() gets.
Gets(t, c, n) ==
  /\ c = sock[io[t].s] /\ read[c] + n <= sent[c] /\ n <= RecvSize - Len(recvBuf[io[t].s])
  /\ \E at \in {"stored", "stored, full"} :
       Does(t, at, io[t].s, [i \in 1..n |-> <<c, read[c] + i>>])
  /\ read' = [read EXCEPT ![c] = read[c] + n]

Stops(t) == Does(t, "idle", NULL, << >>)

-----------------------------------------------------------------------------
\* The receive buffers hold packets, no more than there is room for, whatever
\* the io threads are about to store.
Full == {"stored", "stored, full"}

Room ==
  /\ recvBuf \in [Session -> Seq(Packet)]
  /\ \A s \in Session : Len(recvBuf[s]) <= RecvSize
  /\ \A t \in IoThread :
       /\ io[t].got \in Seq(Packet)
       /\ io[t].at = "recv" => Len(recvBuf[io[t].s]) < RecvSize
       /\ io[t].at \in Full => Len(recvBuf[io[t].s]) + Len(io[t].got) <= RecvSize

\* Nothing is read that was not sent, nothing is sent before there is a
\* connection, and nothing is heard before an object is open.
Reads ==
  /\ read \in [Conn -> Nat]
  /\ \A c \in Conn :
       /\ read[c] <= sent[c] /\ sent[c] <= MaxSent
       /\ c > made \/ life[c] = "opening" => sent[c] = 0
       /\ c > made \/ c = accSock => read[c] = 0

Heard ==
  /\ inbox \in [Conn -> Seq(Packet)]
  /\ \A c \in Conn : life[c] \in {"none", "opening"} => inbox[c] = << >>

ReadInv == Room /\ Reads /\ Heard

\* An object is told what NetworkObjects says, or hears a packet.
LEMMA Tells ==
  ASSUME IInv, CountInv, DataInv, HeldInv, BoundInv, Connect \/ Update
  PROVE  \/ UNCHANGED <<life, inbox>>
         \/ RecvPacket /\ UNCHANGED life
         \/ \E c \in Conn :
              \/ c = made + 1 /\ Connect /\ Objects!Tell(c, "none", "opening")
              \/ Objects!Tell(c, "none", "open") \/ Objects!Tell(c, "opening", "open")
              \/ Objects!Tell(c, "opening", "failed") \/ Objects!Tell(c, "open", "closed")
  <1>1. /\ sock \in [Session -> Conn \cup {0}] /\ 0 \notin Conn
        /\ \A c \in Conn : c > made => life[c] = "none"
    BY SyncAssumption DEF DataInv, Conn, BoundInv, Unused
  <1>2. CASE Connect
    <2>1. made + 1 \in Conn /\ life' = [life EXCEPT ![made + 1] = "opening"] /\ UNCHANGED inbox
      BY <1>2, SyncAssumption DEF Connect, Told, DataInv, Conn
    <2>2. life[made + 1] = "none"
      BY <1>1, <2>1, SyncAssumption DEF DataInv, Conn
    <2>3. QED BY <1>2, <2>1, <2>2 DEF Objects!Tell
  <1>3. CASE OnAccept
    <2> DEFINE s == Head(list["main"])
    <2>1. s \in Session /\ stage[s] = "accept"
      BY <1>3, StageUpdate DEF Becomes
    <2>2. life' = [life EXCEPT ![sock[s]] = "open"] /\ UNCHANGED inbox
      BY <1>3 DEF OnAccept, Told, At
    <2> HIDE DEF s
    <2>3. sock[s] \in Conn /\ life[sock[s]] = "none"
      BY <1>1, <2>1 DEF BoundInv, BoundByStage
    <2>4. QED BY <2>2, <2>3 DEF Objects!Tell
  <1>4. CASE OnConnect
    <2> DEFINE s == Head(list["main"])
    <2>1. s \in Session /\ stage[s] = "connect"
      BY <1>4, StageUpdate DEF Becomes
    <2>2. life' = [life EXCEPT ![obj[s]] = "open"] /\ UNCHANGED inbox
      BY <1>4 DEF OnConnect, Told, At
    <2> HIDE DEF s
    <2>3. obj[s] \in Conn /\ life[obj[s]] = "opening"
      BY <1>1, <2>1 DEF BoundInv, BoundByStage
    <2>4. QED BY <2>2, <2>3 DEF Objects!Tell
  <1>5. CASE RefuseConnected \/ OnConnectFail
    <2>1. PICK p \in {"template", "fail"} : FailConnect(p) /\ Becomes(Head(list[p]), "opening", "free")
      BY <1>5, StageUpdate DEF RefuseConnected, OnConnectFail
    <2> DEFINE s == Head(list[p])
    <2>2. s \in Session /\ stage[s] = "opening"
      BY <2>1 DEF Becomes
    <2>3. life' = [life EXCEPT ![obj[s]] = "failed"] /\ UNCHANGED inbox
      BY <2>1 DEF FailConnect, Told, At
    <2> HIDE DEF s
    <2>4. obj[s] \in Conn /\ life[obj[s]] = "opening"
      BY <1>1, <2>2 DEF BoundInv, BoundByStage
    <2>5. QED BY <2>3, <2>4 DEF Objects!Tell
  <1>6. CASE OnDisconnect
    <2>1. life' = [life EXCEPT ![net] = "closed"] /\ UNCHANGED inbox /\ pc = "kicked"
      BY <1>6 DEF OnDisconnect, Told
    <2>2. net \in Conn /\ life[net] = "open"
      BY <2>1 DEF BoundInv, NetRight
    <2>3. QED BY <2>1, <2>2 DEF Objects!Tell
  <1>7. CASE \/ UpdateBegin \/ CheckSession \/ RecvPacket \/ RecvMalformed \/ RecvDone
             \/ TakeAccepted \/ RefuseAccepted \/ AddAccepted \/ JoinAccepted
             \/ TakeSuccess \/ AddConnected \/ JoinConnected \/ FailDone
             \/ ScanSession \/ ScanDone \/ KickSession \/ UpdateEnd
    BY <1>7 DEF UpdateBegin, CheckSession, RecvPacket, RecvMalformed, RecvDone, TakeAccepted,
                RefuseAccepted, AddAccepted, JoinAccepted, TakeSuccess, AddConnected, JoinConnected,
                FailDone, ScanSession, ScanDone, KickSession, UpdateEnd, objVars
  <1>8. QED
    BY <1>2, <1>3, <1>4, <1>5, <1>6, <1>7 DEF Update

\* The main thread takes packets out of a buffer, one or all.
LEMMA RecvShrinks ==
  ASSUME IInv, CountInv, DataInv, HeldInv, BoundInv, ReadInv, Connect \/ Update
  PROVE  /\ \/ UNCHANGED recvBuf
            \/ RecvPacket
            \/ \E s \in Session : /\ stage'[s] = "free" \/ stage[s] = "connect"
                                 /\ recvBuf' = [recvBuf EXCEPT ![s] = << >>]
         /\ RecvPacket => Current \in Session /\ recvBuf' = [recvBuf EXCEPT ![Current] = Tail(@)]
                          /\ recvBuf[Current] # << >> /\ stage[Current] = "running"
                          /\ inbox' = [inbox EXCEPT ![obj[Current]] = Append(@, Head(recvBuf[Current]))]
  <1>1. stage = [s \in Session |-> stage[s]]
    BY DEF stage
  <1>2. CASE /\ ~RecvPacket
             /\ \/ Connect \/ UpdateBegin \/ CheckSession \/ RecvMalformed \/ RecvDone
                \/ TakeAccepted \/ AddAccepted \/ JoinAccepted \/ OnAccept
                \/ TakeSuccess \/ AddConnected \/ JoinConnected \/ FailDone
                \/ ScanSession \/ ScanDone \/ UpdateEnd \/ OnDisconnect
    BY <1>2 DEF Connect, UpdateBegin, CheckSession, RecvMalformed, RecvDone, TakeAccepted,
                AddAccepted, JoinAccepted, OnAccept, TakeSuccess, AddConnected, JoinConnected,
                FailDone, ScanSession, ScanDone, UpdateEnd, OnDisconnect, sessVars, Goto, NextSession
  <1>3. CASE RecvPacket
    <2>1. /\ pc = "packets" /\ recvBuf[Current] # << >>
          /\ recvBuf' = [recvBuf EXCEPT ![Current] = Tail(@)]
          /\ inbox' = [inbox EXCEPT ![obj[Current]] = Append(@, Head(recvBuf[Current]))]
      BY <1>3 DEF RecvPacket
    <2>2. cur \in 1..Len(list["active"])
      <3>1. cur \in Nat \ {0} /\ cur <= Len(list["active"]) /\ Len(list["active"]) \in Nat
        BY <2>1, Lengths DEF HeldInv, IInv, Place
      <3>2. QED BY <3>1
    <2>3. Current \in Session /\ where[Current] = "active"
      BY <2>2, Wheres DEF Current, Place
    <2>4. stage[Current] = "running"
      BY <2>3 DEF stage, StageAt
    <2>5. QED BY <1>3, <2>1, <2>3, <2>4
  <1>4. CASE RefuseAccepted \/ RefuseConnected \/ OnConnectFail \/ KickSession
    <2>1. PICK p \in {"template", "fail"} :
            /\ FreeSession(p)
            /\ \E from \in {"fresh", "opening", "dead"} : Becomes(Head(list[p]), from, "free")
      BY <1>4, StageUpdate DEF RefuseAccepted, RefuseConnected, OnConnectFail, KickSession, FailConnect
    <2>2. recvBuf' = [recvBuf EXCEPT ![Head(list[p])] = << >>]
      BY <2>1 DEF FreeSession, InitSession
    <2>3. ~RecvPacket
      BY <1>4 DEF RefuseAccepted, RefuseConnected, OnConnectFail, KickSession, RecvPacket
    <2>4. QED BY <1>1, <2>1, <2>2, <2>3 DEF Becomes
  <1>5. CASE OnConnect
    <2>1. Becomes(Head(list["main"]), "connect", "running")
      BY <1>5, StageUpdate
    <2>2. recvBuf' = [recvBuf EXCEPT ![Head(list["main"])] = << >>] /\ ~RecvPacket
      BY <1>5 DEF OnConnect, RecvPacket, At
    <2>3. QED BY <1>1, <2>1, <2>2 DEF Becomes
  <1>6. QED
    BY <1>2, <1>3, <1>4, <1>5 DEF Update

LEMMA Shrunk ==
  ASSUME NEW a \in Nat, NEW b \in Nat, NEW n \in Nat, NEW r \in Nat, b <= a
  PROVE  (a < r => b < r) /\ (a + n <= r => b + n <= r)
  OBVIOUS

\* What the main thread does to what is read, and to what is heard.
LEMMA ReadUpdate ==
  ASSUME IInv, CountInv, DataInv, HeldInv, BoundInv, PollInv, ReadInv, Connect \/ Update
  PROVE  ReadInv'
  <1>1. /\ UNCHANGED <<io, accSock, sent, read>>
        /\ Room /\ Reads /\ Heard /\ made \in Nat
        /\ Conn \subseteq Nat /\ DOMAIN life = Conn /\ accSock \in Conn \cup {0} /\ accSock <= made
    BY UpdateLeaves DEF ReadInv, DataInv, Conn, BoundInv, Unused
  <1>2. IF Connect THEN made' = made + 1 ELSE UNCHANGED made
    <2>1. CASE Connect
      BY <2>1 DEF Connect
    <2>2. CASE ~Connect
      BY <2>2 DEF Update, UpdateBegin, CheckSession, RecvPacket, RecvMalformed, RecvDone, TakeAccepted,
                RefuseAccepted, AddAccepted, JoinAccepted, OnAccept, TakeSuccess, AddConnected,
                OnConnect, RefuseConnected, JoinConnected, OnConnectFail, FailConnect, FailDone,
                ScanSession, ScanDone, KickSession, OnDisconnect, UpdateEnd, threadVars, peerVars
    <2>3. QED BY <2>1, <2>2
  <1>3. recvBuf' \in [Session -> Seq(Packet)]
        /\ \A s \in Session : Len(recvBuf'[s]) <= Len(recvBuf[s])
    <2>1. \A s \in Session : recvBuf[s] \in Seq(Packet) /\ Len(recvBuf[s]) \in Nat
      BY <1>1, LenProperties DEF Room
    <2>2. CASE UNCHANGED recvBuf
      BY <1>1, <2>1, <2>2 DEF Room
    <2>3. CASE RecvPacket
      <3>1. Current \in Session /\ recvBuf' = [recvBuf EXCEPT ![Current] = Tail(@)]
            /\ recvBuf[Current] # << >>
        BY <2>3, RecvShrinks
      <3>2. Tail(recvBuf[Current]) \in Seq(Packet)
            /\ Len(Tail(recvBuf[Current])) = Len(recvBuf[Current]) - 1
        BY <2>1, <3>1, HeadTailProperties
      <3>3. QED BY <1>1, <2>1, <3>1, <3>2 DEF Room
    <2>4. ASSUME NEW s \in Session, recvBuf' = [recvBuf EXCEPT ![s] = << >>]
          PROVE  recvBuf' \in [Session -> Seq(Packet)]
                 /\ \A r \in Session : Len(recvBuf'[r]) <= Len(recvBuf[r])
      <3>1. << >> \in Seq(Packet) /\ Len(<< >>) = 0
        BY EmptySeq
      <3>2. QED BY <1>1, <2>1, <2>4, <3>1 DEF Room
    <2>5. QED BY <2>2, <2>3, <2>4, RecvShrinks
  <1>4. Room'
    <2>1. \A s \in Session : Len(recvBuf[s]) \in Nat /\ Len(recvBuf'[s]) \in Nat
      BY <1>1, <1>3, LenProperties DEF Room
    <2>2. \A t \in IoThread : /\ Len(io[t].got) \in Nat
                             /\ io[t].at \in {"recv"} \cup Full => io[t].s \in Session
      BY <1>1, LenProperties DEF Room, PollInv, IoNames, Full
    <2>3. RecvSize \in Nat
      BY SyncAssumption
    <2>4. ASSUME NEW t \in IoThread
          PROVE  /\ io'[t].got \in Seq(Packet)
                 /\ io'[t].at = "recv" => Len(recvBuf'[io'[t].s]) < RecvSize
                 /\ io'[t].at \in Full => Len(recvBuf'[io'[t].s]) + Len(io'[t].got) <= RecvSize
      <3>1. io'[t] = io[t]
        BY <1>1
      <3>2. CASE io[t].at \notin {"recv"} \cup Full
        BY <1>1, <3>1, <3>2 DEF Room
      <3>3. CASE io[t].at \in {"recv"} \cup Full
        <4>1. PICK s \in Session : s = io[t].s
          BY <2>2, <3>3
        <4>2. Len(recvBuf[s]) \in Nat /\ Len(recvBuf'[s]) \in Nat /\ Len(recvBuf'[s]) <= Len(recvBuf[s])
              /\ Len(io[t].got) \in Nat
          BY <1>3, <2>1, <2>2
        <4>3. /\ io[t].got \in Seq(Packet)
              /\ io[t].at = "recv" => Len(recvBuf[s]) < RecvSize
              /\ io[t].at \in Full => Len(recvBuf[s]) + Len(io[t].got) <= RecvSize
          BY <1>1, <4>1 DEF Room
        <4>4. PICK a \in Nat, b \in Nat, n \in Nat :
                a = Len(recvBuf[s]) /\ b = Len(recvBuf'[s]) /\ n = Len(io[t].got)
          BY <4>2
        <4>5. b <= a
          BY <4>2, <4>4
        <4>6. (a < RecvSize => b < RecvSize) /\ (a + n <= RecvSize => b + n <= RecvSize)
          BY <2>3, <4>5
        <4>7. QED BY <3>1, <4>1, <4>3, <4>4, <4>6
      <3>4. QED BY <3>2, <3>3
    <2>5. \A s \in Session : Len(recvBuf'[s]) <= RecvSize
      BY <1>1, <1>3, <2>1, <2>3 DEF Room
    <2>6. QED BY <1>3, <2>4, <2>5 DEF Room
  <1>5. Reads' /\ Heard'
    <2>1. \A c \in Conn : c > made' => c > made
      BY <1>1, <1>2
    <2>2. CASE UNCHANGED <<life, inbox>>
      BY <1>1, <2>1, <2>2 DEF Reads, Heard
    <2>3. CASE RecvPacket /\ UNCHANGED life
      <3>1. Current \in Session /\ recvBuf[Current] # << >> /\ stage[Current] = "running"
            /\ inbox' = [inbox EXCEPT ![obj[Current]] = Append(@, Head(recvBuf[Current]))]
        BY <2>3, RecvShrinks
      <3>2. obj[Current] = sock[Current] /\ obj[Current] \in Conn /\ life[obj[Current]] = "open"
        BY <3>1, SyncAssumption DEF BoundInv, BoundByStage, DataInv, Conn
      <3>3. Head(recvBuf[Current]) \in Packet /\ inbox[obj[Current]] \in Seq(Packet)
        BY <1>1, <3>1, <3>2, HeadTailProperties DEF Room, Heard
      <3>4. Append(inbox[obj[Current]], Head(recvBuf[Current])) \in Seq(Packet)
        BY <3>3, AppendProperties
      <3>5. QED BY <1>1, <2>1, <2>3, <3>1, <3>2, <3>4 DEF Reads, Heard
    <2>4. ASSUME NEW c \in Conn, NEW to \in {"open", "failed", "closed"}, life' = [life EXCEPT ![c] = to],
                 UNCHANGED inbox
          PROVE  Reads' /\ Heard'
      BY <1>1, <2>1, <2>4 DEF Reads, Heard
    <2>5. ASSUME NEW c \in Conn, c = made + 1, Objects!Tell(c, "none", "opening")
          PROVE  Reads' /\ Heard'
      <3>1. life[c] = "none" /\ life' = [life EXCEPT ![c] = "opening"] /\ UNCHANGED inbox /\ c > made
        BY <1>1, <2>5 DEF Objects!Tell
      <3>2. QED BY <1>1, <2>1, <3>1 DEF Reads, Heard
    <2>6. QED BY <2>2, <2>3, <2>4, <2>5, Tells DEF Objects!Tell
  <1>6. QED
    BY <1>4, <1>5 DEF ReadInv

-----------------------------------------------------------------------------
\* What the steps of an io thread do, field by field.
LEMMA IoDoes ==
  ASSUME PollInv, NEW t \in IoThread
  PROVE  /\ IoTake(t) => \E s \in Session, at \in {"took recv", "took send"} :
                 ioq # << >> /\ s = Head(ioq)[1] /\ Does(t, at, s, << >>)
         /\ RecvCheck(t) => Does(t, "recv", io[t].s, << >>) \/ Stops(t)
         /\ SendCheck(t) => Does(t, "send", io[t].s, << >>) \/ Stops(t)
         /\ RecvStore(t) => Does(t, "again", io[t].s, << >>) \/ Stops(t)
         /\ SendCall(t) => Stops(t)
  <1>1. IoNames
    BY DEF PollInv
  <1> DEFINE Sets(x, y, z) == io' = [io EXCEPT ![t] = [at |-> x, s |-> y, got |-> z]]
  <1>2. \A x, y, z : Sets(x, y, z) => Does(t, x, y, z)
    BY <1>1, DoesIt
  <1>3. /\ IoTake(t) => \E s \in Session, at \in {"took recv", "took send"} :
                 ioq # << >> /\ s = Head(ioq)[1] /\ Sets(at, s, << >>)
        /\ RecvCheck(t) => Sets("recv", io[t].s, << >>) \/ Sets("idle", NULL, << >>)
        /\ SendCheck(t) => Sets("send", io[t].s, << >>) \/ Sets("idle", NULL, << >>)
        /\ RecvStore(t) => Sets("again", io[t].s, << >>) \/ Sets("idle", NULL, << >>)
        /\ SendCall(t) => Sets("idle", NULL, << >>)
    BY IoEffects
  <1> HIDE DEF Sets
  <1>4. QED
    BY <1>2, <1>3 DEF Stops

LEMMA RecvCallDoes ==
  ASSUME DataInv, BoundInv, PollInv, ReadInv, NEW t \in IoThread, RecvCall(t)
  PROVE  \/ \E c \in Conn, n \in Nat :
              Gets(t, c, n) /\ n > 0 /\ c <= made /\ c # accSock /\ UNCHANGED remove
         \/ Stops(t) /\ UNCHANGED read
  <1>1. IoNames /\ Room /\ Reads
    BY DEF PollInv, ReadInv
  <1>2. io[t].at = "recv" /\ io[t].s \in Session
    BY <1>1 DEF RecvCall, IoNames
  <1> DEFINE s == io[t].s
             c == sock[s]
             there == IF c = 0 THEN 0 ELSE sent[c] - read[c]
             room == RecvSize - Len(recvBuf[s])
             n == IF there < room THEN there ELSE room
  <1>3. CASE there > 0 /\ RecvSome(t, c, n)
    <2>1. c \in Conn /\ c <= made /\ c # accSock
      BY <1>2, <1>3 DEF DataInv, BoundInv, Distinct
    <2>2. PICK a \in Nat, b \in Nat : a = sent[c] /\ b = read[c] /\ b <= a
      BY <1>1, <2>1 DEF Reads, DataInv
    <2>3. PICK l \in Nat : l = Len(recvBuf[s])
      BY <1>1, <1>2, LenProperties DEF Room
    <2>4. l < RecvSize /\ RecvSize \in Nat
      BY <1>1, <1>2, <2>3, SyncAssumption DEF Room
    <2>5. c # 0
      BY <2>1, SyncAssumption DEF Conn
    <2>6. there = a - b /\ room = RecvSize - l /\ there > 0
      BY <1>3, <2>2, <2>3, <2>5
    <2>7. n \in Nat /\ n > 0 /\ n <= room /\ n <= there /\ b + n <= a
      <3> HIDE DEF there, room
      <3>1. QED BY <2>2, <2>4, <2>6
    <2>8. \E at \in Full : Does(t, at, s, [i \in 1..n |-> <<c, read[c] + i>>])
      <3> DEFINE at == IF n = RecvSize - Len(recvBuf[io[t].s]) THEN "stored, full" ELSE "stored"
                 got == [i \in 1..n |-> <<c, read[c] + i>>]
      <3>1. io' = [io EXCEPT ![t].at = at, ![t].got = got] /\ at \in Full
        BY <1>3 DEF RecvSome, Full
      <3> HIDE DEF at, got, c, n, s
      <3>2. io' = [io EXCEPT ![t] = [at |-> at, s |-> io[t].s, got |-> got]]
        BY <1>1, <3>1, IoExcept
      <3>3. Does(t, at, s, got)
        BY <1>1, <3>2, DoesIt DEF s
      <3>4. QED BY <3>1, <3>3 DEF got
    <2>9. read' = [read EXCEPT ![c] = read[c] + n] /\ UNCHANGED remove
      BY <1>3 DEF RecvSome
    <2>10. Gets(t, c, n)
      BY <2>2, <2>7, <2>8, <2>9 DEF Gets, Full
    <2>11. QED BY <2>1, <2>7, <2>9, <2>10
  <1>4. CASE io' = [io EXCEPT ![t] = Idle] /\ UNCHANGED read
    BY <1>1, <1>4, DoesIt DEF Idle, Stops
  <1>5. QED
    BY <1>3, <1>4 DEF RecvCall

-----------------------------------------------------------------------------
\* A step of an io thread that reads nothing and stores nothing.
LEMMA RoomAlone ==
  ASSUME PollInv, Room, NEW t \in IoThread, NEW at, NEW s, Does(t, at, s, << >>),
         UNCHANGED recvBuf, at \notin Full, at = "recv" => Len(recvBuf[s]) < RecvSize
  PROVE  Room'
  <1>1. /\ recvBuf' \in [Session -> Seq(Packet)]
        /\ \A r \in Session : Len(recvBuf'[r]) <= RecvSize
    BY DEF Room
  <1>2. ASSUME NEW u \in IoThread
        PROVE  /\ io'[u].got \in Seq(Packet)
               /\ io'[u].at = "recv" => Len(recvBuf'[io'[u].s]) < RecvSize
               /\ io'[u].at \in Full => Len(recvBuf'[io'[u].s]) + Len(io'[u].got) <= RecvSize
    <2>1. CASE u = t
      BY <2>1, EmptySeq DEF Does
    <2>2. CASE u # t
      BY <2>2 DEF Does, Room
    <2>3. QED BY <2>1, <2>2
  <1>3. QED
    BY <1>1, <1>2 DEF Room

\* recv() fills what room there is.
LEMMA RoomGets ==
  ASSUME PollInv, Room, Reads, sent \in [Conn -> Nat], NEW t \in IoThread, io[t].at = "recv",
         NEW c \in Conn, NEW n \in Nat, Gets(t, c, n), UNCHANGED recvBuf
  PROVE  Room'
  <1> DEFINE got == [i \in 1..n |-> <<c, read[c] + i>>]
             s == io[t].s
  <1>1. /\ recvBuf' \in [Session -> Seq(Packet)]
        /\ \A r \in Session : Len(recvBuf'[r]) <= RecvSize
    BY DEF Room
  <1>2. got \in Seq(Packet) /\ Len(got) = n
    <2>1. read[c] \in Nat /\ sent[c] \in Nat /\ read[c] + n <= sent[c] /\ sent[c] <= MaxSent
      BY DEF Reads, Gets
    <2>2. \A i \in 1..n : read[c] + i \in 1..MaxSent
      BY <2>1, SyncAssumption
    <2>3. \A i \in 1..n : got[i] \in Packet
      BY <2>2 DEF Packet
    <2>4. QED BY <2>3, IsASeq
  <1>3. s \in Session
    BY DEF PollInv, IoNames
  <1>4. Len(recvBuf[s]) + n <= RecvSize
    <2>1. PICK l \in Nat : l = Len(recvBuf[s])
      BY <1>3, LenProperties DEF Room
    <2>2. n <= RecvSize - l
      BY <2>1 DEF Gets
    <2>3. l + n <= RecvSize
      BY <2>2, SyncAssumption
    <2>4. QED BY <2>1, <2>3
  <1>5. PICK at \in Full : Does(t, at, s, got)
    BY DEF Gets, Full
  <1> HIDE DEF got, s
  <1>6. ASSUME NEW u \in IoThread
        PROVE  /\ io'[u].got \in Seq(Packet)
               /\ io'[u].at = "recv" => Len(recvBuf'[io'[u].s]) < RecvSize
               /\ io'[u].at \in Full => Len(recvBuf'[io'[u].s]) + Len(io'[u].got) <= RecvSize
    <2>1. CASE u = t
      <3>1. io'[u].at \in Full /\ io'[u].s = s /\ io'[u].got = got /\ recvBuf'[s] = recvBuf[s]
        BY <1>5, <2>1 DEF Does
      <3>2. io'[u].at # "recv"
        BY <3>1 DEF Full
      <3>3. QED BY <1>2, <1>4, <3>1, <3>2
    <2>2. CASE u # t
      BY <1>5, <2>2 DEF Does, Room
    <2>3. QED BY <2>1, <2>2
  <1>7. QED
    BY <1>1, <1>6 DEF Room

\* Completion() puts it into the ring; nobody else has the lock.
LEMMA RoomStores ==
  ASSUME PollInv, Room, Alone, NEW t \in IoThread, RecvStore(t)
  PROVE  /\ Room' /\ UNCHANGED read
         /\ io[t].s \in Session
         /\ recvBuf' = [recvBuf EXCEPT ![io[t].s] = recvBuf[io[t].s] \o io[t].got]
  <1> DEFINE s == io[t].s
             got == io[t].got
  <1>1. io[t].at \in Full /\ s \in Session /\ io[t].at \notin Unlocked
    BY DEF PollInv, IoNames, RecvStore, Full, Unlocked
  <1>2. recvBuf[s] \in Seq(Packet) /\ got \in Seq(Packet) /\ Len(recvBuf[s]) + Len(got) <= RecvSize
    BY <1>1 DEF Room
  <1>3. recvBuf' = [recvBuf EXCEPT ![s] = recvBuf[s] \o got] /\ UNCHANGED read
    BY <1>1, <1>2 DEF RecvStore, Room, peerVars
  <1>4. recvBuf[s] \o got \in Seq(Packet) /\ Len(recvBuf[s] \o got) = Len(recvBuf[s]) + Len(got)
    BY <1>2, ConcatProperties
  <1>5. /\ recvBuf' \in [Session -> Seq(Packet)]
        /\ \A r \in Session : Len(recvBuf'[r]) <= RecvSize
        /\ \A r \in Session \ {s} : recvBuf'[r] = recvBuf[r]
    BY <1>1, <1>2, <1>3, <1>4 DEF Room
  <1>6. PICK at \in {"again", "idle"} : \E r : Does(t, at, r, << >>)
    BY IoDoes DEF Stops
  <1>7. ASSUME NEW u \in IoThread
        PROVE  /\ io'[u].got \in Seq(Packet)
               /\ io'[u].at = "recv" => Len(recvBuf'[io'[u].s]) < RecvSize
               /\ io'[u].at \in Full => Len(recvBuf'[io'[u].s]) + Len(io'[u].got) <= RecvSize
    <2>1. CASE u = t
      BY <1>6, <2>1, EmptySeq DEF Does, Full
    <2>2. CASE u # t /\ io[u].at \in {"recv"} \cup Full
      <3>1. io'[u] = io[u]
        BY <1>6, <2>2 DEF Does
      <3>2. io[u].s # s
        BY <1>1, <2>2 DEF Alone, Full, Unlocked
      <3>3. io[u].s \in Session
        BY <2>2 DEF PollInv, IoNames, Full
      <3>4. recvBuf'[io[u].s] = recvBuf[io[u].s]
        BY <1>5, <3>2, <3>3
      <3>5. QED BY <3>1, <3>4 DEF Room
    <2>3. CASE u # t /\ io[u].at \notin {"recv"} \cup Full
      BY <1>6, <2>3 DEF Does, Room
    <2>4. QED BY <2>1, <2>2, <2>3
  <1>8. QED
    BY <1>1, <1>3, <1>5, <1>7 DEF Room

\* What the other threads and the peers do to what is read.
LEMMA ReadThreads ==
  ASSUME IInv, DataInv, BoundInv, PollInv, Alone, ReadInv, Threads
  PROVE  ReadInv'
  <1>1. /\ Room /\ Reads /\ Heard /\ UNCHANGED <<life, inbox>>
        /\ Conn \subseteq Nat /\ made \in Nat /\ accSock \in Conn \cup {0} /\ accSock <= made
        /\ sent \in [Conn -> Nat] /\ sock \in [Session -> Conn \cup {0}]
    BY ThreadsLeave DEF ReadInv, DataInv, Conn, BoundInv, Unused
  <1>2. Heard'
    BY <1>1 DEF Heard
  <1>3. CASE AcceptSocket \/ AcceptPush \/ ConnectThread \/ EpollWait \/ EpollHandle \/ PreSend \/ Peer
    <2>1. UNCHANGED <<io, recvBuf, read>>
      BY <1>3, OthersLeave
    <2>2. Room'
      BY <1>1, <2>1 DEF Room
    <2>3. CASE AcceptSocket
      <3>1. UNCHANGED sent /\ made' = made + 1 /\ accSock' \in {accSock, made + 1}
        BY <2>3 DEF AcceptSocket
      <3>2. QED BY <1>1, <1>2, <2>1, <2>2, <3>1 DEF Reads, ReadInv
    <2>4. CASE AcceptPush
      <3>1. UNCHANGED <<sent, made>> /\ accSock' = 0 /\ 0 \notin Conn
        BY <2>4, SyncAssumption DEF AcceptPush, peerVars, Conn
      <3>2. QED BY <1>1, <1>2, <2>1, <2>2, <3>1 DEF Reads, ReadInv
    <2>5. CASE ConnectThread \/ EpollWait \/ EpollHandle \/ PreSend
      <3>1. UNCHANGED <<sent, made, accSock>>
        BY <2>5 DEF ConnectThread, ConnectWait, ConnectTake, ConnectDone, ConnectDrained,
                    EpollWait, EpollHandle, PreSend, makeVars, peerVars
      <3>2. QED BY <1>1, <1>2, <2>1, <2>2, <3>1 DEF Reads, ReadInv
    <2>6. ASSUME NEW c \in Conn, PeerSend(c)
          PROVE  Reads'
      <3>1. /\ sent' = [sent EXCEPT ![c] = sent[c] + 1] /\ sent[c] < MaxSent /\ life[c] # "opening"
            /\ UNCHANGED <<made, accSock>>
        BY <2>6 DEF PeerSend, makeVars
      <3>2. c <= made
        BY <1>1, <2>6 DEF PeerSend, Reaches, BoundInv, Distinct
      <3>3. \A d \in Conn : sent'[d] = IF d = c THEN sent[c] + 1 ELSE sent[d]
        BY <1>1, <3>1
      <3>4. ASSUME NEW d \in Conn
            PROVE  /\ read'[d] <= sent'[d] /\ sent'[d] <= MaxSent
                   /\ d > made' \/ life'[d] = "opening" => sent'[d] = 0
                   /\ d > made' \/ d = accSock' => read'[d] = 0
        <4>1. CASE d = c
          <5>1. PICK a \in Nat, b \in Nat : a = sent[c] /\ b = read[c] /\ b <= a /\ a < MaxSent
            BY <1>1, <3>1 DEF Reads
          <5>2. b <= a + 1 /\ a + 1 <= MaxSent
            BY <5>1, SyncAssumption
          <5>3. ~(c > made)
            BY <1>1, <3>2
          <5>4. c = accSock => read[c] = 0
            BY <1>1 DEF Reads
          <5>5. QED BY <1>1, <2>1, <3>1, <3>3, <4>1, <5>1, <5>2, <5>3, <5>4
        <4>2. CASE d # c
          BY <1>1, <2>1, <3>1, <3>3, <4>2 DEF Reads
        <4>3. QED BY <4>1, <4>2
      <3>5. QED BY <1>1, <2>1, <3>4 DEF Reads
    <2>7. CASE Peer
      <3>1. PICK c \in Conn : PeerSend(c) \/ PeerLeave(c, "fin") \/ PeerLeave(c, "rst") \/ PeerDrain(c)
        BY <2>7 DEF Peer
      <3>2. CASE PeerLeave(c, "fin") \/ PeerLeave(c, "rst") \/ PeerDrain(c)
        <4>1. UNCHANGED <<sent, made, accSock>>
          BY <3>2 DEF PeerLeave, PeerDrain, makeVars, peerVars
        <4>2. QED BY <1>1, <1>2, <2>1, <2>2, <4>1 DEF Reads, ReadInv
      <3>3. QED BY <1>2, <2>2, <2>6, <3>1, <3>2 DEF ReadInv
    <2>8. QED BY <1>3, <2>3, <2>4, <2>5, <2>7
  <1>4. ASSUME NEW t \in IoThread, IoTake(t) \/ IoStep(t)
        PROVE  ReadInv'
    <2>1. UNCHANGED <<sent, made, accSock>>
      BY <1>4 DEF IoTake, IoStep, RecvCheck, RecvCall, RecvStore, SendCheck, SendCall, makeVars, peerVars
    <2>2. CASE IoTake(t) \/ RecvCheck(t) \/ SendCheck(t) \/ SendCall(t)
      <3>1. UNCHANGED <<recvBuf, read>>
        BY <2>2 DEF IoTake, RecvCheck, SendCheck, SendCall, sessVars, peerVars
      <3>2. ASSUME NEW at, NEW s, Does(t, at, s, << >>), at \notin Full, at # "recv"
            PROVE  Room'
        BY <1>1, <3>1, <3>2, RoomAlone
      <3>3. Room'
        <4>1. CASE ~RecvCheck(t)
          <5>1. \A at \in {"took recv", "took send", "send", "idle"} : at \notin Full /\ at # "recv"
            BY DEF Full
          <5>2. PICK at \in {"took recv", "took send", "send", "idle"} : \E s : Does(t, at, s, << >>)
            BY <2>2, <4>1, IoDoes DEF Stops
          <5>3. QED BY <3>2, <5>1, <5>2
        <4>2. CASE RecvCheck(t) /\ Len(recvBuf[io[t].s]) < RecvSize
          <5>1. CASE Stops(t)
            BY <3>2, <5>1 DEF Stops, Full
          <5>2. CASE Does(t, "recv", io[t].s, << >>)
            BY <1>1, <3>1, <4>2, <5>2, RoomAlone DEF Full
          <5>3. QED BY <4>2, <5>1, <5>2, IoDoes
        <4>3. CASE RecvCheck(t) /\ ~(Len(recvBuf[io[t].s]) < RecvSize)
          <5>1. io' = [io EXCEPT ![t] = Idle]
            BY <4>3 DEF RecvCheck
          <5>2. IoNames /\ Idle = [at |-> "idle", s |-> NULL, got |-> << >>]
            BY DEF PollInv, Idle
          <5>3. Does(t, "idle", NULL, << >>)
            BY <5>1, <5>2, DoesIt
          <5>4. QED BY <3>2, <5>3 DEF Full
        <4>4. QED BY <2>2, <4>1, <4>2, <4>3
      <3>4. QED BY <1>1, <1>2, <2>1, <3>1, <3>3 DEF Reads, ReadInv
    <2>3. CASE RecvCall(t)
      <3>1. UNCHANGED recvBuf /\ io[t].at = "recv"
        BY <2>3 DEF RecvCall
      <3>2. CASE Stops(t) /\ UNCHANGED read
        <4>1. Room'
          BY <1>1, <3>1, <3>2, RoomAlone DEF Stops, Full
        <4>2. QED BY <1>1, <1>2, <2>1, <3>2, <4>1 DEF Reads, ReadInv
      <3>3. ASSUME NEW c \in Conn, NEW n \in Nat, Gets(t, c, n), n > 0, c <= made, c # accSock
            PROVE  ReadInv'
        <4>1. Room'
          BY <1>1, <3>1, <3>3, RoomGets
        <4>a. read[c] \in Nat
          BY <1>1 DEF Reads
        <4>b. read[c] + n \in Nat
          BY <4>a
        <4>2. /\ read' = [read EXCEPT ![c] = read[c] + n] /\ read[c] + n <= sent[c]
              /\ read[c] + n \in Nat
          BY <3>3, <4>b DEF Gets
        <4>3. Reads'
          BY <1>1, <2>1, <3>3, <4>2 DEF Reads
        <4>4. QED BY <1>2, <4>1, <4>3 DEF ReadInv
      <3>4. QED BY <2>3, <3>2, <3>3, RecvCallDoes
    <2>4. CASE RecvStore(t)
      <3>1. Room' /\ UNCHANGED read
        BY <1>1, <2>4, RoomStores
      <3>2. QED BY <1>1, <1>2, <2>1, <3>1 DEF Reads, ReadInv
    <2>5. QED BY <1>4, <2>2, <2>3, <2>4 DEF IoStep
  <1>5. QED
    BY <1>3, <1>4 DEF Threads

LEMMA ReadHolds == Spec => []ReadInv
  <1>1. Init => ReadInv
    <2> SUFFICES ASSUME Init PROVE ReadInv
      OBVIOUS
    <2>1. << >> \in Seq(Packet) /\ Len(<< >>) = 0
      BY EmptySeq
    <2>2. \A t \in IoThread : io[t].at = "idle" /\ io[t].got = << >>
      BY DEF Init, Idle
    <2>a. recvBuf = [s \in Session |-> << >>]
      BY DEF Init
    <2>b. recvBuf \in [Session -> Seq(Packet)] /\ \A s \in Session : Len(recvBuf[s]) = 0
      BY <2>1, <2>a
    <2>c. RecvSize \in Nat
      BY SyncAssumption
    <2>3. Room
      <3>1. \A s \in Session : Len(recvBuf[s]) <= RecvSize
        BY <2>b, <2>c
      <3>2. \A t \in IoThread : io[t].got \in Seq(Packet) /\ io[t].at # "recv" /\ io[t].at \notin Full
        BY <2>1, <2>2 DEF Full
      <3>3. QED BY <2>b, <3>1, <3>2 DEF Room
    <2>4. Reads /\ Heard
      BY <2>1, SyncAssumption DEF Init, Reads, Heard
    <2>5. QED BY <2>3, <2>4 DEF ReadInv
  <1>2. IInv /\ CountInv /\ DataInv /\ HeldInv /\ BoundInv /\ PollInv /\ Alone /\ ReadInv /\ [Next]_vars
          => ReadInv'
    <2>1. ASSUME UNCHANGED vars, ReadInv PROVE ReadInv'
      BY <2>1 DEF vars, sessVars, objVars, ioVars, makeVars, peerVars, ReadInv, Room, Reads, Heard
    <2>2. QED
      BY <2>1, ReadUpdate, ReadThreads DEF Next, Threads
  <1>3. QED
    BY <1>1, <1>2, IInvHolds, CountInvHolds, DataHolds, HeldHolds, BoundHolds, PollHolds, AloneHolds,
       PTL DEF Spec

-----------------------------------------------------------------------------
\* A session that is about to be freed is to be removed.  One that epoll does
\* not know is clean unless it is to be removed: nobody has an event of it, no
\* io thread works for it, and its buffers are as they were made.
Unmentioned(s) ==
  /\ \A ev \in fetched : ev.s # s
  /\ \A i \in 1..Len(ioq) : ioq[i][1] # s
  /\ \A t \in IoThread : io[t].s # s

Empty(s) == recvBuf[s] = << >> /\ complete[s]

DeadMarked == \A s \in Session : stage[s] = "dead" => remove[s]

Clean == \A s \in Session : ~remove[s] /\ stage[s] \notin Known => Unmentioned(s) /\ Empty(s)

CleanInv == DeadMarked /\ Clean

\* A session that leaves the known stages was dead, and what becomes dead is to
\* be removed.
LEMMA StageFlow ==
  ASSUME IInv, CountInv, DataInv, HeldInv, Next, NEW s \in Session
  PROVE  /\ stage[s] \in Known /\ stage'[s] \notin Known => stage[s] = "dead"
         /\ stage'[s] = "dead" /\ stage[s] # "dead" => remove[s]
  <1>1. \A r, from, to : Becomes(r, from, to) => /\ stage'[r] = to /\ stage[r] = from
                                                 /\ \A q \in Session \ {r} : stage'[q] = stage[q]
    BY DEF Becomes, stage
  <1>2. CASE Connect \/ Update
    <2>1. CASE ScanSession /\ remove[Current]
      <3>1. Becomes(Current, "running", "dead")
        BY <2>1, StageUpdate
      <3>2. QED BY <1>1, <2>1, <3>1 DEF Known
    <2>2. CASE ~ScanSession
      <3>1. \/ UNCHANGED stage
            \/ \E r : \/ Becomes(r, "free", "opening") \/ Becomes(r, "fresh", "free")
                      \/ Becomes(r, "fresh", "accept") \/ Becomes(r, "accept", "running")
                      \/ Becomes(r, "opening", "connect") \/ Becomes(r, "connect", "running")
                      \/ Becomes(r, "opening", "free") \/ Becomes(r, "dead", "free")
        BY <1>2, <2>2, StageUpdate DEF Update
      <3>2. QED BY <1>1, <3>1 DEF Known
    <2>3. CASE ScanSession /\ ~remove[Current]
      BY <2>3, StageUpdate
    <2>4. QED BY <2>1, <2>2, <2>3
  <1>3. CASE Threads
    <2>1. UNCHANGED stage \/ \E r : Becomes(r, "free", "fresh")
      BY <1>3, StageThreads DEF Threads
    <2>2. QED BY <1>1, <2>1 DEF Known
  <1>4. QED
    BY <1>2, <1>3 DEF Next, Threads

\* The main thread empties the buffers of sessions epoll does not know.
LEMMA EmptyUpdate ==
  ASSUME IInv, CountInv, DataInv, HeldInv, BoundInv, ReadInv, Connect \/ Update,
         NEW s \in Session, stage[s] \notin Known, Empty(s)
  PROVE  Empty(s)'
  <1>1. recvBuf'[s] = << >>
    <2>1. CASE UNCHANGED recvBuf
      BY <2>1 DEF Empty
    <2>2. CASE RecvPacket
      <3>1. Current \in Session /\ recvBuf' = [recvBuf EXCEPT ![Current] = Tail(@)]
            /\ stage[Current] = "running"
        BY <2>2, RecvShrinks
      <3>2. Current # s
        BY <3>1 DEF Known
      <3>3. QED BY <3>1, <3>2 DEF Empty, ReadInv, Room
    <2>3. ASSUME NEW r \in Session, recvBuf' = [recvBuf EXCEPT ![r] = << >>]
          PROVE  recvBuf'[s] = << >>
      BY <2>3 DEF Empty, ReadInv, Room
    <2>4. QED BY <2>1, <2>2, <2>3, RecvShrinks
  <1>2. \/ UNCHANGED complete
        \/ \E r : complete' = [complete EXCEPT ![r] = TRUE]
    <2>1. CASE RefuseAccepted \/ RefuseConnected \/ OnConnectFail \/ KickSession \/ OnConnect
      BY <2>1 DEF RefuseAccepted, RefuseConnected, OnConnectFail, KickSession, FailConnect, OnConnect,
                  FreeSession, InitSession
    <2>2. CASE ~(RefuseAccepted \/ RefuseConnected \/ OnConnectFail \/ KickSession \/ OnConnect)
      BY <2>2 DEF Connect, Update, UpdateBegin, CheckSession, RecvPacket, RecvMalformed, RecvDone,
                  TakeAccepted, AddAccepted, OnAccept, JoinAccepted, TakeSuccess, AddConnected,
                  JoinConnected, FailDone, ScanSession, ScanDone, OnDisconnect, UpdateEnd, sessVars
    <2>3. QED BY <2>1, <2>2
  <1>3. complete'[s]
    BY <1>2 DEF Empty, DataInv
  <1>4. QED
    BY <1>1, <1>3 DEF Empty

\* Events are made for known sessions only, and an io thread has what it took.
LEMMA MentionThreads ==
  ASSUME IInv, CountInv, DataInv, HeldInv, BoundInv, PollInv, Threads,
         NEW s \in Session, stage[s] \notin Known, Unmentioned(s)
  PROVE  Unmentioned(s)'
  <1>1. /\ Registered /\ EdgesRight /\ EventsRight /\ NULL \notin Session
        /\ ioq \in Seq(Session \X {"recv", "send"}) /\ Len(ioq) \in Nat
    BY SyncAssumption, LenProperties DEF PollInv, EventsRight
  <1>2. ASSUME NEW r \in Session, r # s, NEW kind \in {"recv", "send"}, AddIoEvent(r, kind)
        PROVE  \A i \in 1..Len(ioq') : ioq'[i][1] # s
    <2>1. ioq' = ioq \/ ioq' = Append(ioq, <<r, kind>>)
      BY <1>2 DEF AddIoEvent
    <2>2. Len(Append(ioq, <<r, kind>>)) = Len(ioq) + 1
          /\ \A i \in 1..Len(ioq) : Append(ioq, <<r, kind>>)[i] = ioq[i]
          /\ Append(ioq, <<r, kind>>)[Len(ioq) + 1] = <<r, kind>>
      BY <1>1, <1>2, AppendProperties
    <2>3. \A n \in Nat : \A i \in 1..(n + 1) : i \in 1..n \/ i = n + 1
      OBVIOUS
    <2>4. <<r, kind>>[1] # s
      BY <1>2
    <2>5. CASE ioq' = Append(ioq, <<r, kind>>)
      <3>1. ASSUME NEW i \in 1..Len(ioq')
            PROVE  i \in 1..Len(ioq) \/ i = Len(ioq) + 1
        BY <1>1, <2>2, <2>3, <2>5
      <3>2. QED BY <2>2, <2>4, <2>5, <3>1 DEF Unmentioned
    <2>6. QED BY <2>1, <2>5 DEF Unmentioned
  <1>3. CASE AcceptSocket \/ AcceptPush \/ ConnectThread \/ Peer
    <2>1. UNCHANGED <<fetched, ioq, io>>
      BY <1>3 DEF AcceptSocket, AcceptPush, ConnectThread, ConnectWait, ConnectTake, ConnectDone,
                  ConnectDrained, Peer, PeerSend, PeerLeave, PeerDrain, pollVars, ioVars
    <2>2. QED BY <2>1 DEF Unmentioned
  <1>4. CASE EpollWait
    <2>1. fetched' = {[s |-> reg[c], flags |-> Flags(c)] : c \in {e[1] : e \in edge}}
          /\ UNCHANGED <<ioq, io>>
      BY <1>4 DEF EpollWait, ioVars
    <2>2. \A c \in {e[1] : e \in edge} : reg[c] # s
      BY <1>1 DEF Registered, EdgesRight
    <2>3. QED BY <2>1, <2>2 DEF Unmentioned
  <1>5. CASE EpollHandle
    <2>1. PICK ev \in fetched : EpollHup(ev) \/ EpollOnSend(ev) \/ EpollMod(ev) \/ EpollIn(ev)
      BY <1>5 DEF EpollHandle
    <2>2. ev \in EventRecord /\ ev.s # s /\ UNCHANGED io
      BY <1>1, <1>5, <2>1 DEF EventsRight, Unmentioned, EpollHandle
    <2>3. \E f : Rest(ev, f)
      BY <2>1 DEF EpollHup, EpollOnSend, EpollMod, EpollIn
    <2>4. \A f : [ev EXCEPT !.flags = f].s = ev.s
      BY <2>2 DEF EventRecord
    <2>5. \A x \in fetched' : x.s # s
      BY <2>2, <2>3, <2>4 DEF Rest, Unmentioned
    <2>6. UNCHANGED ioq \/ AddIoEvent(ev.s, "recv")
      BY <2>1 DEF EpollHup, EpollOnSend, EpollMod, EpollIn
    <2>7. \A i \in 1..Len(ioq') : ioq'[i][1] # s
      <3>1. ev.s \in Session
        BY <2>2 DEF EventRecord
      <3>2. QED BY <1>2, <2>2, <2>6, <3>1 DEF Unmentioned
    <2>8. QED BY <2>2, <2>5, <2>7 DEF Unmentioned
  <1>6. CASE PreSend
    <2>1. PICK i \in 1..Len(list["active"]) : AddIoEvent(list["active"][i], "send")
          /\ UNCHANGED <<fetched, io>>
      BY <1>6 DEF PreSend, pollVars
    <2>2. list["active"][i] \in Session /\ stage[list["active"][i]] = "running"
      BY Wheres DEF Place, stage, StageAt
    <2>3. list["active"][i] # s
      BY <2>2 DEF Known
    <2>4. QED BY <1>2, <2>1, <2>2, <2>3 DEF Unmentioned
  <1>7. ASSUME NEW t \in IoThread, IoTake(t) \/ IoStep(t)
        PROVE  Unmentioned(s)'
    <2>1. UNCHANGED fetched
      BY <1>7 DEF IoTake, IoStep, RecvCheck, RecvCall, RecvStore, SendCheck, SendCall, pollVars
    <2>2. CASE IoTake(t)
      <3>1. PICK r, at : ioq # << >> /\ r = Head(ioq)[1] /\ Does(t, at, r, << >>)
        BY <2>2, IoDoes
      <3>2. ioq' = Tail(ioq)
        BY <2>2 DEF IoTake
      <3>3. Head(ioq) = ioq[1] /\ Len(ioq) > 0
        BY <1>1, <3>1
      <3>4. r # s
        BY <1>1, <3>1, <3>3 DEF Unmentioned
      <3>5. Len(Tail(ioq)) = Len(ioq) - 1 /\ \A i \in 1..Len(Tail(ioq)) : Tail(ioq)[i] = ioq[i + 1]
        BY <1>1, <3>1, HeadTailProperties
      <3>6. \A i \in 1..Len(ioq') : ioq'[i][1] # s
        BY <1>1, <3>2, <3>3, <3>5 DEF Unmentioned
      <3>7. \A u \in IoThread : io'[u].s # s
        BY <3>1, <3>4 DEF Does, Unmentioned
      <3>8. QED BY <2>1, <3>6, <3>7 DEF Unmentioned
    <2>3. CASE IoStep(t)
      <3>1. UNCHANGED ioq
        BY <2>3 DEF IoStep, RecvCheck, RecvCall, RecvStore, SendCheck, SendCall
      <3>2. \E at, r, g : Does(t, at, r, g) /\ r \in {io[t].s, NULL}
        <4>1. CASE RecvCall(t)
          <5>1. \/ \E got : \E at \in {"stored", "stored, full"} :
                      io' = [io EXCEPT ![t] = [at |-> at, s |-> io[t].s, got |-> got]]
                \/ io' = [io EXCEPT ![t] = [at |-> "idle", s |-> NULL, got |-> << >>]]
            BY <4>1, IoEffects
          <5>2. IoNames
            BY DEF PollInv
          <5>3. \/ \E got, at : Does(t, at, io[t].s, got)
                \/ Does(t, "idle", NULL, << >>)
            BY <5>1, <5>2, DoesIt
          <5>4. QED BY <5>3
        <4>2. CASE ~RecvCall(t)
          BY <2>3, <4>2, IoDoes DEF IoStep, Stops
        <4>3. QED BY <4>1, <4>2
      <3>3. \A u \in IoThread : io'[u].s # s
        BY <1>1, <3>2 DEF Does, Unmentioned
      <3>4. QED BY <2>1, <3>1, <3>3 DEF Unmentioned
    <2>4. QED BY <1>7, <2>2, <2>3
  <1>8. QED
    BY <1>3, <1>4, <1>5, <1>6, <1>7 DEF Threads

\* A session nobody works for keeps its buffers.
LEMMA EmptyThreads ==
  ASSUME DataInv, PollInv, Alone, ReadInv, Threads, NEW s \in Session, Unmentioned(s), Empty(s)
  PROVE  Empty(s)'
  <1>1. CASE AcceptSocket \/ AcceptPush \/ ConnectThread \/ EpollWait \/ EpollHandle \/ PreSend \/ Peer
    BY <1>1, OthersLeave DEF Empty
  <1>2. ASSUME NEW t \in IoThread, IoTake(t) \/ IoStep(t)
        PROVE  Empty(s)'
    <2>1. io[t].s # s
      BY DEF Unmentioned
    <2>2. UNCHANGED recvBuf \/ RecvStore(t)
      BY <1>2 DEF IoTake, IoStep, RecvCheck, RecvCall, SendCheck, SendCall, sessVars
    <2>3. RecvStore(t) => recvBuf' = [recvBuf EXCEPT ![io[t].s] = recvBuf[io[t].s] \o io[t].got]
      BY RoomStores DEF ReadInv
    <2>4. recvBuf'[s] = recvBuf[s]
      BY <2>1, <2>2, <2>3 DEF ReadInv, Room
    <2>5. \/ UNCHANGED complete
          \/ \E b : complete' = [complete EXCEPT ![io[t].s] = b]
      BY <1>2 DEF IoTake, IoStep, RecvCheck, RecvCall, RecvStore, SendCheck, SendCall, SendSome,
                  SendBlocks, SendFails, sessVars
    <2>6. complete'[s] = complete[s]
      BY <2>1, <2>5 DEF DataInv
    <2>7. QED BY <2>4, <2>6 DEF Empty
  <1>3. QED
    BY <1>1, <1>2 DEF Threads

LEMMA CleanHolds == Spec => []CleanInv
  <1>1. Init => CleanInv
    <2> SUFFICES ASSUME Init PROVE CleanInv
      OBVIOUS
    <2>1. IInv /\ pc = "idle"
      BY InitPlaced DEF Init, IInv
    <2>2. \A t \in IoThread : io[t].s = NULL
      BY DEF Init, Idle
    <2>3. \A s \in Session : where[s] \in {"acceptPool", "connectPool"}
      <3>1. \A p \in Place \ {"acceptPool", "connectPool"} : list[p] = << >>
        BY DEF Init
      <3>2. QED BY <2>1, <3>1, Wheres
    <2>4. \A s \in Session : stage[s] = "free"
      BY <2>3 DEF stage, StageAt
    <2>5. \A s \in Session : Unmentioned(s) /\ Empty(s)
      <3>1. fetched = {} /\ ioq = << >> /\ recvBuf = [s \in Session |-> << >>]
            /\ complete = [s \in Session |-> TRUE]
        BY DEF Init
      <3>2. QED BY <2>2, <3>1, SyncAssumption DEF Unmentioned, Empty
    <2>6. QED BY <2>4, <2>5 DEF CleanInv, DeadMarked, Clean
  <1>2. IInv /\ CountInv /\ DataInv /\ HeldInv /\ BoundInv /\ PollInv /\ Alone /\ ReadInv /\ CleanInv
          /\ [Next]_vars => CleanInv'
    <2> SUFFICES ASSUME IInv, CountInv, DataInv, HeldInv, BoundInv, PollInv, Alone, ReadInv, CleanInv,
                        [Next]_vars
                 PROVE  CleanInv'
      OBVIOUS
    <2>1. CASE UNCHANGED vars
      BY <2>1 DEF vars, sessVars, mainVars, ioVars, pollVars, CleanInv, DeadMarked, Clean, Unmentioned,
                  Empty, stage, where
    <2>2. CASE Next
      <3>1. RemoveGrows
        BY DataStep
      <3>2. DeadMarked'
        BY <2>2, <3>1, StageFlow DEF CleanInv, DeadMarked, RemoveGrows
      <3>3. ASSUME NEW s \in Session, ~remove'[s], stage'[s] \notin Known
            PROVE  Unmentioned(s)' /\ Empty(s)'
        <4>1. ~remove[s] /\ stage[s] \notin Known
          BY <2>2, <3>1, <3>3, StageFlow DEF RemoveGrows, CleanInv, DeadMarked
        <4>2. Unmentioned(s) /\ Empty(s)
          BY <4>1 DEF CleanInv, Clean
        <4>3. CASE Connect \/ Update
          BY <4>1, <4>2, <4>3, EmptyUpdate, UpdateLeaves DEF Unmentioned
        <4>4. CASE Threads
          BY <4>1, <4>2, <4>4, EmptyThreads, MentionThreads
        <4>5. QED BY <2>2, <4>3, <4>4 DEF Next, Threads
      <3>4. QED BY <3>2, <3>3 DEF CleanInv, Clean
    <2>3. QED BY <2>1, <2>2
  <1>3. QED
    BY <1>1, <1>2, IInvHolds, CountInvHolds, DataHolds, HeldHolds, BoundHolds, PollHolds, AloneHolds,
       ReadHolds, PTL DEF Spec

-----------------------------------------------------------------------------
\* Packets of connection c, the first of them the (k + 1)-th.
Tagged(q, c, k) == \A i \in 1..Len(q) : q[i] = <<c, k + i>>

LEMMA TailTagged ==
  ASSUME NEW q \in Seq(Packet), q # << >>, NEW c, NEW k \in Nat, Tagged(q, c, k)
  PROVE  /\ Head(q) = <<c, k + 1>> /\ Tagged(Tail(q), c, k + 1)
         /\ Tail(q) \in Seq(Packet) /\ Len(q) \in Nat /\ Len(q) > 0 /\ Len(Tail(q)) = Len(q) - 1
  <1>1. /\ Tail(q) \in Seq(Packet) /\ Len(Tail(q)) = Len(q) - 1 /\ Len(q) \in Nat /\ Len(q) > 0
        /\ Head(q) = q[1] /\ \A i \in 1..Len(Tail(q)) : Tail(q)[i] = q[i + 1]
    BY HeadTailProperties, LenProperties
  <1>2. PICK n \in Nat : n = Len(q)
    BY <1>1
  <1>3. \A i \in 1..(n - 1) : i + 1 \in 1..n /\ k + (i + 1) = (k + 1) + i
    BY <1>2
  <1>4. \A i \in 1..n : q[i] = <<c, k + i>>
    BY <1>2 DEF Tagged
  <1>5. 1 \in 1..n
    BY <1>1, <1>2
  <1>6. ASSUME NEW i \in 1..(n - 1) PROVE q[i + 1] = <<c, (k + 1) + i>>
    BY <1>3, <1>4
  <1>7. QED
    BY <1>1, <1>2, <1>4, <1>5, <1>6 DEF Tagged

LEMMA ConcatTagged ==
  ASSUME NEW p \in Seq(Packet), NEW q \in Seq(Packet), NEW c, NEW k \in Nat,
         Tagged(p, c, k), Tagged(q, c, k + Len(p))
  PROVE  /\ Tagged(p \o q, c, k) /\ p \o q \in Seq(Packet)
         /\ Len(p) \in Nat /\ Len(q) \in Nat /\ Len(p \o q) = Len(p) + Len(q)
  <1>1. /\ p \o q \in Seq(Packet) /\ Len(p \o q) = Len(p) + Len(q)
        /\ Len(p) \in Nat /\ Len(q) \in Nat
        /\ \A i \in 1..(Len(p) + Len(q)) : (p \o q)[i] = IF i <= Len(p) THEN p[i] ELSE q[i - Len(p)]
    BY ConcatProperties, LenProperties
  <1>2. PICK m \in Nat, n \in Nat : m = Len(p) /\ n = Len(q)
    BY <1>1
  <1>3. \A i \in 1..m : p[i] = <<c, k + i>>
    BY <1>2 DEF Tagged
  <1>4. \A i \in 1..n : q[i] = <<c, (k + m) + i>>
    BY <1>2 DEF Tagged
  <1>5. ASSUME NEW i \in 1..(m + n) PROVE (p \o q)[i] = <<c, k + i>>
    <2>1. CASE i <= m
      BY <1>1, <1>2, <1>3, <2>1
    <2>2. CASE ~(i <= m)
      <3>1. i - m \in 1..n /\ (k + m) + (i - m) = k + i
        BY <2>2
      <3>2. (p \o q)[i] = q[i - m]
        BY <1>1, <1>2, <2>2
      <3>3. QED BY <1>4, <3>1, <3>2
    <2>3. QED BY <2>1, <2>2
  <1>6. QED
    BY <1>1, <1>2, <1>5 DEF Tagged

-----------------------------------------------------------------------------
\* The sessions whose packets are or will be heard: those not to be removed,
\* and the one whose packets are being heard, whatever is done to its flag.
Scope(s) == ~remove[s] \/ (pc = "packets" /\ s = Current)

Storing(t, s) == io[t].s = s /\ io[t].at \in Full

\* The object has heard the start, the buffer and the io thread that stores
\* have the rest of what has been read.
Stream(s) ==
  LET c == sock[s]
      h == Len(inbox[c])
      b == Len(recvBuf[s])
  IN  /\ Tagged(recvBuf[s], c, h)
      /\ \A t \in IoThread : Storing(t, s) =>
           Tagged(io[t].got, c, h + b) /\ h + b + Len(io[t].got) = read[c]
      /\ (\A t \in IoThread : ~Storing(t, s)) => h + b = read[c]

StreamInv ==
  /\ \A c \in Conn : Tagged(inbox[c], c, 0)
  /\ \A s \in Session : sock[s] # 0 /\ Scope(s) => Stream(s)

\* Nothing about session s changes.
LEMMA StreamSame ==
  ASSUME NEW s, Stream(s), sock'[s] = sock[s], inbox'[sock[s]] = inbox[sock[s]],
         read'[sock[s]] = read[sock[s]], recvBuf'[s] = recvBuf[s],
         \A t \in IoThread : /\ Storing(t, s)' <=> Storing(t, s)
                             /\ Storing(t, s) => io'[t].got = io[t].got
  PROVE  Stream(s)'
  BY DEF Stream

\* A clean session gets a new connection.
LEMMA StreamNew ==
  ASSUME NEW s, recvBuf'[s] = << >>, inbox'[sock'[s]] = << >>, read'[sock'[s]] = 0,
         \A t \in IoThread : io'[t].s # s
  PROVE  Stream(s)'
  BY DEF Stream, Storing, Tagged

LEMMA ActiveKept ==
  ASSUME IInv, Threads
  PROVE  list'["active"] = list["active"]
  <1>1. \/ UNCHANGED list
        \/ \E p \in Place \ {"active"} : \E q \in Place \ {"active"} : MoveHead(p, q)
    <2>1. CASE AcceptSocket \/ AcceptPush
      BY <2>1 DEF AcceptSocket, AcceptPush, Place
    <2>2. CASE ConnectThread
      BY <2>2 DEF ConnectThread, ConnectWait, ConnectTake, ConnectDone, ConnectDrained, Place
    <2>3. CASE EpollWait \/ EpollHandle \/ PreSend \/ Peer
      BY <2>3 DEF EpollWait, EpollHandle, PreSend, Peer, PeerSend, PeerLeave, PeerDrain
    <2>4. CASE \E t \in IoThread : IoTake(t) \/ IoStep(t)
      BY <2>4 DEF IoTake, IoStep, RecvCheck, RecvCall, RecvStore, SendCheck, SendCall
    <2>5. QED BY <2>1, <2>2, <2>3, <2>4 DEF Threads
  <1>2. list \in [Place -> Seq(Session)]
    BY DEF IInv, Lists!Placed
  <1>3. ASSUME NEW p \in Place \ {"active"}, NEW q \in Place \ {"active"}, MoveHead(p, q)
        PROVE  list'["active"] = list["active"]
    <2>1. PICK x, y : list' = [list EXCEPT ![p] = x, ![q] = y]
      BY <1>3 DEF MoveHead, Lists!Moved
    <2>2. QED BY <1>2, <2>1, "active" \in Place DEF Place
  <1>4. QED
    BY <1>1, <1>3

\* The scope only shrinks.
LEMMA ScopeFlow ==
  ASSUME IInv, CountInv, DataInv, Next, NEW s \in Session, Scope(s)'
  PROVE  Scope(s)
  <1>1. RemoveGrows
    BY DataStep
  <1>2. CASE ~remove'[s]
    BY <1>1, <1>2 DEF RemoveGrows, Scope
  <1>3. CASE pc' = "packets" /\ s = Current'
    <2>1. CASE Threads
      <3>1. Current' = Current /\ UNCHANGED pc
        BY <2>1, ActiveKept, ThreadsLeave DEF Current
      <3>2. QED BY <1>3, <3>1 DEF Scope
    <2>2. CASE Connect \/ Update
      <3>1. \/ pc = "packets" /\ UNCHANGED <<list, cur>>
            \/ ~remove[Current] /\ UNCHANGED <<list, cur>>
        BY <1>3, <2>2 DEF Connect, Update, UpdateBegin, CheckSession, RecvPacket, RecvMalformed,
             RecvDone, TakeAccepted, RefuseAccepted, AddAccepted, OnAccept, JoinAccepted, TakeSuccess,
             AddConnected, OnConnect, RefuseConnected, JoinConnected, OnConnectFail, FailDone,
             ScanSession, ScanDone, KickSession, OnDisconnect, UpdateEnd, FailConnect, Goto,
             NextSession, mainVars
      <3>2. Current' = Current
        BY <3>1 DEF Current
      <3>3. QED BY <1>3, <3>1, <3>2 DEF Scope
    <2>3. QED BY <2>1, <2>2 DEF Next, Threads
  <1>4. QED
    BY <1>2, <1>3 DEF Scope

-----------------------------------------------------------------------------
\* The main thread: a packet leaves the buffer and is heard.
LEMMA StreamHears ==
  ASSUME CountInv, DataInv, BoundInv, PollInv, Alone, ReadInv, StreamInv, UNCHANGED <<io, read, sock>>,
         NEW r \in Session, stage[r] = "running", recvBuf[r] # << >>, Stream(r),
         recvBuf' = [recvBuf EXCEPT ![r] = Tail(@)],
         inbox' = [inbox EXCEPT ![obj[r]] = Append(@, Head(recvBuf[r]))]
  PROVE  /\ \A c \in Conn : Tagged(inbox'[c], c, 0)
         /\ \A s \in Session : sock[s] # 0 /\ Stream(s) => Stream(s)'
         /\ life[obj[r]] = "open" /\ obj[r] \in Conn
         /\ Head(recvBuf[r]) = <<obj[r], Len(inbox[obj[r]]) + 1>>
  <1>0. PICK c \in Conn : c = sock[r]
    BY DEF DataInv, BoundInv, BoundByStage
  <1>1. c = sock[r] /\ obj[r] = c /\ life[c] = "open" /\ \A s \in Session \ {r} : sock[s] # c
    BY <1>0, SyncAssumption DEF DataInv, BoundInv, BoundByStage, Distinct, Conn
  <1>2. recvBuf[r] \in Seq(Packet) /\ inbox[c] \in Seq(Packet)
    BY <1>1 DEF ReadInv, Room, Heard
  <1>3. PICK h \in Nat : h = Len(inbox[c])
    BY <1>2, LenProperties
  <1>4. Tagged(recvBuf[r], c, h)
    BY <1>1, <1>3 DEF Stream
  <1> DEFINE p == Head(recvBuf[r])
  <1>5. /\ p = <<c, h + 1>> /\ Tagged(Tail(recvBuf[r]), c, h + 1)
        /\ Len(recvBuf[r]) \in Nat /\ Len(Tail(recvBuf[r])) = Len(recvBuf[r]) - 1
    BY <1>2, <1>4, TailTagged
  <1>6. p \in Packet
    BY <1>2, HeadTailProperties
  <1>7. /\ recvBuf'[r] = Tail(recvBuf[r]) /\ \A s \in Session \ {r} : recvBuf'[s] = recvBuf[s]
        /\ inbox'[c] = Append(inbox[c], p) /\ \A d \in Conn \ {c} : inbox'[d] = inbox[d]
    BY <1>1 DEF ReadInv, Room, Heard
  <1> HIDE DEF p
  <1>8. /\ Len(inbox'[c]) = h + 1
        /\ \A i \in 1..h : inbox'[c][i] = inbox[c][i]
        /\ inbox'[c][h + 1] = <<c, h + 1>>
    BY <1>2, <1>3, <1>5, <1>6, <1>7, AppendProperties
  <1>9. Tagged(inbox'[c], c, 0)
    <2>1. \A i \in 1..h : inbox[c][i] = <<c, 0 + i>>
      BY <1>1, <1>3 DEF StreamInv, Tagged
    <2>2. ASSUME NEW i \in 1..(h + 1) PROVE inbox'[c][i] = <<c, 0 + i>>
      <3>1. i \in 1..h \/ i = h + 1
        OBVIOUS
      <3>2. 0 + (h + 1) = h + 1
        OBVIOUS
      <3>3. QED BY <1>8, <2>1, <3>1, <3>2
    <2>3. QED BY <1>8, <2>2 DEF Tagged
  <1>10. Stream(r)'
    <2>1. sock'[r] = c /\ read'[c] = read[c] /\ \A t \in IoThread : Storing(t, r)' <=> Storing(t, r)
      BY <1>1 DEF Storing
    <2>2. PICK b \in Nat : b = Len(recvBuf[r])
      BY <1>5
    <2>3. (h + 1) + (b - 1) = h + b
      OBVIOUS
    <2>4. Len(inbox'[c]) + Len(recvBuf'[r]) = h + b
      BY <1>5, <1>7, <1>8, <2>2, <2>3
    <2>5. \A t \in IoThread : Storing(t, r) => Tagged(io[t].got, c, h + b) /\ h + b + Len(io[t].got) = read[c]
      BY <1>1, <1>3, <2>2 DEF Stream
    <2>6. (\A t \in IoThread : ~Storing(t, r)) => h + b = read[c]
      BY <1>1, <1>3, <2>2 DEF Stream
    <2>7. Tagged(recvBuf'[r], c, Len(inbox'[c]))
      BY <1>5, <1>7, <1>8
    <2>8. QED BY <2>1, <2>4, <2>5, <2>6, <2>7 DEF Stream
  <1>11. ASSUME NEW s \in Session \ {r}, sock[s] # 0, Stream(s)
         PROVE  Stream(s)'
    <2>1. sock[s] \in Conn \ {c}
      BY <1>1, <1>11 DEF DataInv
    <2>2. inbox'[sock[s]] = inbox[sock[s]] /\ recvBuf'[s] = recvBuf[s]
      BY <1>7, <2>1
    <2>3. \A t \in IoThread : Storing(t, s)' <=> Storing(t, s)
      BY DEF Storing
    <2>4. QED BY <1>11, <2>2, <2>3, StreamSame
  <1>12. QED
    BY <1>1, <1>3, <1>5, <1>7, <1>9, <1>10, <1>11 DEF p, StreamInv

-----------------------------------------------------------------------------
\* A session keeps its socket, loses it, or gets a new one from the pool.
LEMMA SockUpdate ==
  ASSUME IInv, CountInv, DataInv, HeldInv, Connect \/ Update, NEW s \in Session
  PROVE  \/ sock'[s] = sock[s] \/ sock'[s] = 0
         \/ Connect /\ stage[s] = "free" /\ sock'[s] = made + 1 /\ made + 1 \in Conn
  <1>1. sock \in [Session -> Conn \cup {0}] /\ made \in Nat
    BY DEF DataInv
  <1>2. CASE Connect
    <2>1. /\ sock' = [sock EXCEPT ![Head(list["connectPool"])] = made + 1]
          /\ made < MaxConns
      BY <1>2 DEF Connect, At
    <2>2. stage[Head(list["connectPool"])] = "free"
      BY <1>2, StageUpdate DEF Becomes
    <2>3. made + 1 \in Conn
      BY <1>1, <2>1, SyncAssumption DEF Conn
    <2>4. QED BY <1>1, <1>2, <2>1, <2>2, <2>3
  <1>3. CASE RefuseAccepted \/ RefuseConnected \/ OnConnectFail \/ KickSession
    <2>1. \E r : sock' = [sock EXCEPT ![r] = 0]
      BY <1>3 DEF RefuseAccepted, RefuseConnected, OnConnectFail, KickSession, FailConnect, FreeSession,
                  CloseSocket
    <2>2. QED BY <1>1, <2>1
  <1>4. CASE ~Connect /\ ~(RefuseAccepted \/ RefuseConnected \/ OnConnectFail \/ KickSession)
    BY <1>4 DEF Update, UpdateBegin, CheckSession, RecvPacket, RecvMalformed, RecvDone,
                TakeAccepted, AddAccepted, OnAccept, JoinAccepted, TakeSuccess, AddConnected, OnConnect,
                JoinConnected, FailDone, ScanSession, ScanDone, OnDisconnect, UpdateEnd, sessVars
  <1>5. QED
    BY <1>2, <1>3, <1>4

\* A session in a pool in whose stream we are interested is clean.
LEMMA NewClean ==
  ASSUME IInv, CountInv, HeldInv, DataInv, CleanInv, NEW s \in Session, stage[s] = "free", Scope(s)
  PROVE  ~remove[s] /\ Unmentioned(s) /\ Empty(s)
  <1>1. ASSUME pc = "packets", s = Current PROVE FALSE
    <2>1. cur \in 1..Len(list["active"])
      <3>1. cur \in Nat \ {0} /\ cur <= Len(list["active"]) /\ Len(list["active"]) \in Nat
        BY <1>1, Lengths DEF HeldInv, IInv, Place
      <3>2. QED BY <3>1
    <2>2. where[s] = "active"
      BY <1>1, <2>1, Wheres DEF Current, Place
    <2>3. QED BY <2>2 DEF stage, StageAt
  <1>2. ~remove[s]
    BY <1>1 DEF Scope
  <1>3. QED
    BY <1>2 DEF CleanInv, Clean, Known

LEMMA StreamUpdate ==
  ASSUME IInv, CountInv, DataInv, HeldInv, BoundInv, PollInv, Alone, ReadInv, CleanInv, StreamInv,
         Connect \/ Update
  PROVE  StreamInv'
  <1>1. /\ UNCHANGED <<io, read>>
        /\ \A s \in Session : Scope(s)' => Scope(s)
        /\ BoundInv'
    BY UpdateLeaves, ScopeFlow, BoundUpdate DEF Next
  <1>2. \A t \in IoThread, s \in Session : Storing(t, s)' <=> Storing(t, s)
    BY <1>1 DEF Storing
  <1>3. CASE RecvPacket
    <2>1. /\ Current \in Session /\ recvBuf' = [recvBuf EXCEPT ![Current] = Tail(@)]
          /\ recvBuf[Current] # << >> /\ stage[Current] = "running"
          /\ inbox' = [inbox EXCEPT ![obj[Current]] = Append(@, Head(recvBuf[Current]))]
      BY <1>3, RecvShrinks
    <2>2. UNCHANGED sock /\ pc = "packets"
      BY <1>3 DEF RecvPacket
    <2>3. Stream(Current)
      BY <2>1, <2>2 DEF StreamInv, Scope, BoundInv, BoundByStage
    <2>4. PICK r \in Session : r = Current
      BY <2>1
    <2>5. /\ \A c \in Conn : Tagged(inbox'[c], c, 0)
          /\ \A s \in Session : sock[s] # 0 /\ Stream(s) => Stream(s)'
      BY <1>1, <2>1, <2>2, <2>3, <2>4, StreamHears
    <2>6. QED BY <1>1, <2>2, <2>5 DEF StreamInv
  <1>4. CASE ~RecvPacket
    <2>1. UNCHANGED inbox
      BY <1>4, Tells DEF Objects!Tell
    <2>2. ASSUME NEW s \in Session, sock'[s] # 0, Scope(s)'
          PROVE  Stream(s)'
      <3>1. Scope(s)
        BY <1>1, <2>2
      <3>2. CASE sock'[s] = sock[s]
        <4>1. Stream(s)
          BY <2>2, <3>1, <3>2 DEF StreamInv
        <4>2. CASE recvBuf'[s] = recvBuf[s]
          BY <1>1, <1>2, <2>1, <3>2, <4>1, <4>2, StreamSame
        <4>3. CASE recvBuf'[s] # recvBuf[s]
          <5>1. PICK r \in Session : /\ stage'[r] = "free" \/ stage[r] = "connect"
                                     /\ recvBuf' = [recvBuf EXCEPT ![r] = << >>]
            BY <1>4, <4>3, RecvShrinks
          <5>2. r = s
            BY <4>3, <5>1 DEF ReadInv, Room
          <5>3. stage'[s] # "free"
            BY <1>1, <2>2 DEF BoundInv, BoundByStage
          <5>4. stage[s] = "connect" /\ recvBuf'[s] = << >>
            BY <5>1, <5>2, <5>3 DEF ReadInv, Room
          <5>5. PICK c \in Conn : c = sock[s] /\ life[c] = "opening"
            BY <5>4 DEF BoundInv, BoundByStage, DataInv
          <5>6. inbox[c] = << >> /\ read[c] = 0
            BY <5>5 DEF ReadInv, Heard, Reads, DataInv
          <5>7. PICK b \in Nat : b = Len(recvBuf[s])
            BY LenProperties DEF ReadInv, Room
          <5>8. Len(inbox[c]) = 0 /\ \A n \in Nat : 0 + n = n
            BY <5>6
          <5>9. \A t \in IoThread : Storing(t, s) =>
                  Tagged(io[t].got, c, 0 + b) /\ 0 + b + Len(io[t].got) = 0
            BY <4>1, <5>5, <5>6, <5>7, <5>8 DEF Stream
          <5>10. (\A t \in IoThread : ~Storing(t, s)) => 0 + b = 0
            BY <4>1, <5>5, <5>6, <5>7, <5>8 DEF Stream
          <5>11. b = 0
            <6>1. ASSUME NEW t \in IoThread, Storing(t, s) PROVE b = 0
              <7>1. PICK n \in Nat : n = Len(io[t].got)
                BY LenProperties DEF ReadInv, Room
              <7>2. 0 + b + n = 0
                BY <5>9, <6>1, <7>1
              <7>3. QED BY <7>2
            <6>2. QED BY <5>10, <6>1
          <5>12. recvBuf[s] = << >>
            BY <5>7, <5>11, EmptySeq DEF ReadInv, Room
          <5>13. QED BY <4>3, <5>4, <5>12
        <4>4. QED BY <4>2, <4>3
      <3>3. CASE Connect /\ stage[s] = "free" /\ sock'[s] = made + 1 /\ made + 1 \in Conn
        <4>1. ~remove[s] /\ Unmentioned(s) /\ Empty(s)
          BY <3>1, <3>3, NewClean
        <4>2. UNCHANGED recvBuf
          BY <3>3 DEF Connect
        <4>3. made + 1 > made
          BY DEF DataInv
        <4>4. life[made + 1] = "none" /\ inbox[made + 1] = << >> /\ read[made + 1] = 0
          BY <3>3, <4>3 DEF BoundInv, Unused, ReadInv, Heard, Reads
        <4>5. QED
          BY <1>1, <2>1, <3>3, <4>1, <4>2, <4>4, StreamNew DEF Unmentioned, Empty
      <3>4. QED BY <2>2, <3>2, <3>3, SockUpdate
    <2>3. QED BY <2>1, <2>2 DEF StreamInv
  <1>5. QED
    BY <1>3, <1>4

\* The other threads.
LEMMA StreamGets ==
  ASSUME DataInv, BoundInv, PollInv, Alone, ReadInv, NEW t \in IoThread, RecvCall(t),
         UNCHANGED <<sock, inbox, recvBuf>>, NEW s \in Session, sock[s] # 0, Stream(s)
  PROVE  Stream(s)'
  <1>1. io[t].at = "recv" /\ io[t].at \notin Full /\ NULL \notin Session
    BY SyncAssumption DEF RecvCall, Full
  <1>2. CASE Stops(t) /\ UNCHANGED read
    <2>1. \A u \in IoThread : (Storing(u, s)' <=> Storing(u, s)) /\ (Storing(u, s) => io'[u].got = io[u].got)
      BY <1>1, <1>2 DEF Stops, Does, Storing, Full
    <2>2. QED BY <1>2, <2>1, StreamSame
  <1>3. ASSUME NEW c \in Conn, NEW n \in Nat, Gets(t, c, n)
        PROVE  Stream(s)'
    <2> DEFINE got == [i \in 1..n |-> <<c, read[c] + i>>]
    <2>1. PICK at \in Full : Does(t, at, io[t].s, got)
      BY <1>3 DEF Gets, Full
    <2>2. c = sock[io[t].s] /\ read' = [read EXCEPT ![c] = read[c] + n] /\ io[t].s \in Session
      BY <1>1, <1>3 DEF Gets, PollInv, IoNames
    <2>3. CASE io[t].s # s
      <3>1. c # sock[s] /\ sock[s] \in Conn
        BY <2>2, <2>3 DEF BoundInv, Distinct, DataInv
      <3>2. read'[sock[s]] = read[sock[s]]
        BY <2>2, <3>1 DEF ReadInv, Reads
      <3>3. \A u \in IoThread : (Storing(u, s)' <=> Storing(u, s)) /\ (Storing(u, s) => io'[u].got = io[u].got)
        BY <2>1, <2>3 DEF Does, Storing
      <3>4. QED BY <3>2, <3>3, StreamSame
    <2>4. CASE io[t].s = s
      <3>1. PICK h \in Nat, b \in Nat : h = Len(inbox[c]) /\ b = Len(recvBuf[s])
        BY LenProperties DEF ReadInv, Heard, Room
      <3>2. \A u \in IoThread : ~Storing(u, s)
        BY <1>1, <2>4 DEF Storing, Alone, Full, Unlocked
      <3>3. Tagged(recvBuf[s], c, h) /\ h + b = read[c]
        BY <2>2, <2>4, <3>1, <3>2 DEF Stream
      <3>4. PICK r \in Nat : r = read[c]
        BY DEF ReadInv, Reads
      <3>5. got = [i \in 1..n |-> <<c, r + i>>]
        BY <3>4
      <3> HIDE DEF got
      <3>6. Len(got) = n /\ Tagged(got, c, r)
        <4>1. Len(got) = n
          BY <3>5
        <4>2. \A i \in 1..n : got[i] = <<c, r + i>>
          BY <3>5
        <4>3. QED BY <4>1, <4>2 DEF Tagged
      <3>7. read'[c] = r + n
        BY <2>2, <3>4 DEF ReadInv, Reads
      <3>8. io'[t].got = got /\ io'[t].s = s /\ io'[t].at \in Full
            /\ \A u \in IoThread \ {t} : ~Storing(u, s)'
        BY <2>1, <2>4, <3>2 DEF Does, Storing
      <3>9. ASSUME NEW u \in IoThread, Storing(u, s)'
            PROVE  Tagged(io'[u].got, c, h + b) /\ h + b + Len(io'[u].got) = read'[c]
        <4>1. u = t
          BY <3>8, <3>9
        <4>2. h + b = r
          BY <3>3, <3>4
        <4>3. QED BY <3>6, <3>7, <3>8, <4>1, <4>2
      <3>10. Storing(t, s)'
        BY <3>8 DEF Storing
      <3>11. Len(inbox'[c]) = h /\ Len(recvBuf'[s]) = b /\ sock'[s] = c /\ recvBuf'[s] = recvBuf[s]
        BY <2>2, <2>4, <3>1
      <3>12. QED
        BY <3>3, <3>9, <3>10, <3>11 DEF Stream
    <2>5. QED BY <2>3, <2>4
  <1>4. QED
    BY <1>2, <1>3, RecvCallDoes

-----------------------------------------------------------------------------
LEMMA StreamStores ==
  ASSUME DataInv, PollInv, Alone, ReadInv, NEW t \in IoThread, RecvStore(t),
         UNCHANGED <<sock, inbox>>, NEW s \in Session, sock[s] # 0, Stream(s)
  PROVE  Stream(s)'
  <1>1. /\ io[t].at \in Full /\ io[t].at \notin Unlocked /\ io[t].s \in Session /\ UNCHANGED read
        /\ recvBuf' = [recvBuf EXCEPT ![io[t].s] = recvBuf[io[t].s] \o io[t].got]
    BY RoomStores DEF RecvStore, Full, Unlocked, ReadInv
  <1>2. PICK at \in {"again", "idle"}, r \in {io[t].s, NULL} : Does(t, at, r, << >>)
    BY IoDoes DEF Stops
  <1>3. CASE io[t].s # s
    <2>1. recvBuf'[s] = recvBuf[s] /\ NULL \notin Session
      BY <1>1, <1>3, SyncAssumption DEF ReadInv, Room
    <2>2. \A u \in IoThread : (Storing(u, s)' <=> Storing(u, s)) /\ (Storing(u, s) => io'[u].got = io[u].got)
      BY <1>2, <1>3, <2>1 DEF Does, Storing
    <2>3. QED BY <1>1, <2>1, <2>2, StreamSame
  <1>4. CASE io[t].s = s
    <2>1. PICK c \in Conn : c = sock[s]
      BY DEF DataInv
    <2>2. PICK h \in Nat, b \in Nat, n \in Nat :
            h = Len(inbox[c]) /\ b = Len(recvBuf[s]) /\ n = Len(io[t].got)
      BY LenProperties DEF ReadInv, Heard, Room
    <2>3. Storing(t, s)
      BY <1>1, <1>4 DEF Storing
    <2>4. Tagged(recvBuf[s], c, h) /\ Tagged(io[t].got, c, h + b) /\ h + b + n = read[c]
      BY <2>1, <2>2, <2>3 DEF Stream
    <2>5. recvBuf[s] \in Seq(Packet) /\ io[t].got \in Seq(Packet)
      BY DEF ReadInv, Room
    <2>6. recvBuf'[s] = recvBuf[s] \o io[t].got
      BY <1>1, <1>4 DEF ReadInv, Room
    <2>7. Tagged(recvBuf'[s], c, h) /\ Len(recvBuf'[s]) = b + n
      <3>1. Tagged(io[t].got, c, h + Len(recvBuf[s])) /\ Len(recvBuf[s]) = b /\ Len(io[t].got) = n
        BY <2>2, <2>4
      <3>2. /\ Tagged(recvBuf[s] \o io[t].got, c, h)
            /\ Len(recvBuf[s] \o io[t].got) = Len(recvBuf[s]) + Len(io[t].got)
        BY <2>4, <2>5, <3>1, ConcatTagged
      <3>3. QED BY <2>6, <3>1, <3>2
    <2>8. ASSUME NEW u \in IoThread PROVE ~Storing(u, s)'
      <3>1. CASE u = t
        BY <1>2, <3>1 DEF Does, Storing, Full
      <3>2. CASE u # t
        <4>1. ~Storing(u, s)
          BY <1>1, <1>4, <3>2 DEF Alone, Storing, Full, Unlocked
        <4>2. QED BY <1>2, <3>2, <4>1 DEF Does, Storing
      <3>3. QED BY <3>1, <3>2
    <2>9. h + (b + n) = h + b + n
      OBVIOUS
    <2>10. Len(inbox'[c]) = h /\ sock'[s] = c /\ read'[c] = read[c]
      BY <1>1, <2>1, <2>2
    <2>11. QED BY <2>4, <2>7, <2>8, <2>9, <2>10 DEF Stream
  <1>5. QED
    BY <1>3, <1>4

LEMMA StreamThreads ==
  ASSUME IInv, CountInv, DataInv, HeldInv, BoundInv, PollInv, Alone, ReadInv, CleanInv, StreamInv,
         Threads
  PROVE  StreamInv'
  <1>1. /\ UNCHANGED inbox
        /\ \A s \in Session : Scope(s)' => Scope(s)
    BY ThreadsLeave, ScopeFlow DEF Next, Threads
  <1>2. ASSUME NEW s \in Session, sock'[s] # 0, Scope(s)'
        PROVE  Stream(s)'
    <2>1. Scope(s) /\ (sock[s] # 0 => Stream(s))
      BY <1>1, <1>2 DEF StreamInv
    <2>2. CASE AcceptSocket \/ ConnectThread \/ EpollWait \/ EpollHandle \/ PreSend \/ Peer
      <3>1. UNCHANGED <<io, recvBuf, read>>
        BY <2>2, OthersLeave
      <3>2. UNCHANGED sock
        BY <2>2 DEF AcceptSocket, ConnectThread, ConnectWait, ConnectTake, ConnectDone, ConnectDrained,
                    EpollWait, EpollHandle, PreSend, Peer, PeerSend, PeerLeave, PeerDrain, sessVars
      <3>3. QED BY <1>1, <1>2, <2>1, <3>1, <3>2, StreamSame DEF Storing
    <2>3. CASE AcceptPush
      <3>1. UNCHANGED <<io, recvBuf, read>>
        BY <2>3, OthersLeave
      <3>2. sock' = [sock EXCEPT ![Head(list["acceptor"])] = accSock] /\ accSock # 0
        BY <2>3 DEF AcceptPush, At1
      <3>3. stage[Head(list["acceptor"])] = "free" /\ Head(list["acceptor"]) \in Session
        BY <2>3, StageThreads DEF Becomes
      <3>4. CASE s = Head(list["acceptor"])
        <4>1. Unmentioned(s) /\ Empty(s)
          BY <2>1, <3>3, <3>4, NewClean
        <4>2. sock'[s] = accSock /\ accSock \in Conn
          BY <3>2, <3>4 DEF DataInv
        <4>3. inbox[accSock] = << >> /\ read[accSock] = 0
          BY <3>2, <4>2 DEF BoundInv, Unused, ReadInv, Heard, Reads
        <4>4. QED
          BY <1>1, <3>1, <4>1, <4>2, <4>3, StreamNew DEF Unmentioned, Empty
      <3>5. CASE s # Head(list["acceptor"])
        <4>1. sock'[s] = sock[s]
          BY <3>2, <3>5 DEF DataInv
        <4>2. QED BY <1>1, <1>2, <2>1, <3>1, <4>1, StreamSame DEF Storing
      <3>6. QED BY <3>4, <3>5
    <2>4. ASSUME NEW t \in IoThread, IoTake(t) \/ IoStep(t)
          PROVE  Stream(s)'
      <3>1. UNCHANGED sock /\ sock[s] # 0 /\ Stream(s)
        BY <1>2, <2>1, <2>4 DEF IoTake, IoStep, RecvCheck, RecvCall, RecvStore, SendCheck, SendCall, sessVars
      <3>2. CASE RecvCall(t)
        <4>1. UNCHANGED recvBuf
          BY <3>2 DEF RecvCall
        <4>2. QED BY <1>1, <3>1, <3>2, <4>1, StreamGets
      <3>3. CASE RecvStore(t)
        BY <1>1, <3>1, <3>3, StreamStores
      <3>4. CASE IoTake(t) \/ RecvCheck(t) \/ SendCheck(t) \/ SendCall(t)
        <4>1. UNCHANGED <<recvBuf, read>>
          BY <3>4 DEF IoTake, RecvCheck, SendCheck, SendCall, sessVars, peerVars
        <4>2. \E at, r : Does(t, at, r, << >>) /\ at \notin Full
          <5>1. \E at \in {"took recv", "took send", "send", "recv", "idle"} : \E r : Does(t, at, r, << >>)
            BY <3>4, IoDoes DEF Stops
          <5>2. QED BY <5>1 DEF Full
        <4>3. io[t].at \notin Full
          <5>1. IoTake(t) => io[t].at = "idle"
            BY DEF IoTake, Idle
          <5>2. RecvCheck(t) => io[t].at \in {"took recv", "again"}
            BY DEF RecvCheck
          <5>3. SendCheck(t) \/ SendCall(t) => io[t].at \in {"took send", "send"}
            BY DEF SendCheck, SendCall
          <5>4. QED BY <3>4, <5>1, <5>2, <5>3 DEF Full
        <4>4. \A u \in IoThread : (Storing(u, s)' <=> Storing(u, s)) /\ (Storing(u, s) => io'[u].got = io[u].got)
          BY <4>2, <4>3 DEF Does, Storing
        <4>5. QED BY <1>1, <3>1, <4>1, <4>4, StreamSame
      <3>5. QED BY <2>4, <3>2, <3>3, <3>4 DEF IoStep
    <2>5. QED BY <2>2, <2>3, <2>4 DEF Threads
  <1>3. QED
    BY <1>1, <1>2 DEF StreamInv

LEMMA StreamHolds == Spec => []StreamInv
  <1>1. Init => StreamInv
    BY DEF Init, StreamInv, Tagged
  <1>2. IInv /\ CountInv /\ DataInv /\ HeldInv /\ BoundInv /\ PollInv /\ Alone /\ ReadInv /\ CleanInv
          /\ StreamInv /\ [Next]_vars => StreamInv'
    <2>1. ASSUME UNCHANGED vars, StreamInv PROVE StreamInv'
      BY <2>1 DEF vars, sessVars, objVars, mainVars, ioVars, peerVars, StreamInv, Stream, Scope, Storing,
                  Current
    <2>2. QED
      BY <2>1, StreamUpdate, StreamThreads DEF Next, Threads
  <1>3. QED
    BY <1>1, <1>2, IInvHolds, CountInvHolds, DataHolds, HeldHolds, BoundHolds, PollHolds, AloneHolds,
       ReadHolds, CleanHolds, PTL DEF Spec

-----------------------------------------------------------------------------
LEMMA Untagged ==
  ASSUME NEW q \in Seq(Packet), NEW c, NEW n \in Nat, Tagged(q, c, 0), Len(q) = n
  PROVE  q = [i \in 1..n |-> <<c, i>>]
  <1>1. q = [i \in 1..n |-> q[i]]
    OBVIOUS
  <1>2. \A i \in 1..n : q[i] = <<c, 0 + i>> /\ 0 + i = i
    BY DEF Tagged
  <1>3. \A i \in 1..n : q[i] = <<c, i>>
    BY <1>2
  <1>4. QED
    BY <1>1, <1>3

\* Until a session is removed, what its object has heard, what is in its ring and
\* what an io thread is about to store are, in this order, all that was read from
\* its socket, in whatever pieces recv() hands it over and however many io threads
\* work for the session (Session.cpp:93-119, 183-230).
THEOREM StreamIsIntact == Spec => []StreamIntact
  <1>1. IInv /\ DataInv /\ BoundInv /\ PollInv /\ Alone /\ ReadInv /\ StreamInv => StreamIntact
    <2> SUFFICES ASSUME IInv, DataInv, BoundInv, PollInv, Alone, ReadInv, StreamInv,
                        NEW s \in On("active") \cup On("joining"), ~remove[s]
                 PROVE  inbox[sock[s]] \o recvBuf[s] \o InFlight(s)
                          = [i \in 1..read[sock[s]] |-> <<sock[s], i>>]
      BY DEF StreamIntact
    <2>1. s \in Session /\ stage[s] = "running"
      BY Wheres DEF On, Place, stage, StageAt
    <2>2. PICK c \in Conn : c = sock[s] /\ c # 0
      BY <2>1 DEF BoundInv, BoundByStage, DataInv
    <2>3. Stream(s)
      BY <2>1, <2>2 DEF StreamInv, Scope
    <2>4. /\ inbox[c] \in Seq(Packet) /\ recvBuf[s] \in Seq(Packet) /\ Tagged(inbox[c], c, 0)
          /\ read[c] \in Nat /\ \A t \in IoThread : io[t].got \in Seq(Packet)
      BY <2>1 DEF ReadInv, Heard, Room, Reads, StreamInv
    <2>5. PICK h \in Nat, b \in Nat : h = Len(inbox[c]) /\ b = Len(recvBuf[s])
      BY <2>4, LenProperties
    <2>6. Tagged(recvBuf[s], c, 0 + h) /\ Tagged(recvBuf[s], c, h)
      BY <2>2, <2>3, <2>5 DEF Stream
    <2> DEFINE both == inbox[c] \o recvBuf[s]
    <2>7. Tagged(both, c, 0) /\ both \in Seq(Packet) /\ Len(both) = h + b
      BY <2>4, <2>5, <2>6, ConcatTagged
    <2> HIDE DEF both
    <2>8. CASE \A t \in IoThread : ~(io[t].s = s /\ io[t].got # << >>)
      <3>1. InFlight(s) = << >>
        <4>1. {t \in IoThread : io[t].s = s /\ io[t].got # << >>} = {}
          BY <2>8
        <4>2. QED BY <4>1 DEF InFlight
      <3>2. h + b = read[c]
        <4>1. CASE \A t \in IoThread : ~Storing(t, s)
          BY <2>2, <2>3, <2>5, <4>1 DEF Stream
        <4>2. ASSUME NEW t \in IoThread, Storing(t, s) PROVE h + b = read[c]
          <5>1. Len(io[t].got) = 0
            BY <2>8, <4>2 DEF Storing
          <5>2. h + b + 0 = read[c]
            BY <2>2, <2>3, <2>5, <4>2, <5>1 DEF Stream
          <5>3. QED BY <5>2
        <4>3. QED BY <4>1, <4>2
      <3>3. both \o << >> = both
        BY <2>7, ConcatEmptySeq
      <3>4. both = [i \in 1..read[c] |-> <<c, i>>]
        BY <2>4, <2>7, <3>2, Untagged
      <3>5. QED BY <2>2, <3>1, <3>3, <3>4 DEF both
    <2>9. ASSUME NEW t \in IoThread, io[t].s = s, io[t].got # << >>
          PROVE  inbox[c] \o recvBuf[s] \o InFlight(s) = [i \in 1..read[c] |-> <<c, i>>]
      <3>1. Storing(t, s) /\ io[t].at \notin Unlocked
        BY <2>9 DEF PollInv, IoNames, Storing, Full, Unlocked
      <3>2. \A u \in IoThread : io[u].s = s /\ io[u].got # << >> => u = t
        BY <2>9, <3>1 DEF PollInv, IoNames, Alone, Full, Unlocked
      <3>3. InFlight(s) = io[t].got
        <4>1. {u \in IoThread : io[u].s = s /\ io[u].got # << >>} = {t}
          BY <2>9, <3>2
        <4>2. (CHOOSE u \in {t} : TRUE) = t
          OBVIOUS
        <4>3. QED BY <4>1, <4>2 DEF InFlight
      <3>4. PICK n \in Nat : n = Len(io[t].got)
        BY <2>4, LenProperties
      <3>5. Tagged(io[t].got, c, h + b) /\ h + b + n = read[c]
        BY <2>2, <2>3, <2>5, <3>1, <3>4 DEF Stream
      <3>6. 0 + (h + b) = h + b
        OBVIOUS
      <3>7. Tagged(io[t].got, c, 0 + Len(both))
        BY <2>7, <3>5, <3>6
      <3>8. Tagged(both \o io[t].got, c, 0) /\ both \o io[t].got \in Seq(Packet)
            /\ Len(both \o io[t].got) = h + b + n
        BY <2>4, <2>7, <3>4, <3>7, ConcatTagged
      <3>9. both \o io[t].got = [i \in 1..read[c] |-> <<c, i>>]
        <4>1. Len(both \o io[t].got) = read[c]
          BY <3>5, <3>8
        <4>2. QED BY <2>4, <3>8, <4>1, Untagged, ZenonT(60)
      <3>10. QED BY <3>3, <3>9 DEF both
    <2>10. QED BY <2>2, <2>8, <2>9
  <1>2. QED
    BY <1>1, IInvHolds, DataHolds, BoundHolds, PollHolds, AloneHolds, ReadHolds, StreamHolds, PTL

-----------------------------------------------------------------------------
\* Why m_bComplete is unset: an io thread is in send(), or has come out of it
\* with an error, which only a reset connection gives.
Sending(s) == \E t \in IoThread : io[t].s = s /\ io[t].at = "send"

Reset(s) == sock[s] # 0 /\ peer[sock[s]] = "rst"

SendInv ==
  /\ peer \in [Conn -> {"none", "up", "fin", "rst"}]
  /\ \A s \in Session : ~remove[s] /\ ~complete[s] => Sending(s) \/ Reset(s)

\* A session that would be stuck is one epoll knows, so it has a socket.
LEMMA StuckIsKnown ==
  ASSUME BoundInv, CleanInv, NEW s \in Session, ~remove[s], ~complete[s]
  PROVE  stage[s] \in Known /\ sock[s] # 0
  <1>1. stage[s] \in Known
    BY DEF CleanInv, Clean, Empty
  <1>2. QED
    BY <1>1 DEF Known, BoundInv, BoundByStage

\* A connection that is reset stays so.
LEMMA PeerKept ==
  ASSUME IInv, CountInv, DataInv, HeldInv, BoundInv, CleanInv, SendInv, Next,
         NEW s \in Session, ~remove[s], ~complete[s]
  PROVE  /\ peer' \in [Conn -> {"none", "up", "fin", "rst"}]
         /\ peer[sock[s]] = "rst" => peer'[sock[s]] = "rst"
  <1>1. stage[s] \in Known /\ sock[s] \in Conn /\ peer \in [Conn -> {"none", "up", "fin", "rst"}]
    BY StuckIsKnown DEF DataInv, SendInv
  <1>2. CASE Connect \/ Update
    BY <1>1, <1>2, UpdateLeaves
  <1>3. CASE AcceptSocket
    <2>1. peer' = [peer EXCEPT ![made + 1] = "up"]
      BY <1>3 DEF AcceptSocket
    <2>2. sock[s] # made + 1
      BY SyncAssumption DEF BoundInv, Distinct, DataInv, Conn
    <2>3. QED BY <1>1, <2>1, <2>2
  <1>4. CASE ConnectThread
    <2>1. CASE UNCHANGED peer
      BY <1>1, <2>1
    <2>2. CASE ConnectDone("success")
      <3>1. peer' = [peer EXCEPT ![sock[Head(list["connector"])]] = "up"] /\ list["connector"] # << >>
        BY <2>2 DEF ConnectDone, At1
      <3>2. /\ Head(list["connector"]) \in Session
            /\ Head(list["connector"]) = list["connector"][1] /\ 1 \in 1..Len(list["connector"])
        BY <3>1, HeadIn DEF Place
      <3>3. where[Head(list["connector"])] = "connector"
        BY <3>2, Wheres DEF Place
      <3>4. stage[Head(list["connector"])] = "opening"
        BY <3>2, <3>3 DEF stage, StageAt
      <3>5. s # Head(list["connector"])
        BY <1>1, <3>4 DEF Known
      <3>6. sock[Head(list["connector"])] # sock[s]
        BY <1>1, <3>2, <3>5, SyncAssumption DEF BoundInv, Distinct, Conn
      <3>7. QED BY <1>1, <3>1, <3>6
    <2>3. QED BY <1>4, <2>1, <2>2
           DEF ConnectThread, ConnectWait, ConnectTake, ConnectDone, ConnectDrained, peerVars
  <1>5. CASE Peer
    <2>1. \/ UNCHANGED peer
          \/ \E c \in Conn : \E how \in {"fin", "rst"} :
               peer[c] = "up" /\ peer' = [peer EXCEPT ![c] = how]
      BY <1>5 DEF Peer, PeerSend, PeerLeave, PeerDrain, peerVars
    <2>2. QED BY <1>1, <2>1
  <1>6. CASE AcceptPush \/ EpollWait \/ EpollHandle \/ PreSend
             \/ \E t \in IoThread : IoTake(t) \/ IoStep(t)
    <2>1. UNCHANGED peer
      BY <1>6 DEF AcceptPush, EpollWait, EpollHandle, PreSend, IoTake, IoStep, RecvCheck, RecvCall,
                  RecvStore, SendCheck, SendCall, peerVars
    <2>2. QED BY <1>1, <2>1
  <1>7. QED
    BY <1>2, <1>3, <1>4, <1>5, <1>6 DEF Next

\* The main thread sets m_bComplete, and never unsets it.
LEMMA CompleteUpdate ==
  ASSUME DataInv, Connect \/ Update, NEW s \in Session, complete[s]
  PROVE  complete'[s]
  <1>1. \/ UNCHANGED complete
        \/ \E r : complete' = [complete EXCEPT ![r] = TRUE]
    <2>1. CASE RefuseAccepted \/ RefuseConnected \/ OnConnectFail \/ KickSession \/ OnConnect
      BY <2>1 DEF RefuseAccepted, RefuseConnected, OnConnectFail, KickSession, FailConnect, OnConnect,
                  FreeSession, InitSession
    <2>2. CASE ~(RefuseAccepted \/ RefuseConnected \/ OnConnectFail \/ KickSession \/ OnConnect)
      BY <2>2 DEF Connect, Update, UpdateBegin, CheckSession, RecvPacket, RecvMalformed, RecvDone,
                  TakeAccepted, AddAccepted, OnAccept, JoinAccepted, TakeSuccess, AddConnected,
                  JoinConnected, FailDone, ScanSession, ScanDone, OnDisconnect, UpdateEnd, sessVars
    <2>3. QED BY <2>1, <2>2
  <1>2. QED
    BY <1>1 DEF DataInv

\* An io thread that unsets it goes into send().
LEMMA SendSteps ==
  ASSUME DataInv, PollInv, SendInv, NEW t \in IoThread, IoTake(t) \/ IoStep(t),
         NEW s \in Session, ~remove[s], ~complete'[s], sock[s] # 0
  PROVE  Sending(s)' \/ Reset(s)
  <1>1. complete \in [Session -> BOOLEAN]
    BY DEF DataInv
  <1>2. \A u \in IoThread \ {t} : io'[u] = io[u]
    BY IoMoves
  <1>3. CASE SendCheck(t)
    <2>1. io[t].at = "took send"
      BY <1>3 DEF SendCheck
    <2>2. CASE complete[s]
      <3>1. /\ io' = [io EXCEPT ![t].at = "send"]
            /\ complete' = [complete EXCEPT ![io[t].s] = FALSE]
        BY <1>3, <2>2 DEF SendCheck
      <3>2. s = io[t].s
        BY <1>1, <2>2, <3>1
      <3>3. io'[t].at = "send" /\ io'[t].s = io[t].s
        BY <3>1 DEF PollInv, IoNames
      <3>4. QED BY <3>2, <3>3 DEF Sending
    <2>3. CASE ~complete[s]
      <3>1. Sending(s) \/ Reset(s)
        BY <2>3 DEF SendInv
      <3>2. Sending(s) => Sending(s)'
        BY <1>2, <2>1 DEF Sending
      <3>3. QED BY <3>1, <3>2
    <2>4. QED BY <2>2, <2>3
  <1>4. CASE SendCall(t)
    <2>1. io[t].at = "send" /\ io[t].s \in Session
      BY <1>4 DEF SendCall, PollInv, IoNames
    <2>2. CASE io[t].s = s
      <3>1. ~Writable(sock[s])
        BY <1>1, <1>4, <2>2 DEF SendCall, SendSome, SendBlocks, SendFails
      <3>2. QED BY <3>1 DEF Writable, Reset
    <2>3. CASE io[t].s # s
      <3>1. ~complete[s]
        BY <1>1, <1>4, <2>3 DEF SendCall, SendSome, SendBlocks, SendFails
      <3>2. Sending(s) => Sending(s)'
        BY <1>2, <2>3 DEF Sending
      <3>3. QED BY <3>1, <3>2 DEF SendInv
    <2>4. QED BY <2>2, <2>3
  <1>5. CASE IoTake(t) \/ RecvCheck(t) \/ RecvCall(t) \/ RecvStore(t)
    <2>1. UNCHANGED complete
      BY <1>5 DEF IoTake, RecvCheck, RecvCall, RecvStore, sessVars
    <2>2. io[t].at # "send"
      <3>1. Idle.at = "idle"
        BY DEF Idle
      <3>2. IoTake(t) => io[t].at = "idle"
        BY <3>1 DEF IoTake
      <3>3. RecvCheck(t) => io[t].at \in {"took recv", "again"}
        BY DEF RecvCheck
      <3>4. RecvCall(t) \/ RecvStore(t) => io[t].at \in {"recv", "stored", "stored, full"}
        BY DEF RecvCall, RecvStore
      <3>5. QED BY <1>5, <3>2, <3>3, <3>4
    <2>3. Sending(s) => Sending(s)'
      BY <1>2, <2>2 DEF Sending
    <2>4. QED BY <2>1, <2>3 DEF SendInv
  <1>6. QED
    BY <1>3, <1>4, <1>5 DEF IoStep

LEMMA SendStep ==
  ASSUME IInv, CountInv, DataInv, HeldInv, BoundInv, PollInv, CleanInv, SendInv, Next,
         DataInv', BoundInv', CleanInv'
  PROVE  SendInv'
  <1>1. ASSUME NEW s \in Session, ~remove'[s], ~complete'[s]
        PROVE  Sending(s)' \/ Reset(s)'
    <2>1. ~remove[s]
      BY <1>1, DataStep DEF RemoveGrows
    <2>2. stage'[s] \in Known /\ sock'[s] # 0
      BY <1>1 DEF CleanInv, Clean, Empty, Known, BoundInv, BoundByStage
    <2>3. CASE Connect \/ Update
      <3>1. ~complete[s]
        BY <1>1, <2>3, CompleteUpdate
      <3>2. stage[s] \in Known
        BY <2>1, <3>1, StuckIsKnown
      <3>3. sock'[s] = sock[s]
        BY <2>2, <2>3, <3>2, SockUpdate DEF Known
      <3>4. Sending(s) => Sending(s)'
        BY <2>3, UpdateLeaves DEF Sending
      <3>5. Reset(s) => Reset(s)'
        BY <2>1, <2>2, <3>1, <3>3, PeerKept DEF Reset
      <3>6. QED BY <2>1, <3>1, <3>4, <3>5 DEF SendInv
    <2>4. CASE AcceptSocket \/ AcceptPush \/ ConnectThread \/ EpollWait \/ EpollHandle \/ PreSend
               \/ Peer
      <3>1. UNCHANGED <<io, complete>>
        BY <2>4, OthersLeave
      <3>2. stage[s] \in Known
        BY <1>1, <2>1, <3>1, StuckIsKnown
      <3>3. sock'[s] = sock[s]
        <4>1. CASE AcceptPush
          <5>1. sock' = [sock EXCEPT ![Head(list["acceptor"])] = accSock]
            BY <4>1 DEF AcceptPush, At1
          <5>2. stage[Head(list["acceptor"])] = "free"
            BY <4>1, StageThreads DEF Becomes
          <5>3. QED BY <3>2, <5>1, <5>2 DEF Known, DataInv
        <4>2. CASE ~AcceptPush
          BY <2>4, <4>2 DEF AcceptSocket, ConnectThread, ConnectWait, ConnectTake, ConnectDone,
               ConnectDrained, EpollWait, EpollHandle, PreSend, Peer, PeerSend, PeerLeave, PeerDrain,
               sessVars
        <4>3. QED BY <4>1, <4>2
      <3>4. Sending(s) => Sending(s)'
        BY <3>1 DEF Sending
      <3>5. Reset(s) => Reset(s)'
        BY <1>1, <2>1, <3>1, <3>3, PeerKept DEF Reset
      <3>6. QED BY <1>1, <2>1, <3>1, <3>4, <3>5 DEF SendInv
    <2>5. ASSUME NEW t \in IoThread, IoTake(t) \/ IoStep(t)
          PROVE  Sending(s)' \/ Reset(s)'
      <3>1. UNCHANGED <<sock, peer>>
        BY <2>5 DEF IoTake, IoStep, RecvCheck, RecvCall, RecvStore, SendCheck, SendCall, sessVars,
                    peerVars
      <3>2. Sending(s)' \/ Reset(s)
        BY <1>1, <2>1, <2>2, <2>5, <3>1, SendSteps
      <3>3. QED BY <3>1, <3>2 DEF Reset
    <2>6. QED BY <2>3, <2>4, <2>5 DEF Next
  <1>2. peer' \in [Conn -> {"none", "up", "fin", "rst"}]
    <2>1. CASE UNCHANGED peer
      BY <2>1 DEF SendInv
    <2>2. ASSUME NEW c, NEW how \in {"up", "fin", "rst"}, peer' = [peer EXCEPT ![c] = how]
          PROVE  peer' \in [Conn -> {"none", "up", "fin", "rst"}]
      BY <2>2 DEF SendInv
    <2>3. \/ UNCHANGED peer
          \/ \E c : \E how \in {"up", "fin", "rst"} : peer' = [peer EXCEPT ![c] = how]
      <3>1. CASE AcceptSocket \/ ConnectThread \/ Peer
        BY <3>1 DEF AcceptSocket, ConnectThread, ConnectWait, ConnectTake, ConnectDone, ConnectDrained,
                    Peer, PeerSend, PeerLeave, PeerDrain, peerVars
      <3>2. CASE AcceptPush \/ EpollWait \/ EpollHandle \/ PreSend
                 \/ \E t \in IoThread : IoTake(t) \/ IoStep(t)
        BY <3>2 DEF AcceptPush, EpollWait, EpollHandle, PreSend, IoTake, IoStep, RecvCheck, RecvCall,
                    RecvStore, SendCheck, SendCall, peerVars
      <3>3. CASE Connect \/ Update
        BY <3>3, UpdateLeaves
      <3>4. QED BY <3>1, <3>2, <3>3 DEF Next
    <2>4. QED BY <2>1, <2>2, <2>3
  <1>3. QED
    BY <1>1, <1>2 DEF SendInv

LEMMA SendHolds == Spec => []SendInv
  <1>1. Init => SendInv
    BY DEF Init, SendInv
  <1>2. /\ IInv /\ CountInv /\ DataInv /\ HeldInv /\ BoundInv /\ PollInv /\ CleanInv /\ SendInv
        /\ [Next]_vars /\ DataInv' /\ BoundInv' /\ CleanInv'
        => SendInv'
    <2>1. ASSUME UNCHANGED vars, SendInv PROVE SendInv'
      BY <2>1 DEF vars, sessVars, ioVars, peerVars, SendInv, Sending, Reset
    <2>2. QED
      BY <2>1, SendStep
  <1>3. QED
    BY <1>1, <1>2, IInvHolds, CountInvHolds, DataHolds, HeldHolds, BoundHolds, PollHolds, CleanHolds,
       PTL DEF Spec

\* While a session runs and its peer has not reset the connection, m_bComplete is
\* unset only as long as an io thread is inside DoSend for it, so that no order of
\* the io, send and main threads stops its sends for good (SendBuffer.h:22-38,
\* Session.cpp:129-181).
THEOREM SendIsNotStuck == Spec => []SendNotStuck
  <1>1. IInv /\ SendInv => SendNotStuck
    <2> SUFFICES ASSUME IInv, SendInv,
                        NEW s \in On("active") \cup On("joining"),
                        ~complete[s], ~remove[s], peer[sock[s]] # "rst"
                 PROVE  \E t \in IoThread : io[t].s = s /\ io[t].at = "send"
      BY DEF SendNotStuck
    <2>1. s \in Session
      BY Wheres DEF On, Place
    <2>2. QED BY <2>1 DEF SendInv, Sending, Reset
  <1>2. QED
    BY <1>1, IInvHolds, SendHolds, PTL

-----------------------------------------------------------------------------
\* What the main thread tells an object, and lets it hear, is what NetworkObjects
\* allows, and no other thread tells an object anything.
LEMMA ObjectsStep ==
  ASSUME IInv, CountInv, DataInv, HeldInv, BoundInv, PollInv, Alone, ReadInv, CleanInv, StreamInv, Next
  PROVE  Objects!Next \/ UNCHANGED <<life, inbox>>
  <1>1. CASE Threads
    BY <1>1, ThreadsLeave
  <1>2. CASE RecvPacket
    <2>1. PICK r \in Session : r = Current
      BY <1>2, RecvShrinks DEF Update
    <2>2. /\ recvBuf' = [recvBuf EXCEPT ![r] = Tail(@)] /\ recvBuf[r] # << >> /\ stage[r] = "running"
          /\ inbox' = [inbox EXCEPT ![obj[r]] = Append(@, Head(recvBuf[r]))]
      BY <1>2, <2>1, RecvShrinks DEF Update
    <2>3. UNCHANGED <<io, read, sock, life>> /\ pc = "packets"
      BY <1>2, UpdateLeaves DEF RecvPacket, Update
    <2>4. Stream(r)
      BY <2>1, <2>2, <2>3 DEF StreamInv, Scope, BoundInv, BoundByStage
    <2>5. /\ life[obj[r]] = "open" /\ obj[r] \in Conn
          /\ Head(recvBuf[r]) = <<obj[r], Len(inbox[obj[r]]) + 1>>
      BY <2>2, <2>3, <2>4, StreamHears
    <2>6. inbox' = [inbox EXCEPT ![obj[r]] = Append(@, <<obj[r], Len(@) + 1>>)]
      BY <2>2, <2>5
    <2>7. Objects!Hear(obj[r])
      BY <2>3, <2>5, <2>6 DEF Objects!Hear
    <2>8. QED BY <2>5, <2>7 DEF Objects!Next
  <1>3. CASE (Connect \/ Update) /\ ~RecvPacket
    BY <1>3, Tells DEF Objects!Next, Objects!Accept, Objects!Request, Objects!Connected,
                       Objects!Refused, Objects!Close
  <1>4. QED
    BY <1>1, <1>2, <1>3 DEF Next, Threads

\* SyncHandler implements NetworkObjects: a step of any thread tells at most one
\* object one thing, in the order OnConnect, OnRecv, OnDisconnect, and never hands
\* an object what its peer did not send (SyncHandler.cpp:22-41, 65-84, 265-277).
THEOREM SyncImplementsObjects == Spec => ImplementsObjects
  <1>1. Init => Objects!Init
    BY DEF Init, Objects!Init
  <1>2. /\ IInv /\ CountInv /\ DataInv /\ HeldInv /\ BoundInv /\ PollInv /\ Alone /\ ReadInv
        /\ CleanInv /\ StreamInv /\ [Next]_vars
        => [Objects!Next]_<<life, inbox>>
    BY ObjectsStep DEF vars, objVars
  <1>3. QED
    BY <1>1, <1>2, IInvHolds, CountInvHolds, DataHolds, HeldHolds, BoundHolds, PollHolds, AloneHolds,
       ReadHolds, CleanHolds, StreamHolds, PTL DEF Spec, ImplementsObjects, Objects!Spec

-----------------------------------------------------------------------------
\* Two lists hold no more sessions than there are.
LEMMA TwoLists ==
  ASSUME IInv, NEW p \in Place, NEW q \in Place, p # q
  PROVE  /\ Cardinality(Session) \in Nat
         /\ Len(list[p]) + Len(list[q]) <= Cardinality(Session)
  <1>1. list[p] \in Seq(Session) /\ list[q] \in Seq(Session)
    BY Lengths
  <1>2. PICK m \in Nat, n \in Nat : m = Len(list[p]) /\ n = Len(list[q])
    BY Lengths
  <1> DEFINE f == [i \in 1..(m + n) |-> IF i <= m THEN list[p][i] ELSE list[q][i - m]]
  <1>3. \A i \in 1..(m + n) : i <= m => i \in 1..m
    OBVIOUS
  <1>4. \A i \in 1..(m + n) : ~(i <= m) => i - m \in 1..n
    OBVIOUS
  <1>5. /\ \A i \in 1..m : list[p][i] \in Session /\ where[list[p][i]] = p
        /\ \A i \in 1..n : list[q][i] \in Session /\ where[list[q][i]] = q
    BY <1>2, Wheres
  <1>6. f \in [1..(m + n) -> Session]
    BY <1>2, <1>3, <1>4, <1>5
  <1>7. ASSUME NEW i \in 1..(m + n), NEW j \in 1..(m + n), f[i] = f[j]
        PROVE  i = j
    <2>1. Lists!Exclusive(list)
      BY DEF IInv, Lists!Placed
    <2>2. \A r \in {p, q} : \A a, b \in 1..Len(list[r]) : list[r][a] = list[r][b] => a = b
      BY <2>1 DEF Lists!Exclusive
    <2>3. CASE i <= m /\ j <= m
      BY <1>2, <1>3, <1>7, <2>2, <2>3
    <2>4. CASE ~(i <= m) /\ ~(j <= m)
      <3>1. i - m = j - m
        BY <1>2, <1>4, <1>7, <2>2, <2>4
      <3>2. QED BY <3>1
    <2>5. CASE i <= m /\ ~(j <= m)
      <3>1. where[f[i]] = p /\ where[f[j]] = q
        BY <1>3, <1>4, <1>5, <2>5
      <3>2. QED BY <1>7, <3>1
    <2>6. CASE ~(i <= m) /\ j <= m
      <3>1. where[f[i]] = q /\ where[f[j]] = p
        BY <1>3, <1>4, <1>5, <2>6
      <3>2. QED BY <1>7, <3>1
    <2>7. QED BY <2>3, <2>4, <2>5, <2>6
  <1> HIDE DEF f
  <1>8. f \in Injection(1..(m + n), Session)
    BY <1>6, <1>7 DEF Injection, IsInjective
  <1>9. IsFiniteSet(Session)
    BY SyncAssumption, FS_Union DEF Session
  <1>10. Cardinality(1..(m + n)) <= Cardinality(Session) /\ Cardinality(Session) \in Nat
    BY <1>8, <1>9, FS_Injection, FS_CardinalityType
  <1>11. Cardinality(1..(m + n)) = m + n
    <2>1. PICK k \in Nat : k = m + n
      OBVIOUS
    <2>2. Cardinality(1..k) = IF 1 > k THEN 0 ELSE k - 1 + 1
      BY FS_Interval
    <2>3. QED BY <2>1, <2>2
  <1>12. QED
    BY <1>2, <1>10, <1>11

LEMMA CountBounded ==
  ASSUME IInv, CountInv
  PROVE  numActive \in 0..Cardinality(Session)
  <1>1. PICK q \in {"joining", "template"} :
          numActive = Len(list["active"]) \/ numActive = Len(list["active"]) + Len(list[q])
    BY DEF CountInv, CountByPhase
  <1>2. "active" \in Place /\ q \in Place /\ q # "active"
    BY DEF Place
  <1>3. PICK a \in Nat, b \in Nat, n \in Nat :
          a = Len(list["active"]) /\ b = Len(list[q]) /\ n = Cardinality(Session)
    BY <1>2, Lengths, TwoLists
  <1>4. a + b <= n
    BY <1>2, <1>3, TwoLists
  <1>5. numActive = a \/ numActive = a + b
    BY <1>1, <1>3
  <1>6. a \in 0..n /\ a + b \in 0..n
    BY <1>4
  <1>7. QED
    BY <1>3, <1>5, <1>6

LEMMA TypeIsRight ==
  ASSUME IInv, CountInv, DataInv, PollInv, ReadInv
  PROVE  TypeOK
  <1>1. list \in [Place -> Seq(Session)]
    BY Lengths
  <1>2. numActive \in 0..Cardinality(Session)
    BY CountBounded
  <1>3. QED
    BY <1>1, <1>2 DEF TypeOK, DataInv, PollInv, EdgesRight, EventsRight, ReadInv, Room, Heard

\* The sessions and their objects, by place.
LEMMA BoundIsRight ==
  ASSUME IInv, BoundInv, PollInv
  PROVE  BoundRight /\ RegisteredRight
  <1>1. \A p \in Place : \A s \in On(p) : s \in Session /\ where[s] = p
    BY Wheres DEF On
  <1>2. \A s \in Session : s \in On(where[s]) /\ where[s] \in Place
    BY Wheres DEF On
  <1>3. {"active", "joining", "acceptPool", "connectPool"} \subseteq Place
    BY DEF Place
  <1>4. BoundRight
    <2>1. \A s \in On("active") \cup On("joining") : s \in Session /\ stage[s] = "running"
      BY <1>1, <1>3 DEF stage, StageAt
    <2>2. \A s \in On("acceptPool") \cup On("connectPool") : s \in Session /\ stage[s] = "free"
      BY <1>1, <1>3 DEF stage, StageAt
    <2>3. QED BY <2>1, <2>2 DEF BoundRight, BoundInv, Linked, BoundByStage
  <1>5. RegisteredRight
    <2>1. ASSUME NEW s \in Session, stage[s] \in Known
          PROVE  where[s] \in {"active", "joining", "main", "template"}
      BY <1>2, <2>1 DEF stage, StageAt, Known, Place
    <2>2. QED BY <1>2, <2>1 DEF RegisteredRight, PollInv, Registered
  <1>6. QED
    BY <1>4, <1>5

\* In every reachable state a session's flags, socket, object and buffers fit the
\* list or the thread that holds it, for any number of sessions, io threads and
\* peers (SyncHandler.cpp:265-371, 407-445, Session.cpp:249-263).
THEOREM SessionsAreRight == Spec => []SessionsRight
  <1>1. IInv /\ CountInv /\ DataInv /\ BoundInv /\ PollInv /\ ReadInv => SessionsRight
    BY TypeIsRight, BoundIsRight DEF SessionsRight
  <1>2. QED
    BY <1>1, IInvHolds, CountInvHolds, DataHolds, BoundHolds, PollHolds, ReadHolds, PTL

=============================================================================
