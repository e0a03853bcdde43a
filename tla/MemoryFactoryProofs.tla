------------------------- MODULE MemoryFactoryProofs -------------------------
(***************************************************************************)
(* The factory's invariants for every band size and number of bands, and   *)
(* its implementation of ObjectPool.  Pool operations are first related on *)
(* plain values (a number of bands n, stacks st, held objects o), then     *)
(* each action is one of them.                                             *)
(***************************************************************************)
EXTENDS MemoryFactory, FiniteSetTheorems, SequenceTheorems, TLAPS

LiveTo(n) == {x \in Object : x[1] <= n}

SlotOf(st) == {p \in Object : p[2] <= Len(st[p[1]])}

Typed(n, st, o) ==
  /\ n \in 0..MaxBands
  /\ st \in [Band -> Seq(Object)]
  /\ \A b \in Band : Len(st[b]) <= IF b <= n THEN BandSize(b) ELSE 0
  /\ o \subseteq Object

Exclusive(n, st, o) ==
  /\ o \subseteq LiveTo(n)
  /\ \A p \in SlotOf(st) : st[p[1]][p[2]] \in LiveTo(n) \ o
  /\ \A p, q \in SlotOf(st) : st[p[1]][p[2]] = st[q[1]][q[2]] => p = q

Kept(n, st, o) ==
  \A x \in LiveTo(n) \ o : \E p \in SlotOf(st) : st[p[1]][p[2]] = x

Sound(n, st, o) == Typed(n, st, o) /\ Exclusive(n, st, o) /\ Kept(n, st, o)

-----------------------------------------------------------------------------
\* Every band has at least one object.
LEMMA SizeFacts ==
  /\ ExtendSize \in Nat \ {0}
  /\ \A b \in Band : /\ BandSize(b) \in Nat \ {0}
                     /\ BandSize(b) <= BasicSize + ExtendSize
  BY SizeAssumption DEF ExtendSize, BandSize, Band

\* An object is a band and an index into it, and conversely.
LEMMA ObjectFacts ==
  /\ \A x \in Object : /\ x = <<x[1], x[2]>>
                       /\ x[1] \in Band /\ x[2] \in Nat \ {0}
                       /\ x[2] <= BandSize(x[1])
  /\ \A b \in Band, i \in Nat \ {0} :
       i <= BandSize(b) => <<b, i>> \in Object /\ <<b, i>>[1] = b /\ <<b, i>>[2] = i
  <1>1. BasicSize + ExtendSize \in Nat
    BY SizeFacts, SizeAssumption
  <1>2. ASSUME NEW x \in Object
        PROVE  /\ x = <<x[1], x[2]>>
               /\ x[1] \in Band /\ x[2] \in Nat \ {0}
               /\ x[2] <= BandSize(x[1])
    BY <1>1 DEF Object
  <1>3. ASSUME NEW b \in Band, NEW i \in Nat \ {0}, i <= BandSize(b)
        PROVE  <<b, i>> \in Object /\ <<b, i>>[1] = b /\ <<b, i>>[2] = i
    <2>1. i \in 1..(BasicSize + ExtendSize)
      BY <1>1, <1>3, SizeFacts
    <2>2. QED
      BY <2>1, <1>3 DEF Object
  <1>4. QED
    BY <1>2, <1>3

\* A band just allocated offers each of its objects once.
LEMMA FullStackFacts ==
  ASSUME NEW b \in Band
  PROVE  /\ FullStack(b) \in Seq(Object)
         /\ Len(FullStack(b)) = BandSize(b)
         /\ \A i \in 1..BandSize(b) : FullStack(b)[i] = <<b, i>>
  <1>1. BandSize(b) \in Nat
    BY SizeFacts
  <1>2. \A i \in 1..BandSize(b) : <<b, i>> \in Object
    BY <1>1, ObjectFacts
  <1>3. FullStack(b) \in Seq(Object)
    BY <1>1, <1>2, IsASeq DEF FullStack
  <1>4. DOMAIN FullStack(b) = 1..BandSize(b)
    BY DEF FullStack
  <1>5. Len(FullStack(b)) = BandSize(b)
    BY <1>1, <1>3, <1>4, LenProperties
  <1>6. QED
    BY <1>3, <1>5 DEF FullStack

\* AllocBand: a new band brings its own objects, all of them free.
LEMMA GrowSound ==
  ASSUME NEW n, NEW st, NEW o, Sound(n, st, o), n < MaxBands
  PROVE  Sound(n + 1, [st EXCEPT ![n + 1] = FullStack(n + 1)], o)
  <1> DEFINE b == n + 1
             tt == [st EXCEPT ![b] = FullStack(b)]
  <1>1. /\ n \in 0..MaxBands /\ MaxBands \in Nat /\ b \in Band
        /\ st \in [Band -> Seq(Object)]
    BY SizeAssumption DEF Sound, Typed, Band
  <1>2. /\ FullStack(b) \in Seq(Object)
        /\ Len(FullStack(b)) = BandSize(b)
        /\ \A i \in 1..BandSize(b) : FullStack(b)[i] = <<b, i>>
        /\ BandSize(b) \in Nat
    BY <1>1, FullStackFacts, SizeFacts
  <1>3. /\ tt \in [Band -> Seq(Object)]
        /\ tt[b] = FullStack(b)
        /\ \A c \in Band : c # b => tt[c] = st[c]
    BY <1>1, <1>2
  <1>4. Typed(b, tt, o)
    <2>1. ASSUME NEW c \in Band
          PROVE Len(tt[c]) <= IF c <= b THEN BandSize(c) ELSE 0
      <3>1. CASE c = b
        BY <3>1, <1>1, <1>2, <1>3 DEF Band
      <3>2. CASE c # b
        BY <3>2, <1>1, <1>3 DEF Sound, Typed, Band
      <3>3. QED BY <3>1, <3>2
    <2>2. QED BY <2>1, <1>1, <1>3 DEF Sound, Typed, Band
  <1>5. LiveTo(n) \subseteq LiveTo(b) /\ \A x \in Object : x[1] = b => x \in LiveTo(b) \ LiveTo(n)
    BY <1>1, ObjectFacts DEF LiveTo, Band
  <1>6. \A p \in SlotOf(tt) : \/ p \in SlotOf(st) /\ p[1] # b
                              \/ p[1] = b /\ tt[p[1]][p[2]] = p
    <2> SUFFICES ASSUME NEW p \in SlotOf(tt)
                 PROVE \/ p \in SlotOf(st) /\ p[1] # b
                       \/ p[1] = b /\ tt[p[1]][p[2]] = p
      OBVIOUS
    <2>1. /\ p \in Object /\ p[1] \in Band /\ p[2] \in Nat \ {0}
          /\ p[2] <= BandSize(p[1]) /\ p = <<p[1], p[2]>>
      BY ObjectFacts DEF SlotOf
    <2>2. CASE p[1] = b
      <3>1. p[2] \in 1..BandSize(b)
        BY <2>1, <2>2, <1>2
      <3>2. FullStack(b)[p[2]] = <<b, p[2]>>
        BY <3>1, <1>2
      <3>3. QED
        BY <2>1, <2>2, <3>2, <1>3
    <2>3. CASE p[1] # b
      BY <2>1, <2>3, <1>3 DEF SlotOf
    <2>4. QED BY <2>2, <2>3
  <1>7. \A p \in SlotOf(st) : p[1] # b /\ p \in SlotOf(tt) /\ tt[p[1]] = st[p[1]]
    <2> SUFFICES ASSUME NEW p \in SlotOf(st)
                 PROVE p[1] # b /\ p \in SlotOf(tt) /\ tt[p[1]] = st[p[1]]
      OBVIOUS
    <2>1. /\ p \in Object /\ p[1] \in Band /\ p[2] \in Nat \ {0}
          /\ p[2] <= Len(st[p[1]])
      BY ObjectFacts DEF SlotOf
    <2>2. Len(st[p[1]]) \in Nat
      BY <2>1, <1>1
    <2>3. p[1] <= n
      BY <2>1, <2>2, <1>1, SMTT(40) DEF Sound, Typed, Band
    <2>4. p[1] # b
      BY <2>1, <2>3, <1>1 DEF Band
    <2>5. QED BY <2>1, <2>4, <1>3 DEF SlotOf
  <1>8. Exclusive(b, tt, o)
    <2>1. o \subseteq LiveTo(b) /\ o \subseteq LiveTo(n)
      BY <1>5 DEF Sound, Exclusive
    <2>2. \A p \in SlotOf(tt) : tt[p[1]][p[2]] \in LiveTo(b) \ o
      BY <1>5, <1>6, <1>7, <2>1 DEF Sound, Exclusive, SlotOf
    <2>3. ASSUME NEW p \in SlotOf(tt), NEW q \in SlotOf(tt),
                 tt[p[1]][p[2]] = tt[q[1]][q[2]]
          PROVE  p = q
      <3>1. \A r \in SlotOf(st) : tt[r[1]][r[2]] \in LiveTo(n)
        BY <1>7 DEF Sound, Exclusive
      <3>2. \A r \in SlotOf(tt) : r[1] = b => r \notin LiveTo(n)
        BY <1>5 DEF SlotOf
      <3>3. CASE p[1] = b /\ q[1] = b
        BY <3>3, <2>3, <1>6
      <3>4. CASE p[1] # b /\ q[1] # b
        BY <3>4, <2>3, <1>6, <1>7 DEF Sound, Exclusive
      <3>5. CASE ~(p[1] = b <=> q[1] = b)
        BY <3>5, <2>3, <1>6, <3>1, <3>2
      <3>6. QED BY <3>3, <3>4, <3>5
    <2>4. QED BY <2>1, <2>2, <2>3 DEF Exclusive
  <1>9. Kept(b, tt, o)
    <2> SUFFICES ASSUME NEW x \in LiveTo(b) \ o
                 PROVE \E p \in SlotOf(tt) : tt[p[1]][p[2]] = x
      BY DEF Kept
    <2>1. /\ x \in Object /\ x[1] \in Band /\ x[2] \in Nat \ {0}
          /\ x[2] <= BandSize(x[1]) /\ x[1] <= b
      BY ObjectFacts DEF LiveTo
    <2>2. CASE x[1] = b
      <3>1. x \in SlotOf(tt)
        BY <2>1, <2>2, <1>2, <1>3 DEF SlotOf
      <3>2. QED BY <3>1, <2>2, <1>6
    <2>3. CASE x[1] # b
      <3>1. x \in LiveTo(n) \ o
        BY <2>1, <2>3, <1>1 DEF LiveTo, Band
      <3>2. PICK p \in SlotOf(st) : st[p[1]][p[2]] = x
        BY <3>1 DEF Sound, Kept
      <3>3. QED BY <3>2, <1>7
    <2>4. QED BY <2>2, <2>3
  <1>10. QED
    BY <1>4, <1>8, <1>9 DEF Sound

\* AlloObject: the object on the top of a stack goes to the caller.
LEMMA PopSound ==
  ASSUME NEW n, NEW st, NEW o, Sound(n, st, o),
         NEW b \in Band, st[b] # <<>>
  PROVE  /\ Top(st[b]) \in Object \ o
         /\ Sound(n, [st EXCEPT ![b] = Pop(st[b])], o \cup {Top(st[b])})
  <1> DEFINE len == Len(st[b])
             top == Top(st[b])
             tt == [st EXCEPT ![b] = Pop(st[b])]
  <1>1. /\ st \in [Band -> Seq(Object)] /\ st[b] \in Seq(Object)
        /\ len \in Nat \ {0} /\ b <= n
    BY EmptySeq DEF Sound, Typed, Band
  <1>2. /\ Pop(st[b]) \in Seq(Object)
        /\ Len(Pop(st[b])) = len - 1
        /\ \A i \in 1..(len - 1) : Pop(st[b])[i] = st[b][i]
    <2> DEFINE s == st[b]
               m == len - 1
    <2>1. 1 \in Int /\ m \in Int /\ m >= 0 /\ \A i \in 1..m : s[i] \in Object
      BY <1>1, ElementOfSeq
    <2> HIDE DEF s, m
    <2>2. /\ SubSeq(s, 1, m) \in Seq(Object)
          /\ Len(SubSeq(s, 1, m)) = IF 1 <= m THEN m - 1 + 1 ELSE 0
          /\ \A i \in 1..(m - 1 + 1) : SubSeq(s, 1, m)[i] = s[1 + i - 1]
      BY <2>1, SubSeqProperties
    <2>3. Len(SubSeq(s, 1, m)) = m /\ \A i \in 1..m : SubSeq(s, 1, m)[i] = s[i]
      BY <2>1, <2>2
    <2>4. QED BY <2>2, <2>3 DEF Pop, s, m
  <1>3. /\ tt \in [Band -> Seq(Object)]
        /\ tt[b] = Pop(st[b])
        /\ \A c \in Band : c # b => tt[c] = st[c]
    BY <1>1, <1>2
  <1>4. top \in Object
    BY <1>1 DEF Top
  <1>5. Typed(n, tt, o \cup {top})
    <2>1. ASSUME NEW c \in Band
          PROVE Len(tt[c]) <= IF c <= n THEN BandSize(c) ELSE 0
      <3>1. CASE c = b
        <4>1. len <= BandSize(b) /\ BandSize(b) \in Nat
          BY <1>1, SizeFacts DEF Sound, Typed
        <4>2. QED BY <3>1, <4>1, <1>1, <1>2, <1>3
      <3>2. CASE c # b
        BY <3>2, <1>1, <1>3 DEF Sound, Typed
      <3>3. QED BY <3>1, <3>2
    <2>2. QED BY <2>1, <1>3, <1>4 DEF Sound, Typed
  <1>6. \E p \in SlotOf(st) : p = <<b, len>> /\ st[p[1]][p[2]] = top
    <2>1. len <= BandSize(b)
      BY <1>1 DEF Sound, Typed
    <2>2. <<b, len>> \in Object /\ <<b, len>>[1] = b /\ <<b, len>>[2] = len
      BY <2>1, <1>1, ObjectFacts
    <2>3. <<b, len>> \in SlotOf(st)
      BY <2>2, <1>1 DEF SlotOf
    <2>4. QED BY <2>2, <2>3 DEF Top
  <1>7. PICK t \in SlotOf(st) : t = <<b, len>> /\ st[t[1]][t[2]] = top
    BY <1>6
  <1>8. \A p \in SlotOf(tt) : p \in SlotOf(st) /\ p # t /\ tt[p[1]][p[2]] = st[p[1]][p[2]]
    <2> SUFFICES ASSUME NEW p \in SlotOf(tt)
                 PROVE p \in SlotOf(st) /\ p # t /\ tt[p[1]][p[2]] = st[p[1]][p[2]]
      OBVIOUS
    <2>1. p \in Object /\ p[1] \in Band /\ p[2] \in Nat \ {0} /\ p[2] <= Len(tt[p[1]])
      BY ObjectFacts DEF SlotOf
    <2>2. CASE p[1] = b
      <3>1. p[2] \in 1..(len - 1) /\ p[2] # len /\ p[2] <= len
        BY <2>1, <2>2, <1>1, <1>2, <1>3
      <3>2. QED BY <2>1, <2>2, <3>1, <1>2, <1>3, <1>7 DEF SlotOf
    <2>3. CASE p[1] # b
      BY <2>1, <2>3, <1>3, <1>7 DEF SlotOf
    <2>4. QED BY <2>2, <2>3
  <1>9. \A p \in SlotOf(st) : p # t => p \in SlotOf(tt)
    <2> SUFFICES ASSUME NEW p \in SlotOf(st), p # t
                 PROVE p \in SlotOf(tt)
      OBVIOUS
    <2>1. /\ p \in Object /\ p[1] \in Band /\ p[2] \in Nat \ {0} /\ p[2] <= Len(st[p[1]])
          /\ p = <<p[1], p[2]>>
      BY ObjectFacts DEF SlotOf
    <2>2. CASE p[1] = b
      <3>1. p[2] # len
        BY <2>1, <2>2, <1>7
      <3>2. QED BY <2>1, <2>2, <3>1, <1>1, <1>2, <1>3 DEF SlotOf
    <2>3. CASE p[1] # b
      BY <2>1, <2>3, <1>3 DEF SlotOf
    <2>4. QED BY <2>2, <2>3
  <1>10. Exclusive(n, tt, o \cup {top})
    <2>1. o \cup {top} \subseteq LiveTo(n)
      BY <1>7 DEF Sound, Exclusive
    <2>2. \A p \in SlotOf(tt) : tt[p[1]][p[2]] \in LiveTo(n) \ (o \cup {top})
      BY <1>7, <1>8 DEF Sound, Exclusive
    <2>3. \A p, q \in SlotOf(tt) : tt[p[1]][p[2]] = tt[q[1]][q[2]] => p = q
      BY <1>8 DEF Sound, Exclusive
    <2>4. QED BY <2>1, <2>2, <2>3 DEF Exclusive
  <1>11. Kept(n, tt, o \cup {top})
    <2> SUFFICES ASSUME NEW x \in LiveTo(n) \ (o \cup {top})
                 PROVE \E p \in SlotOf(tt) : tt[p[1]][p[2]] = x
      BY DEF Kept
    <2>1. PICK p \in SlotOf(st) : st[p[1]][p[2]] = x
      BY DEF Sound, Kept
    <2>2. p # t
      BY <2>1, <1>7
    <2>3. QED BY <2>1, <2>2, <1>8, <1>9
  <1>12. top \notin o
    BY <1>7 DEF Sound, Exclusive
  <1>13. QED
    BY <1>4, <1>5, <1>10, <1>11, <1>12 DEF Sound

\* FreeObject: a held object goes to the top of a stack with room.
LEMMA PushSound ==
  ASSUME NEW n, NEW st, NEW o, Sound(n, st, o),
         NEW x \in o, NEW b \in Band, b <= n, Len(st[b]) < BandSize(b)
  PROVE  Sound(n, [st EXCEPT ![b] = Append(st[b], x)], o \ {x})
  <1> DEFINE len == Len(st[b])
             tt == [st EXCEPT ![b] = Append(st[b], x)]
             t == <<b, len + 1>>
  <1>1. /\ st \in [Band -> Seq(Object)] /\ st[b] \in Seq(Object)
        /\ len \in Nat /\ x \in Object /\ BandSize(b) \in Nat
    BY SizeFacts DEF Sound, Typed
  <1>2. /\ Append(st[b], x) \in Seq(Object)
        /\ Len(Append(st[b], x)) = len + 1
        /\ Append(st[b], x)[len + 1] = x
        /\ \A i \in 1..len : Append(st[b], x)[i] = st[b][i]
    BY <1>1, AppendProperties
  <1>3. /\ tt \in [Band -> Seq(Object)]
        /\ tt[b] = Append(st[b], x)
        /\ \A c \in Band : c # b => tt[c] = st[c]
    BY <1>1, <1>2
  <1>4. Typed(n, tt, o \ {x})
    <2>1. ASSUME NEW c \in Band
          PROVE Len(tt[c]) <= IF c <= n THEN BandSize(c) ELSE 0
      <3>1. CASE c = b
        BY <3>1, <1>1, <1>2, <1>3
      <3>2. CASE c # b
        BY <3>2, <1>1, <1>3 DEF Sound, Typed
      <3>3. QED BY <3>1, <3>2
    <2>2. QED BY <2>1, <1>3 DEF Sound, Typed
  <1>5. /\ t \in Object /\ t[1] = b /\ t[2] = len + 1
        /\ t \in SlotOf(tt) /\ t \notin SlotOf(st) /\ tt[t[1]][t[2]] = x
    <2>1. len + 1 \in Nat \ {0} /\ len + 1 <= BandSize(b)
      BY <1>1
    <2>2. t \in Object /\ t[1] = b /\ t[2] = len + 1
      BY <2>1, ObjectFacts
    <2>3. QED BY <2>1, <2>2, <1>1, <1>2, <1>3 DEF SlotOf
  <1>6. \A p \in SlotOf(st) : p \in SlotOf(tt) /\ tt[p[1]][p[2]] = st[p[1]][p[2]]
    <2> SUFFICES ASSUME NEW p \in SlotOf(st)
                 PROVE p \in SlotOf(tt) /\ tt[p[1]][p[2]] = st[p[1]][p[2]]
      OBVIOUS
    <2>1. /\ p \in Object /\ p[1] \in Band /\ p[2] \in Nat \ {0}
          /\ p[2] <= Len(st[p[1]])
      BY ObjectFacts DEF SlotOf
    <2>2. CASE p[1] = b
      <3>1. p[2] \in 1..len /\ p[2] <= len + 1
        BY <2>1, <2>2, <1>1
      <3>2. QED BY <2>1, <2>2, <3>1, <1>2, <1>3 DEF SlotOf
    <2>3. CASE p[1] # b
      BY <2>1, <2>3, <1>3 DEF SlotOf
    <2>4. QED BY <2>2, <2>3
  <1>7. \A p \in SlotOf(tt) : p = t \/ p \in SlotOf(st)
    <2> SUFFICES ASSUME NEW p \in SlotOf(tt), p # t
                 PROVE p \in SlotOf(st)
      OBVIOUS
    <2>1. /\ p \in Object /\ p[1] \in Band /\ p[2] \in Nat \ {0}
          /\ p[2] <= Len(tt[p[1]]) /\ p = <<p[1], p[2]>>
      BY ObjectFacts DEF SlotOf
    <2>2. CASE p[1] = b
      <3>1. p[2] # len + 1
        BY <2>1, <2>2
      <3>2. QED BY <2>1, <2>2, <3>1, <1>1, <1>2, <1>3 DEF SlotOf
    <2>3. CASE p[1] # b
      BY <2>1, <2>3, <1>3 DEF SlotOf
    <2>4. QED BY <2>2, <2>3
  <1>8. Exclusive(n, tt, o \ {x})
    <2>1. \A p \in SlotOf(st) : st[p[1]][p[2]] # x
      BY DEF Sound, Exclusive
    <2>2. \A p \in SlotOf(tt) : tt[p[1]][p[2]] \in LiveTo(n) \ (o \ {x})
      BY <1>5, <1>6, <1>7 DEF Sound, Exclusive
    <2>3. \A p, q \in SlotOf(tt) : tt[p[1]][p[2]] = tt[q[1]][q[2]] => p = q
      BY <2>1, <1>5, <1>6, <1>7 DEF Sound, Exclusive
    <2>4. QED BY <2>2, <2>3 DEF Exclusive, Sound
  <1>9. Kept(n, tt, o \ {x})
    BY <1>5, <1>6 DEF Sound, Kept
  <1>10. QED
    BY <1>4, <1>8, <1>9 DEF Sound

\* There are finitely many objects, so they can be counted.
LEMMA LiveFinite == ASSUME NEW n PROVE IsFiniteSet(LiveTo(n))
  <1>1. MaxBands \in Nat /\ BasicSize + ExtendSize \in Nat
    BY SizeAssumption, SizeFacts
  <1>2. IsFiniteSet(Band) /\ IsFiniteSet(1..(BasicSize + ExtendSize))
    BY <1>1, FS_Interval DEF Band
  <1>3. IsFiniteSet(Band \X (1..(BasicSize + ExtendSize)))
    BY <1>2, FS_Product
  <1>4. LiveTo(n) \subseteq Band \X (1..(BasicSize + ExtendSize))
    BY DEF LiveTo, Object
  <1>5. QED
    BY <1>3, <1>4, FS_Subset

\* While somebody holds an object, some band has room: were all stacks full,
\* they would hold every live object (pigeonhole).
LEMMA RoomToGive ==
  ASSUME NEW n, NEW st, NEW o, Sound(n, st, o), o # {}
  PROVE  \E b \in 1..n : Len(st[b]) < BandSize(b)
  <1> DEFINE L == LiveTo(n)
             f == [p \in L |-> st[p[1]][p[2]]]
  <1> SUFFICES ASSUME \A b \in 1..n : ~(Len(st[b]) < BandSize(b))
               PROVE FALSE
    OBVIOUS
  <1>1. \A b \in 1..n : b \in Band /\ Len(st[b]) = BandSize(b)
    <2> SUFFICES ASSUME NEW b \in 1..n
                 PROVE b \in Band /\ Len(st[b]) = BandSize(b)
      OBVIOUS
    <2>1. b \in Band
      BY SizeAssumption DEF Band, Sound, Typed
    <2>2. Len(st[b]) \in Nat /\ Len(st[b]) <= BandSize(b) /\ BandSize(b) \in Nat
      BY <2>1, SizeFacts DEF Sound, Typed
    <2>3. QED BY <2>1, <2>2
  <1>2. \A p \in L : p \in SlotOf(st)
    <2> SUFFICES ASSUME NEW p \in L PROVE p \in SlotOf(st)
      OBVIOUS
    <2>1. /\ p \in Object /\ p[1] <= n /\ p[1] \in Band
          /\ p[2] \in Nat \ {0} /\ p[2] <= BandSize(p[1])
      BY ObjectFacts DEF LiveTo
    <2>2. p[1] \in 1..n
      BY <2>1 DEF Band, Sound, Typed
    <2>3. QED BY <2>1, <2>2, <1>1 DEF SlotOf
  <1>3. f \in [L -> L]
    BY <1>2 DEF Sound, Exclusive
  <1>4. \A p, q \in L : f[p] = f[q] => p = q
    BY <1>2 DEF Sound, Exclusive
  <1>5. f \in Injection(L, L)
    BY <1>3, <1>4 DEF Injection, IsInjective
  <1> HIDE DEF f
  <1>6. f \in Surjection(L, L)
    BY <1>5, LiveFinite, FS_Injection
  <1>7. PICK x : x \in o
    OBVIOUS
  <1>8. x \in L
    BY <1>7 DEF Sound, Exclusive
  <1>9. PICK p \in L : f[p] = x
    BY <1>6, <1>8 DEF Surjection
  <1>10. st[p[1]][p[2]] = x
    BY <1>9 DEF f
  <1>11. QED
    BY <1>2, <1>7, <1>10 DEF Sound, Exclusive

-----------------------------------------------------------------------------
\* The inductive invariant: the four invariants of the run, together.
IInv == TypeOK /\ FreeExclusive /\ BandShape /\ NothingLost

\* The invariant, on plain values.
LEMMA IInvIsSound ==
  IInv <=> /\ Sound(bands, stack, out) /\ BandShape
           /\ freeBand \in 0..bands /\ (bands > 0 => freeBand > 0)
           /\ result \in Object \cup {NULL}
  BY DEF IInv, TypeOK, FreeExclusive, NothingLost, Sound, Typed, Exclusive, Kept,
         Live, LiveTo, Slot, SlotOf, At

\* The same of the next state.
LEMMA IInvIsSoundNext ==
  IInv' <=> /\ Sound(bands', stack', out') /\ BandShape'
            /\ freeBand' \in 0..bands' /\ (bands' > 0 => freeBand' > 0)
            /\ result' \in Object \cup {NULL}
  BY DEF IInv, TypeOK, FreeExclusive, NothingLost, Sound, Typed, Exclusive, Kept,
         Live, LiveTo, Slot, SlotOf, At

\* A factory without bands is sound.
LEMMA EmptySound == Sound(0, [b \in Band |-> <<>>], {})
  <1> DEFINE st == [b \in Band |-> <<>>]
  <1>1. st \in [Band -> Seq(Object)] /\ \A b \in Band : Len(st[b]) = 0
    BY EmptySeq
  <1>2. SlotOf(st) = {}
    BY <1>1, ObjectFacts DEF SlotOf
  <1>3. LiveTo(0) = {}
    BY ObjectFacts DEF LiveTo, Band
  <1>4. \A b \in Band : BandSize(b) \in Nat
    BY SizeFacts
  <1>5. Typed(0, st, {})
    BY <1>1, <1>4, SizeAssumption DEF Typed
  <1>6. QED
    BY <1>2, <1>3, <1>5 DEF Sound, Exclusive, Kept

-----------------------------------------------------------------------------
\* What a call of Alloc does, whichever branch it takes.
LEMMA AllocStep ==
  ASSUME IInv, Alloc
  PROVE  /\ IInv'
         /\ result' \in Object \ out
         /\ out' = out \cup {result'}
  <1>1. /\ Sound(bands, stack, out) /\ BandShape
        /\ freeBand \in 1..bands /\ bands \in 1..MaxBands /\ MaxBands \in Nat
        /\ \A b \in 1..bands : b \in Band
    BY IInvIsSound, SizeAssumption DEF Alloc, Sound, Typed, Band
  <1>2. CASE AllocHere
    <2>1. /\ stack[freeBand] # <<>> /\ UNCHANGED <<bands, freeBand>>
          /\ result' = Top(stack[freeBand]) /\ out' = out \cup {Top(stack[freeBand])}
          /\ stack' = [stack EXCEPT ![freeBand] = Pop(stack[freeBand])]
      BY <1>2 DEF AllocHere, TakeFrom
    <2>2. result' \in Object \ out /\ Sound(bands', stack', out')
      BY <1>1, <2>1, PopSound
    <2>3. \A b \in 1..bands : b # freeBand => stack'[b] = stack[b]
      BY <1>1, <2>1 DEF Sound, Typed
    <2>4. BandShape'
      BY <1>1, <2>1, <2>3 DEF BandShape
    <2>5. QED
      BY <1>1, <2>1, <2>2, <2>4, IInvIsSoundNext
  <1>3. CASE AllocNewer
    <2> DEFINE b == freeBand + 1
    <2>1. b \in 1..bands /\ b \in Band /\ b > freeBand
      BY <1>1, <1>3 DEF AllocNewer
    <2>2. stack[b] # <<>>
      <3>1. Len(stack[b]) = BandSize(b)
        BY <1>1, <2>1 DEF BandShape
      <3>2. QED BY <2>1, <3>1, SizeFacts, EmptySeq
    <2>3. /\ stack[freeBand] = <<>> /\ bands' = bands /\ freeBand' = b
          /\ result' = Top(stack[b]) /\ out' = out \cup {Top(stack[b])}
          /\ stack' = [stack EXCEPT ![b] = Pop(stack[b])]
      BY <1>3, <2>2 DEF AllocNewer, TakeFrom
    <2>4. result' \in Object \ out /\ Sound(bands', stack', out')
      BY <1>1, <2>1, <2>2, <2>3, PopSound
    <2>5. \A c \in 1..bands : c # b => stack'[c] = stack[c]
      BY <1>1, <2>3 DEF Sound, Typed
    <2>6. BandShape'
      BY <1>1, <2>1, <2>3, <2>5 DEF BandShape
    <2>7. QED
      BY <1>1, <2>1, <2>3, <2>4, <2>6, IInvIsSoundNext
  <1>4. CASE AllocGrow
    <2> DEFINE b == bands + 1
               st == [stack EXCEPT ![b] = FullStack(b)]
    <2>1. b \in Band /\ bands < MaxBands /\ freeBand = bands /\ stack[freeBand] = <<>>
      BY <1>1, <1>4 DEF AllocGrow, Band
    <2>2. Sound(b, st, out)
      BY <1>1, <2>1, GrowSound
    <2>3. st[b] # <<>>
      <3>1. st[b] = FullStack(b)
        BY <1>1, <2>1 DEF Sound, Typed
      <3>2. QED BY <2>1, <3>1, FullStackFacts, SizeFacts, EmptySeq
    <2>4. /\ bands' = b /\ freeBand' = b
          /\ result' = Top(st[b]) /\ out' = out \cup {Top(st[b])}
          /\ stack' = [st EXCEPT ![b] = Pop(st[b])]
      BY <1>4, <2>3 DEF AllocGrow, TakeFrom
    <2>5. result' \in Object \ out /\ Sound(bands', stack', out')
      <3> HIDE DEF st
      <3>1. /\ Top(st[b]) \in Object \ out
            /\ Sound(b, [st EXCEPT ![b] = Pop(st[b])], out \cup {Top(st[b])})
        BY <2>1, <2>2, <2>3, PopSound
      <3>2. QED BY <2>4, <3>1
    <2>6. \A c \in 1..bands : stack'[c] = stack[c]
      <3>1. /\ stack \in [Band -> Seq(Object)]
            /\ \A c \in 1..bands : c \in Band /\ c # b
        BY <1>1, <2>1 DEF Sound, Typed
      <3>2. QED BY <3>1, <2>4
    <2>7. BandShape'
      <3>1. \A c \in 1..bands : stack[c] = <<>>
        BY <1>1, <2>1 DEF BandShape
      <3>2. bands' = bands + 1 /\ freeBand' = bands + 1
        BY <2>4
      <3>3. QED BY <1>1, <2>6, <3>1, <3>2 DEF BandShape
    <2>8. QED
      BY <1>1, <2>4, <2>5, <2>7, IInvIsSoundNext
  <1>5. QED
    BY <1>2, <1>3, <1>4 DEF Alloc

\* Free keeps the invariant, and returns the caller's object.
LEMMA FreeStep ==
  ASSUME IInv, NEW x \in out, Free(x)
  PROVE  IInv' /\ out' = out \ {x}
  <1>1. /\ Sound(bands, stack, out) /\ BandShape /\ result \in Object \cup {NULL}
        /\ freeBand \in 1..bands /\ bands \in 1..MaxBands /\ MaxBands \in Nat
        /\ \A b \in 1..bands : b \in Band
        /\ bands' = bands /\ result' = result /\ out' = out \ {x}
    BY IInvIsSound, SizeAssumption DEF Free, Sound, Typed, Band
  <1>2. CASE FreeHere(x)
    <2>1. /\ freeBand' = freeBand /\ Len(stack[freeBand]) < BandSize(freeBand)
          /\ stack' = [stack EXCEPT ![freeBand] = Append(stack[freeBand], x)]
      BY <1>2 DEF FreeHere, GiveTo
    <2>2. Sound(bands', stack', out')
      <3>1. freeBand \in Band /\ freeBand <= bands
        BY <1>1
      <3>2. Sound(bands, [stack EXCEPT ![freeBand] = Append(stack[freeBand], x)], out \ {x})
        BY <1>1, <2>1, <3>1, PushSound
      <3>3. QED BY <1>1, <2>1, <3>2
    <2>3. \A b \in 1..bands : b # freeBand => stack'[b] = stack[b]
      BY <1>1, <2>1 DEF Sound, Typed
    <2>4. BandShape'
      BY <1>1, <2>1, <2>3 DEF BandShape
    <2>5. QED
      BY <1>1, <2>1, <2>2, <2>4, IInvIsSoundNext
  <1>3. CASE FreeOlder(x)
    <2>1. Len(stack[freeBand]) = BandSize(freeBand)
      <3>1. /\ Len(stack[freeBand]) <= BandSize(freeBand)
            /\ Len(stack[freeBand]) \in Nat /\ BandSize(freeBand) \in Nat
        BY <1>1, SizeFacts DEF Sound, Typed
      <3>2. QED BY <1>3, <3>1 DEF FreeOlder
    <2>2. freeBand # 1
      <3> SUFFICES ASSUME freeBand = 1 PROVE FALSE
        OBVIOUS
      <3>1. \A b \in 1..bands : Len(stack[b]) = BandSize(b)
        BY <1>1, <2>1 DEF BandShape
      <3>2. PICK b \in 1..bands : Len(stack[b]) < BandSize(b)
        BY <1>1, RoomToGive
      <3>3. QED BY <1>1, <3>1, <3>2, SizeFacts
    <2> DEFINE b == freeBand - 1
    <2>3. b \in 1..bands /\ b \in Band /\ b < freeBand /\ b <= bands
      BY <1>1, <2>2
    <2>4. stack[b] = <<>> /\ Len(stack[b]) < BandSize(b)
      <3>1. stack[b] = <<>>
        BY <1>1, <2>3 DEF BandShape
      <3>2. QED BY <2>3, <3>1, SizeFacts, EmptySeq
    <2>5. freeBand' = b /\ stack' = [stack EXCEPT ![b] = Append(stack[b], x)]
      BY <1>3, <2>2, <2>4 DEF FreeOlder, GiveTo
    <2>6. Sound(bands', stack', out')
      BY <1>1, <2>3, <2>4, <2>5, PushSound
    <2>7. \A c \in 1..bands : c # b => stack'[c] = stack[c]
      BY <1>1, <2>5 DEF Sound, Typed
    <2>8. BandShape'
      BY <1>1, <2>1, <2>3, <2>5, <2>7 DEF BandShape
    <2>9. QED
      BY <1>1, <2>3, <2>5, <2>6, <2>8, IInvIsSoundNext
  <1>4. QED
    BY <1>2, <1>3 DEF Free

\* The inductive invariant holds in every reachable state.
LEMMA IInvHolds == Spec => []IInv
  <1>1. Init => IInv
    <2> SUFFICES ASSUME Init PROVE IInv
      OBVIOUS
    <2>1. Sound(bands, stack, out)
      BY EmptySound DEF Init
    <2>2. QED BY <2>1, IInvIsSound DEF Init, BandShape
  <1>2. IInv /\ [Next]_vars => IInv'
    <2> SUFFICES ASSUME IInv, [Next]_vars PROVE IInv'
      OBVIOUS
    <2>1. CASE Initialize
      <3>1. /\ Sound(0, stack, out) /\ 0 < MaxBands
            /\ stack' = [stack EXCEPT ![0 + 1] = FullStack(0 + 1)]
            /\ bands' = 0 + 1 /\ freeBand' = 1 /\ out' = out /\ result' = result
        BY <2>1, IInvIsSound, SizeAssumption DEF Initialize
      <3>2. Sound(bands', stack', out')
        BY <3>1, GrowSound
      <3>3. BandShape'
        BY <3>1 DEF BandShape
      <3>4. QED BY <3>1, <3>2, <3>3, IInvIsSound, IInvIsSoundNext
    <2>2. CASE Alloc
      BY <2>2, AllocStep
    <2>3. ASSUME NEW x \in out, Free(x) PROVE IInv'
      BY <2>3, FreeStep
    <2>4. CASE Release
      <3>1. Sound(bands', stack', out') /\ BandShape'
        BY <2>4, EmptySound DEF Release, BandShape
      <3>2. QED BY <2>4, <3>1, IInvIsSound, IInvIsSoundNext DEF Release
    <2>5. CASE UNCHANGED vars
      BY <2>5 DEF vars, IInv, TypeOK, FreeExclusive, BandShape, NothingLost, Live, Slot, At
    <2>6. QED BY <2>1, <2>2, <2>3, <2>4, <2>5 DEF Next
  <1>3. QED
    BY <1>1, <1>2, PTL DEF Spec

-----------------------------------------------------------------------------
\* Variables keep their types, and no stack outgrows its band, whatever the
\* sizes of the bands (FreeObject's bound, MemoryFactory.hpp:86).
THEOREM TypeCorrect == Spec => []TypeOK
  BY IInvHolds, PTL DEF IInv

\* No object is ever handed to two callers, for any sizes and any order of
\* Alloc and Free (MemoryFactory.hpp:72-91).
THEOREM ExclusiveOwnership == Spec => []FreeExclusive
  BY IInvHolds, PTL DEF IInv

\* Objects end up either with a caller or on a stack: Free's silent drops are
\* unreachable for a legal caller (MemoryFactory.hpp:166-177).
THEOREM NoObjectLost == Spec => []NothingLost
  BY IInvHolds, PTL DEF IInv

\* Alloc's one look at a neighbour is enough: it never returns NULL
\* (MemoryFactory.hpp:137-158).
THEOREM AllocNeverFails == Spec => AllocSucceeds
  <1>1. IInv /\ [Next]_vars => [Alloc => result' # NULL]_vars
    BY AllocStep, NullAssumption
  <1>2. QED
    BY <1>1, IInvHolds, PTL DEF Spec, AllocSucceeds

\* What the bands can still give is exactly what no caller holds.
LEMMA UnownedFacts == IInv => Unowned = Object \ out
  <1> SUFFICES ASSUME IInv PROVE Unowned = Object \ out
    OBVIOUS
  <1>1. /\ out \subseteq Live /\ Live \subseteq Object
        /\ \A p \in Slot : At(p) \in Live \ out
        /\ \A o \in Live \ out : \E p \in Slot : At(p) = o
    BY DEF IInv, FreeExclusive, NothingLost, Live
  <1>2. {At(p) : p \in Slot} = Live \ out
    BY <1>1
  <1>3. QED
    BY <1>1, <1>2 DEF Unowned

\* The factory implements the abstract pool: Alloc moves one object from the
\* bands to its caller, Free moves it back (MemoryFactory.hpp:137-179).
THEOREM FactoryImplementsPool == Spec => ImplementsPool
  <1>1. Init => Pool!Init
    <2> SUFFICES ASSUME Init PROVE Unowned = Object /\ out = {}
      BY DEF Pool!Init
    <2>1. Live = {}
      BY ObjectFacts DEF Init, Live, Band
    <2>2. Slot = {}
      BY ObjectFacts DEF Init, Slot, Band
    <2>3. QED
      BY <2>1, <2>2 DEF Init, Unowned
  <1>2. IInv /\ IInv' /\ [Next]_vars => [Pool!Next]_<<Unowned, out>>
    <2> SUFFICES ASSUME IInv, IInv', [Next]_vars PROVE [Pool!Next]_<<Unowned, out>>
      OBVIOUS
    <2>1. out \subseteq Object /\ Unowned = Object \ out
      BY UnownedFacts DEF IInv, TypeOK
    <2>2. Unowned' = Object \ out'
      <3>1. (IInv => Unowned = Object \ out)'
        BY UnownedFacts, PTL
      <3>2. Object' = Object
        BY DEF Object, Band, BandSize, ExtendSize
      <3>3. QED BY <3>1, <3>2
    <2>3. CASE out' = out
      BY <2>1, <2>2, <2>3
    <2>4. CASE Initialize \/ UNCHANGED vars
      BY <2>3, <2>4 DEF Initialize, vars
    <2>5. CASE Alloc
      <3>1. result' \in Unowned /\ out' = out \cup {result'} /\ Unowned' = Unowned \ {result'}
        BY <2>1, <2>2, <2>5, AllocStep
      <3>2. QED BY <3>1 DEF Pool!Next, Pool!Take
    <2>6. ASSUME NEW x \in out, Free(x) PROVE Pool!Next
      <3>1. out' = out \ {x} /\ Unowned' = Unowned \cup {x}
        BY <2>1, <2>2, <2>6, FreeStep
      <3>2. QED BY <3>1 DEF Pool!Next, Pool!Give
    <2>7. CASE Release
      BY <2>2, <2>7 DEF Release, Pool!Next, Pool!Drop
    <2>8. QED BY <2>3, <2>4, <2>5, <2>6, <2>7 DEF Next
  <1>3. QED
    BY <1>1, <1>2, IInvHolds, PTL DEF Spec, ImplementsPool, Pool!Spec
=============================================================================
