--------------------------- MODULE SendBufferProofs --------------------------
(***************************************************************************)
(* Between Send and the socket nothing is lost, doubled or reordered, for  *)
(* every ring, socket and sequence of packets, whatever the four threads   *)
(* do between one another's steps.                                         *)
(*                                                                         *)
(* What the socket was given is the packets up to some place, and what is  *)
(* queued goes on from there, cell by cell; that an io thread still has    *)
(* the length in hand that it read earlier does no harm, since main only   *)
(* adds behind it.  Without headers the place is the start of a packet,    *)
(* as long as each DoSend found one whole packet.                          *)
(*                                                                         *)
(* At the end, the queue of the events that bring the io threads there.    *)
(***************************************************************************)
EXTENDS SendBuffer, IoQueue, CircuitQueueProofs, FiniteSetTheorems

-----------------------------------------------------------------------------
\* What the io thread in DoSend holds is still in the ring.
SendingRight ==
  /\ sender.at \in {"send", "arm", "completion"} => sender.len <= length /\ head + sender.len <= Size
  /\ sender.at # "completion" => sender.ret = 0
  /\ sender.at = "completion" => sender.ret + LenEx <= sender.len
  /\ sender.at = "arm" => LenEx < sender.len /\ (LenEx > 0 => mangled)
  /\ at # "header" => next \in Packet
  /\ \A i \in 1..length : Contents[i] \in Element

\* Behind the first cells of the ring lies what is written after place n.
InOrder(from, n) ==
  /\ length - from = Written - n
  /\ \A i \in (from + 1)..length : IsCell(Contents[i]) /\ Place(Contents[i]) = n + i - from

OutRight ==
  LenEx = 0 =>
    /\ InOrder(sender.ret, Len(wire))
    /\ \A i \in 1..Len(wire) : IsCell(wire[i]) /\ Place(wire[i]) = i

\* The bodies of the packets before f were sent, and f begins the queue.
BodiesBefore(f) ==
  /\ InOrder(Gone, traffic.start[f])
  /\ Len(wire) = traffic.start[f] - HeaderSize * (f - 1)
  /\ \A i \in 1..Len(wire) : IsCell(wire[i]) /\ wire[i][2] > HeaderSize /\ BodyPlace(wire[i]) = i

BodiesRight == LenEx > 0 /\ ~mangled => \E f \in 1..(Len(Payload) + 1) : BodiesBefore(f)

TypeInv == SendType /\ RingInv /\ SendingRight

SendInv == TypeInv /\ OutRight /\ BodiesRight

-----------------------------------------------------------------------------
\* What the constants say of the traffic.
LEMMA Starts ==
  ASSUME traffic \in Traffic
  PROVE  /\ LenEx \in {0, HeaderSize} /\ HeaderSize \in Nat \ {0}
         /\ SocketSize \in Nat \ {0} /\ MaxEvents \in Nat \ {0}
         /\ Payload \in Seq(Nat) /\ Len(Payload) \in Nat /\ \A p \in Packet : Payload[p] \in Nat
         /\ \A p \in 1..(Len(Payload) + 1) : traffic.start[p] \in Nat
         /\ traffic.start[1] = 0
         /\ \A p \in Packet :
              /\ traffic.start[p + 1] = traffic.start[p] + HeaderSize + Payload[p]
              /\ \A q \in (p + 1)..(Len(Payload) + 1) : traffic.start[p + 1] <= traffic.start[q]
         /\ \A p \in Packet : \A k \in 1..(HeaderSize + Payload[p]) : <<p, k>> \in Element
  <1>1. /\ traffic.lenEx \in {0, HeaderSize} /\ HeaderSize \in Nat \ {0}
        /\ SocketSize \in Nat \ {0} /\ MaxEvents \in Nat \ {0}
        /\ traffic.payload \in Seq(Nat) /\ AreStarts(traffic)
        /\ \A p \in 1..Len(traffic.payload) : \A k \in 1..(HeaderSize + traffic.payload[p]) : <<p, k>> \in Element
    BY SendConstants
  <1>2. Len(Payload) \in Nat /\ \A p \in Packet : Payload[p] \in Nat
    BY <1>1, LenProperties, ElementOfSeq DEF Payload, Packet
  <1>3. QED
    BY <1>1, <1>2 DEF AreStarts, LenEx, Payload, Packet

\* The cell at a place is one of the packet that the place lies in.
LEMMA CellAt ==
  ASSUME traffic \in Traffic, NEW c, IsCell(c), NEW f \in 1..(Len(Payload) + 1),
         traffic.start[f] < Place(c), f \in Packet => Place(c) <= traffic.start[f + 1]
  PROVE  f \in Packet /\ c[1] = f /\ c[2] = Place(c) - traffic.start[f]
  <1>0. PICK p \in Packet : \E k \in 1..(HeaderSize + Payload[p]) : c = <<p, k>>
    BY DEF IsCell
  <1>1. PICK k \in 1..(HeaderSize + Payload[p]) : c = <<p, k>>
    BY <1>0
  <1>2. Place(c) = traffic.start[p] + k
    BY <1>1 DEF Place
  <1>3. /\ Len(Payload) \in Nat /\ Payload[p] \in Nat /\ HeaderSize \in Nat
        /\ \A q \in 1..(Len(Payload) + 1) : traffic.start[q] \in Nat
        /\ traffic.start[p + 1] = traffic.start[p] + HeaderSize + Payload[p]
        /\ \A q \in (p + 1)..(Len(Payload) + 1) : traffic.start[p + 1] <= traffic.start[q]
    BY Starts
  <1>4. p = f
    <2>0. /\ p \in Int /\ f \in Int /\ k \in Int /\ k >= 1 /\ k <= HeaderSize + Payload[p]
          /\ traffic.start[p] \in Int /\ traffic.start[f] \in Int
      BY <1>3 DEF Packet
    <2>1. ASSUME p < f PROVE FALSE
      <3>1. f \in (p + 1)..(Len(Payload) + 1)
        BY <2>0, <2>1, <1>3
      <3>2. traffic.start[p] + HeaderSize + Payload[p] <= traffic.start[f]
        BY <3>1, <1>3
      <3>3. traffic.start[f] < traffic.start[p] + k
        BY <1>2
      <3>4. HeaderSize \in Int /\ Payload[p] \in Int
        BY <1>3
      <3>5. QED BY <3>2, <3>3, <3>4, <2>0, SMTT(40)
    <2>2. ASSUME p > f PROVE FALSE
      <3>1. f \in Packet /\ p \in (f + 1)..(Len(Payload) + 1) /\ f + 1 \in 1..(Len(Payload) + 1)
        BY <2>0, <2>2, <1>3, SMTT(40) DEF Packet
      <3>2. traffic.start[f + 1] <= traffic.start[p] /\ traffic.start[f + 1] \in Int
        <4>1. \A q \in Packet : \A r \in (q + 1)..(Len(Payload) + 1) : traffic.start[q + 1] <= traffic.start[r]
          BY Starts
        <4>2. \A q \in 1..(Len(Payload) + 1) : traffic.start[q] \in Nat
          BY Starts
        <4>3. QED BY <3>1, <4>1, <4>2
      <3>3. traffic.start[p] + k <= traffic.start[f + 1]
        BY <3>1, <1>2
      <3>4. QED BY <3>2, <3>3, <2>0
    <2>3. QED BY <2>0, <2>1, <2>2
  <1>5. k \in Int /\ traffic.start[p] \in Int
    BY <1>3 DEF Packet
  <1>6. QED
    BY <1>1, <1>2, <1>4, <1>5

-----------------------------------------------------------------------------
\* The header and the body of the packet that main is at.
LEMMA HeaderCells ==
  ASSUME traffic \in Traffic, next \in Packet
  PROVE  /\ Header(next) \in Seq(Element) /\ Len(Header(next)) = HeaderSize
         /\ \A j \in 1..HeaderSize : IsCell(Header(next)[j]) /\ Place(Header(next)[j]) = traffic.start[next] + j
  <1>1. /\ HeaderSize \in Nat /\ Payload[next] \in Nat
        /\ \A k \in 1..(HeaderSize + Payload[next]) : <<next, k>> \in Element
    BY Starts
  <1>2. \A j \in 1..HeaderSize : j \in 1..(HeaderSize + Payload[next])
    BY <1>1
  <1>3. Header(next) \in Seq(Element) /\ Len(Header(next)) = HeaderSize
    <2>1. \A j \in 1..HeaderSize : <<next, j>> \in Element
      BY <1>1, <1>2
    <2>2. [k \in 1..HeaderSize |-> <<next, k>>] \in Seq(Element)
      BY <2>1, <1>1, IsASeq
    <2>3. QED BY <2>2, <1>1, LenProperties DEF Header
  <1>4. QED
    BY <1>2, <1>3 DEF Header, IsCell, Place

LEMMA BodyCells ==
  ASSUME traffic \in Traffic, NEW p \in Packet
  PROVE  /\ Body(p) \in Seq(Element) /\ Len(Body(p)) = Payload[p] /\ Payload[p] \in Nat
         /\ \A j \in 1..Payload[p] :
              /\ Body(p)[j] = <<p, HeaderSize + j>>
              /\ IsCell(Body(p)[j]) /\ Place(Body(p)[j]) = traffic.start[p] + HeaderSize + j
  <1>1. /\ HeaderSize \in Nat /\ Payload[p] \in Nat /\ traffic.start[p] \in Nat
        /\ \A k \in 1..(HeaderSize + Payload[p]) : <<p, k>> \in Element
    BY Starts DEF Packet
  <1>2. \A j \in 1..Payload[p] : HeaderSize + j \in 1..(HeaderSize + Payload[p])
    BY <1>1
  <1>3. Body(p) \in Seq(Element) /\ Len(Body(p)) = Payload[p]
    <2>1. \A j \in 1..Payload[p] : <<p, HeaderSize + j>> \in Element
      BY <1>1, <1>2
    <2>2. [k \in 1..Payload[p] |-> <<p, HeaderSize + k>>] \in Seq(Element)
      BY <2>1, <1>1, IsASeq
    <2>3. QED BY <2>2, <1>1, LenProperties DEF Body
  <1>4. ASSUME NEW j \in 1..Payload[p]
        PROVE  /\ Body(p)[j] = <<p, HeaderSize + j>>
               /\ IsCell(Body(p)[j]) /\ Place(Body(p)[j]) = traffic.start[p] + HeaderSize + j
    <2>1. Body(p)[j] = <<p, HeaderSize + j>>
      BY DEF Body
    <2>2. IsCell(Body(p)[j])
      BY <2>1, <1>2 DEF IsCell
    <2>3. Place(Body(p)[j]) = traffic.start[p] + (HeaderSize + j)
      BY <2>1 DEF Place
    <2>4. QED BY <2>1, <2>2, <2>3, <1>1
  <1>5. QED
    BY <1>1, <1>3, <1>4

\* How much is written is a number, and it is after the packets that are.
LEMMA WrittenIs ==
  ASSUME TypeInv
  PROVE  /\ Written \in Nat /\ length \in Nat /\ head \in Nat /\ Size \in Nat /\ next \in Nat
         /\ Len(Contents) = length /\ Contents \in Seq(Element \cup {Blank}) /\ Len(wire) \in Nat
         /\ sender.ret \in Nat /\ sender.len \in Nat /\ LenEx \in Nat /\ HeaderSize \in Nat \ {0}
  <1>1. /\ traffic \in Traffic /\ next \in 1..(Len(Payload) + 1) /\ wire \in Seq(Element) /\ RingInv
        /\ sender \in [at : {"away", "pointer", "length", "send", "arm", "completion", "overrun"},
                       len : 0..Size, ret : 0..Size]
    BY DEF TypeInv, SendType
  <1>2. /\ length \in Nat /\ head \in Nat /\ Size \in Nat /\ Len(Contents) = length
        /\ Contents \in Seq(Element \cup {Blank}) /\ Len(wire) \in Nat
    BY <1>1, RingShape, ContentsSeq, LenProperties
  <1>3. LenEx \in {0, HeaderSize} /\ HeaderSize \in Nat \ {0} /\ Len(Payload) \in Nat
    BY <1>1, Starts
  <1>4. traffic.start[next] \in Nat
    BY <1>1, Starts
  <1>5. Written \in Nat
    BY <1>3, <1>4 DEF Written
  <1>6. sender.ret \in Nat /\ sender.len \in Nat
    BY <1>1, <1>2
  <1>7. QED
    BY <1>1, <1>2, <1>3, <1>5, <1>6

\* The ring gets the cells of xs, which are what is written next.
LEMMA InOrderGrows ==
  ASSUME TypeInv, NEW xs \in Seq(Element), Contents' = Contents \o xs, length' = length + Len(xs),
         traffic' = traffic, Written' = Written + Len(xs),
         \A j \in 1..Len(xs) : IsCell(xs[j]) /\ Place(xs[j]) = Written + j,
         NEW from \in Nat, NEW n \in Int, InOrder(from, n), from <= length
  PROVE  InOrder(from, n)'
  <1>1. /\ Written \in Nat /\ length \in Nat /\ Len(Contents) = length /\ Len(xs) \in Nat
        /\ Contents \in Seq(Element \cup {Blank}) /\ xs \in Seq(Element \cup {Blank})
    BY WrittenIs, LenProperties, SeqMonotonic
  <1>2. /\ \A i \in 1..length : Contents'[i] = Contents[i]
        /\ \A j \in 1..Len(xs) : Contents'[length + j] = xs[j]
    <2> DEFINE both == Contents \o xs
    <2>1. \A i \in 1..(Len(Contents) + Len(xs)) :
             both[i] = IF i <= Len(Contents) THEN Contents[i] ELSE xs[i - Len(Contents)]
      BY <1>1, ConcatProperties
    <2>2. Contents' = both
      OBVIOUS
    <2> HIDE DEF both
    <2>3. ASSUME NEW i \in 1..length PROVE both[i] = Contents[i]
      <3>1. i \in 1..(Len(Contents) + Len(xs)) /\ i <= Len(Contents)
        BY <1>1
      <3>2. QED BY <3>1, <2>1
    <2>4. ASSUME NEW j \in 1..Len(xs) PROVE both[length + j] = xs[j]
      <3>1. /\ length + j \in 1..(Len(Contents) + Len(xs)) /\ ~(length + j <= Len(Contents))
            /\ length + j - Len(Contents) = j
        BY <1>1
      <3>2. PICK k \in 1..(Len(Contents) + Len(xs)) : k = length + j
        BY <3>1
      <3>3. both[k] = IF k <= Len(Contents) THEN Contents[k] ELSE xs[k - Len(Contents)]
        BY <2>1
      <3>4. ~(k <= Len(Contents)) /\ k - Len(Contents) = j
        BY <3>1, <3>2, <1>1
      <3>5. QED BY <3>2, <3>3, <3>4
    <2>5. QED BY <2>2, <2>3, <2>4
  <1>3. ASSUME NEW i \in (from + 1)..(length + Len(xs))
        PROVE  IsCell(Contents[i])' /\ Place(Contents[i])' = n + i - from
    <2>1. CASE i <= length
      <3>1. Contents'[i] = Contents[i]
        BY <2>1, <1>1, <1>2
      <3>2. i \in (from + 1)..length
        BY <2>1, <1>1
      <3>3. IsCell(Contents[i]) /\ Place(Contents[i]) = n + i - from
        BY <3>2 DEF InOrder
      <3>4. IsCell(Contents[i])'
        BY <3>1, <3>3 DEF IsCell, Packet, Payload
      <3>5. Place(Contents[i])' = Place(Contents[i])
        BY <3>1 DEF Place
      <3>6. QED BY <3>3, <3>4, <3>5
    <2>2. CASE i > length
      <3>1. i - length \in 1..Len(xs) /\ length + (i - length) = i
        BY <2>2, <1>1
      <3>2. Contents'[i] = xs[i - length]
        BY <3>1, <1>2
      <3>3. Place(xs[i - length]) = Written + (i - length) /\ IsCell(xs[i - length])
        BY <3>1
      <3>4. length - from = Written - n
        BY DEF InOrder
      <3>5. IsCell(Contents[i])'
        BY <3>2, <3>3 DEF IsCell, Packet, Payload
      <3>6. Place(Contents[i])' = Place(xs[i - length])
        BY <3>2 DEF Place
      <3>7. QED BY <3>3, <3>4, <3>5, <3>6, <1>1
    <2>3. QED BY <2>1, <2>2, <1>1
  <1>4. length' - from = Written' - n
    <2>1. length - from = Written - n
      BY DEF InOrder
    <2>2. from \in Int /\ n \in Int /\ length \in Int /\ Written \in Int /\ Len(xs) \in Int
      BY <1>1
    <2>3. PICK l \in Int : l = length
      BY <2>2
    <2>4. PICK w \in Int : w = Written
      BY <2>2
    <2>5. PICK k \in Int : k = Len(xs)
      BY <2>2
    <2>6. (l + k) - from = (w + k) - n
      BY <2>1, <2>3, <2>4
    <2>7. QED BY <2>3, <2>4, <2>5, <2>6
  <1>5. \A i \in (from + 1)..length' : IsCell(Contents[i])' /\ Place(Contents[i])' = n + i - from
    BY <1>3
  <1>6. QED
    BY <1>4, <1>5 DEF InOrder

\* The cells that come before place n are taken off the ring.
LEMMA InOrderMoves ==
  ASSUME TypeInv, NEW m \in 0..length, NEW n \in Int, InOrder(m, n),
         Contents' = SubSeq(Contents, m + 1, length), length' = length - m,
         traffic' = traffic, Written' = Written
  PROVE  InOrder(0, n)'
  <1>1. /\ Written \in Nat /\ length \in Nat /\ Len(Contents) = length
        /\ Contents \in Seq(Element \cup {Blank})
    BY WrittenIs
  <1>2. \A i \in 1..(length - m) : Contents'[i] = Contents[m + i]
    <2>0. \A i \in (m + 1)..length : i \in 1..Len(Contents)
      BY <1>1
    <2>1. /\ \A i \in (m + 1)..length : Contents[i] \in Element \cup {Blank}
          /\ m + 1 \in Int /\ length \in Int
      BY <1>1, <2>0, ElementOfSeq
    <2>2. \A i \in 1..(length - (m + 1) + 1) : SubSeq(Contents, m + 1, length)[i] = Contents[m + 1 + i - 1]
      BY <2>1, SubSeqProperties
    <2>3. \A i \in 1..(length - m) : i \in 1..(length - (m + 1) + 1) /\ m + 1 + i - 1 = m + i
      BY <1>1
    <2>4. QED BY <2>2, <2>3
  <1>3. ASSUME NEW i \in 1..(length - m)
        PROVE  IsCell(Contents[i])' /\ Place(Contents[i])' = n + i - 0
    <2>1. Contents'[i] = Contents[m + i]
      BY <1>2
    <2>2. m + i \in (m + 1)..length /\ n + (m + i) - m = n + i - 0
      BY <1>1
    <2>3. IsCell(Contents[m + i]) /\ Place(Contents[m + i]) = n + (m + i) - m
      BY <2>2 DEF InOrder
    <2>4. IsCell(Contents[i])'
      BY <2>1, <2>3 DEF IsCell, Packet, Payload
    <2>5. Place(Contents[i])' = Place(Contents[m + i])
      BY <2>1 DEF Place
    <2>6. QED BY <2>2, <2>3, <2>4, <2>5
  <1>4. length' - 0 = Written' - n
    <2>1. length - m = Written - n
      BY DEF InOrder
    <2>2. QED BY <2>1, <1>1
  <1>5. \A i \in (0 + 1)..length' : IsCell(Contents[i])' /\ Place(Contents[i])' = n + i - 0
    <2>1. (0 + 1)..length' = 1..(length - m)
      BY <1>1
    <2>2. QED BY <2>1, <1>3
  <1>6. QED
    BY <1>4, <1>5 DEF InOrder

-----------------------------------------------------------------------------
\* The parts of the type invariant, one by one.
LEMMA TypeParts ==
  ASSUME TypeInv
  PROVE  /\ RingInv /\ traffic \in Traffic
         /\ next \in 1..(Len(Payload) + 1) /\ at \in {"header", "body", "given up"}
         /\ complete \in BOOLEAN /\ canSend \in BOOLEAN /\ removed \in BOOLEAN
         /\ armed \in BOOLEAN /\ edge \in BOOLEAN /\ mangled \in BOOLEAN
         /\ events \in 0..MaxEvents /\ room \in 0..SocketSize
         /\ sender \in [at : {"away", "pointer", "length", "send", "arm", "completion", "overrun"},
                        len : 0..Size, ret : 0..Size]
         /\ wire \in Seq(Element) /\ epoll \in {"wait", "OnSend", "mod"}
         /\ SendingRight
  BY DEF TypeInv, SendType

\* What the io thread holds was in the ring, so it is no longer than it is.
LEMMA HeldIsQueued ==
  ASSUME TypeInv
  PROVE  /\ sender.ret \in 0..length /\ Gone \in 0..length
         /\ sender.at # "completion" => Gone = 0 /\ sender.ret = 0
         /\ sender.at = "completion" => Gone = sender.ret + LenEx
  <1>1. /\ sender.ret \in Nat /\ sender.len \in Nat /\ LenEx \in Nat /\ length \in Nat
    BY WrittenIs
  <1>2. /\ sender.at = "completion" => sender.len <= length /\ sender.ret + LenEx <= sender.len
        /\ sender.at # "completion" => sender.ret = 0
    BY TypeParts DEF SendingRight
  <1>3. QED
    BY <1>1, <1>2 DEF Gone

\* Steps that leave the ring alone, and the length that the io thread holds.
LEMMA QuietType ==
  ASSUME TypeInv, UNCHANGED qvars,
         PreSend \/ TakeEvent \/ SendBlocks \/ SendOverruns \/ Arm \/ EpollThread \/ PeerReads
  PROVE  TypeInv'
  <1>1. RingInv' /\ Contents' = Contents /\ length' = length /\ head' = head
    BY TypeParts, RingUnchanged DEF qvars
  <1>2. /\ UNCHANGED <<traffic, next, at, removed, complete, wire>>
        /\ LenEx' = LenEx /\ Payload' = Payload /\ Packet' = Packet
    BY DEF PreSend, TakeEvent, SendBlocks, SendOverruns, Arm, EpollThread, EpollWait, OnSend, Disarm,
           PeerReads, mainPart, LenEx, Payload, Packet
  <1>3. /\ canSend' \in BOOLEAN /\ armed' \in BOOLEAN /\ edge' \in BOOLEAN /\ mangled' \in BOOLEAN
        /\ epoll' \in {"wait", "OnSend", "mod"}
    BY TypeParts DEF PreSend, TakeEvent, SendBlocks, SendOverruns, Arm, EpollThread, EpollWait, OnSend, Disarm,
                     PeerReads
  <1>4. events' \in 0..MaxEvents /\ room' \in 0..SocketSize
    <2>1. MaxEvents \in Nat /\ SocketSize \in Nat /\ events \in 0..MaxEvents /\ room \in 0..SocketSize
      BY TypeParts, Starts
    <2>2. UNCHANGED events \/ (events < MaxEvents /\ events' = events + 1) \/ (events > 0 /\ events' = events - 1)
      BY DEF PreSend, TakeEvent, SendBlocks, SendOverruns, Arm, EpollThread, EpollWait, OnSend, Disarm, PeerReads
    <2>3. room' \in {room, SocketSize}
      BY DEF PreSend, TakeEvent, SendBlocks, SendOverruns, Arm, EpollThread, EpollWait, OnSend, Disarm, PeerReads
    <2>4. QED BY <2>1, <2>2, <2>3
  <1>5. \/ sender' = sender
        \/ sender.at = "away" /\ sender' = [sender EXCEPT !.at = "pointer"]
        \/ sender.at = "send" /\ sender.len > LenEx /\ (LenEx > 0 => mangled') /\ sender' = [sender EXCEPT !.at = "arm"]
        \/ sender.at = "send" /\ sender' = [sender EXCEPT !.at = "overrun"]
        \/ sender.at = "arm" /\ sender' = [sender EXCEPT !.at = "completion"]
    <2>1. CASE TakeEvent
      BY <2>1 DEF TakeEvent
    <2>2. CASE SendBlocks
      BY <2>2 DEF SendBlocks
    <2>3. CASE SendOverruns
      BY <2>3 DEF SendOverruns
    <2>4. CASE Arm
      BY <2>4 DEF Arm
    <2>5. CASE PreSend \/ EpollThread \/ PeerReads
      BY <2>5 DEF PreSend, EpollThread, EpollWait, OnSend, Disarm, PeerReads
    <2>6. QED BY <2>1, <2>2, <2>3, <2>4, <2>5
  <1>6. mangled => mangled'
    BY DEF PreSend, TakeEvent, SendBlocks, SendOverruns, Arm, EpollThread, EpollWait, OnSend, Disarm, PeerReads
  <1>7. sender' \in [at : {"away", "pointer", "length", "send", "arm", "completion", "overrun"},
                     len : 0..Size, ret : 0..Size]
    BY <1>5, TypeParts
  <1>8. SendType'
    BY <1>1, <1>2, <1>3, <1>4, <1>7, TypeParts DEF SendType, RingInv
  <1>9. SendingRight'
    <2>1. /\ sender.len \in Nat /\ sender.ret \in Nat /\ LenEx \in Nat /\ length \in Nat /\ head \in Nat
          /\ SendingRight
      BY TypeParts, WrittenIs
    <2>2. /\ sender'.at \in {"send", "arm", "completion"} => sender'.len <= length /\ head + sender'.len <= Size
          /\ sender'.at # "completion" => sender'.ret = 0
          /\ sender'.at = "completion" => sender'.ret + LenEx <= sender'.len
          /\ sender'.at = "arm" => LenEx < sender'.len /\ (LenEx > 0 => mangled')
      <3>1. CASE sender' = sender
        BY <3>1, <2>1, <1>6 DEF SendingRight
      <3>2. CASE sender.at = "away" /\ sender' = [sender EXCEPT !.at = "pointer"]
        BY <3>2, <2>1, TypeParts DEF SendingRight
      <3>3. CASE sender.at = "send" /\ sender.len > LenEx /\ (LenEx > 0 => mangled') /\ sender' = [sender EXCEPT !.at = "arm"]
        BY <3>3, <2>1, TypeParts DEF SendingRight
      <3>4. CASE sender.at = "send" /\ sender' = [sender EXCEPT !.at = "overrun"]
        BY <3>4, <2>1, TypeParts DEF SendingRight
      <3>5. CASE sender.at = "arm" /\ sender' = [sender EXCEPT !.at = "completion"]
        <4>1. sender'.at = "completion" /\ sender'.len = sender.len /\ sender'.ret = sender.ret
          BY <3>5, TypeParts
        <4>2. /\ sender.ret = 0 /\ LenEx < sender.len
              /\ sender.len <= length /\ head + sender.len <= Size
          BY <3>5, <2>1 DEF SendingRight
        <4>3. QED BY <4>1, <4>2, <2>1
      <3>6. QED BY <1>5, <3>1, <3>2, <3>3, <3>4, <3>5
    <2>3. QED BY <2>1, <2>2, <1>1, <1>2 DEF SendingRight
  <1>10. QED
    BY <1>1, <1>8, <1>9 DEF TypeInv

\* Main writes behind what is queued, or nothing.
LEMMA WriteStep ==
  ASSUME TypeInv, NEW xs \in Seq(Element), Enqueue(xs)
  PROVE  /\ RingInv' /\ Contents' = Contents \o xs /\ length' = length + Len(xs) /\ head' = head
         /\ length' \in Nat /\ length' >= length
         /\ \A i \in 1..length' : Contents'[i] \in Element
  <1>1. RingInv' /\ Contents' = Contents \o xs
    BY EnqueueStep, TypeParts
  <1>2. length' = length + Len(xs) /\ head' = head
    BY DEF Enqueue, Advance
  <1>3. /\ Len(xs) \in Nat /\ length \in Nat /\ Len(Contents) = length
        /\ Contents \in Seq(Element \cup {Blank}) /\ xs \in Seq(Element \cup {Blank})
        /\ \A i \in 1..Len(xs) : xs[i] \in Element
    BY WrittenIs, LenProperties, SeqMonotonic, ElementOfSeq
  <1>4. ASSUME NEW i \in 1..(Len(Contents) + Len(xs))
        PROVE  (Contents \o xs)[i] \in Element
    <2> DEFINE both == Contents \o xs
    <2>1. both[i] = IF i <= Len(Contents) THEN Contents[i] ELSE xs[i - Len(Contents)]
      BY <1>3, ConcatProperties
    <2>2. CASE i <= Len(Contents)
      <3>1. i \in 1..length
        BY <2>2, <1>3
      <3>2. Contents[i] \in Element
        BY <3>1, TypeParts DEF SendingRight
      <3>3. QED BY <2>1, <2>2, <3>2
    <2>3. CASE ~(i <= Len(Contents))
      <3>1. i - Len(Contents) \in 1..Len(xs)
        BY <2>3, <1>3
      <3>2. QED BY <2>1, <2>3, <3>1, <1>3
    <2>4. QED BY <2>2, <2>3
  <1>5. \A i \in 1..length' : Contents'[i] \in Element
    <2>1. length' = Len(Contents) + Len(xs)
      BY <1>2, <1>3
    <2>2. QED BY <2>1, <1>1, <1>4
  <1>6. QED
    BY <1>1, <1>2, <1>3, <1>5

LEMMA HeldStays ==
  ASSUME TypeInv, length' \in Nat, length' >= length
  PROVE  sender.at \in {"send", "arm", "completion"} => sender.len <= length' /\ head + sender.len <= Size
  <1>1. sender.len \in Nat /\ length \in Nat
    BY WrittenIs
  <1>2. ASSUME sender.at \in {"send", "arm", "completion"}
        PROVE  sender.len <= length' /\ head + sender.len <= Size
    <2>1. sender.len <= length /\ head + sender.len <= Size
      BY <1>2, TypeParts DEF SendingRight
    <2>2. QED BY <1>1, <2>1
  <1>3. QED BY <1>2

\* The main thread's steps change nothing of what the io thread holds.
LEMMA MainType ==
  ASSUME TypeInv, UNCHANGED sendPart, RingInv', head' = head, length' \in Nat, length' >= length,
         \A i \in 1..length' : Contents'[i] \in Element,
         next' \in 1..(Len(Payload) + 1), at' \in {"header", "body", "given up"},
         removed' \in BOOLEAN, at' # "header" => next' \in Packet
  PROVE  TypeInv'
  <1>1. UNCHANGED <<traffic, complete, canSend, events, sender, room, wire, armed, edge, epoll, mangled>>
        /\ LenEx' = LenEx /\ Payload' = Payload /\ Packet' = Packet
    BY DEF sendPart, LenEx, Payload, Packet
  <1>2. SendType'
    BY <1>1, TypeParts DEF SendType, RingInv
  <1>3. SendingRight'
    <2>1. SendingRight
      BY TypeParts
    <2>2. sender.at \in {"send", "arm", "completion"} => sender.len <= length' /\ head + sender.len <= Size
      BY HeldStays
    <2>3. QED BY <2>1, <2>2, <1>1 DEF SendingRight
  <1>4. QED BY <1>2, <1>3 DEF TypeInv

LEMMA WriteHeaderType ==
  ASSUME TypeInv, WriteHeader
  PROVE  TypeInv'
  <1>1. /\ at = "header" /\ next \in Packet /\ UNCHANGED <<next, sendPart>>
        /\ next \in 1..(Len(Payload) + 1) /\ removed \in BOOLEAN /\ length \in Nat /\ RingInv
    BY TypeParts, WrittenIs DEF WriteHeader
  <1>2. CASE Enqueue(Header(next)) /\ at' = "body" /\ UNCHANGED removed
    <2>1. Header(next) \in Seq(Element)
      BY <1>1, HeaderCells, TypeParts
    <2>2. /\ RingInv' /\ head' = head /\ length' \in Nat /\ length' >= length
          /\ \A i \in 1..length' : Contents'[i] \in Element
      BY <1>2, <2>1, WriteStep
    <2>3. QED BY <1>1, <1>2, <2>2, MainType
  <1>3. CASE removed' = TRUE /\ UNCHANGED <<qvars, at>>
    <2>1. RingInv' /\ head' = head /\ length' = length /\ Contents' = Contents
      BY <1>1, <1>3, RingUnchanged DEF qvars
    <2>2. \A i \in 1..length : Contents[i] \in Element
      BY TypeParts DEF SendingRight
    <2>3. length' \in Nat /\ length' >= length /\ \A i \in 1..length' : Contents'[i] \in Element
      BY <1>1, <2>1, <2>2
    <2>4. QED BY <1>1, <1>3, <2>1, <2>3, MainType
  <1>4. QED BY <1>2, <1>3 DEF WriteHeader

LEMMA WriteBodyType ==
  ASSUME TypeInv, WriteBody
  PROVE  TypeInv'
  <1>0. next \in Packet
    BY TypeParts DEF WriteBody, SendingRight
  <1>1. /\ at = "body" /\ UNCHANGED sendPart
        /\ next \in 1..(Len(Payload) + 1) /\ removed \in BOOLEAN /\ length \in Nat /\ RingInv
        /\ Len(Payload) \in Nat
    BY TypeParts, WrittenIs, Starts DEF WriteBody, SendingRight
  <1>2. CASE Enqueue(Body(next)) /\ next' = next + 1 /\ at' = "header" /\ UNCHANGED removed
    <2>1. Body(next) \in Seq(Element)
      BY <1>0, BodyCells, TypeParts
    <2>2. /\ RingInv' /\ head' = head /\ length' \in Nat /\ length' >= length
          /\ \A i \in 1..length' : Contents'[i] \in Element
      BY <1>2, <2>1, WriteStep
    <2>3. next + 1 \in 1..(Len(Payload) + 1)
      BY <1>0, <1>1 DEF Packet
    <2>4. at' = "header" /\ removed' \in BOOLEAN
      BY <1>1, <1>2
    <2>5. next' \in 1..(Len(Payload) + 1)
      BY <1>2, <2>3
    <2>6. QED BY <1>1, <2>2, <2>4, <2>5, MainType
  <1>3. CASE removed' = TRUE /\ at' = "given up" /\ UNCHANGED <<qvars, next>>
    <2>1. RingInv' /\ head' = head /\ length' = length /\ Contents' = Contents
      BY <1>1, <1>3, RingUnchanged DEF qvars
    <2>2. \A i \in 1..length : Contents[i] \in Element
      BY TypeParts DEF SendingRight
    <2>3. length' \in Nat /\ length' >= length
      BY <1>1, <2>1
    <2>4. \A i \in 1..length' : Contents'[i] \in Element
      BY <2>1, <2>2
    <2>5. at' = "given up" /\ removed' \in BOOLEAN /\ next' \in 1..(Len(Payload) + 1) /\ next' \in Packet
      BY <1>0, <1>1, <1>3
    <2>6. QED BY <1>1, <2>1, <2>3, <2>4, <2>5, MainType
  <1>4. QED BY <1>2, <1>3 DEF WriteBody

\* What SendSome gives to the socket lies in the ring.
LEMMA GivenCells ==
  ASSUME TypeInv, sender.at = "send", NEW n \in 0..(sender.len - LenEx)
  PROVE  /\ sender.len <= length /\ LenEx + n <= length
         /\ \A i \in 1..sender.len : data[head + i - 1] = Contents[i]
         /\ \A i \in 1..n : data[head + LenEx + i - 1] = Contents[LenEx + i]
         /\ [i \in 1..n |-> data[head + LenEx + i - 1]] \in Seq(Element)
         /\ Len([i \in 1..n |-> data[head + LenEx + i - 1]]) = n
  <1>1. /\ sender.len \in Nat /\ length \in Nat /\ LenEx \in Nat /\ head \in Nat /\ Size \in Nat
    BY WrittenIs
  <1>2. /\ sender.len <= length /\ head + sender.len <= Size
        /\ \A i \in 1..length : Contents[i] \in Element
    BY TypeParts DEF SendingRight
  <1>3. \A i \in 1..length : head + i <= Size => data[head + i - 1] = Contents[i]
    BY TypeParts, ReadableCells
  <1>4. ASSUME NEW i \in 1..sender.len
        PROVE  data[head + i - 1] = Contents[i] /\ i \in 1..length
    <2>1. i \in 1..length /\ head + i <= Size
      BY <1>1, <1>2
    <2>2. QED BY <2>1, <1>3
  <1>5. ASSUME NEW i \in 1..n
        PROVE  data[head + LenEx + i - 1] = Contents[LenEx + i] /\ Contents[LenEx + i] \in Element
    <2>1. PICK j \in 1..sender.len : j = LenEx + i
      BY <1>1
    <2>2. data[head + j - 1] = Contents[j] /\ j \in 1..length
      BY <1>4
    <2>3. head + j - 1 = head + LenEx + i - 1
      BY <2>1, <1>1
    <2>4. data[head + LenEx + i - 1] = Contents[j]
      BY <2>2, <2>3
    <2>5. QED BY <2>1, <2>2, <2>4, <1>2
  <1>6. n \in Nat /\ LenEx + n <= length
    BY <1>1, <1>2
  <1>7. [i \in 1..n |-> data[head + LenEx + i - 1]] \in Seq(Element)
    <2>1. \A i \in 1..n : data[head + LenEx + i - 1] \in Element
      BY <1>5
    <2>2. QED BY <2>1, <1>6, IsASeq
  <1>8. Len([i \in 1..n |-> data[head + LenEx + i - 1]]) = n
    BY <1>6, <1>7, LenProperties
  <1>9. QED
    BY <1>2, <1>4, <1>5, <1>6, <1>7, <1>8

LEMMA ReadPointerType ==
  ASSUME TypeInv, ReadPointer
  PROVE  TypeInv' /\ Contents' = Contents /\ length' = length
  <1>1. RingInv' /\ Contents' = Contents /\ length' = length /\ head' = head
    BY TypeParts, ReadPtrStep DEF ReadPointer
  <1>2. /\ UNCHANGED <<traffic, next, at, removed, complete, canSend, events, room, wire, armed, edge, epoll, mangled>>
        /\ LenEx' = LenEx /\ Payload' = Payload /\ Packet' = Packet
        /\ sender.at = "pointer" /\ sender' = [sender EXCEPT !.at = "length"]
    BY DEF ReadPointer, mainPart, LenEx, Payload, Packet
  <1>3. sender' \in [at : {"away", "pointer", "length", "send", "arm", "completion", "overrun"},
                     len : 0..Size, ret : 0..Size]
    BY <1>2, TypeParts
  <1>4. SendType'
    BY <1>1, <1>2, <1>3, TypeParts DEF SendType, RingInv
  <1>5. sender'.at = "length" /\ sender'.ret = sender.ret
    BY <1>2, TypeParts
  <1>6. SendingRight'
    BY <1>1, <1>2, <1>5, TypeParts DEF SendingRight
  <1>7. QED BY <1>1, <1>4, <1>6 DEF TypeInv

LEMMA ReadLengthType ==
  ASSUME TypeInv, ReadLength
  PROVE  TypeInv' /\ Contents' = Contents /\ length' = length
  <1>1. RingInv' /\ Contents' = Contents /\ length' = length /\ head' = head
    BY TypeParts, RingUnchanged DEF ReadLength, qvars
  <1>2. /\ UNCHANGED <<traffic, next, at, removed, canSend, events, room, wire, armed, edge, epoll, mangled>>
        /\ LenEx' = LenEx /\ Payload' = Payload /\ Packet' = Packet /\ complete' \in BOOLEAN
        /\ sender.at = "length" /\ sender' = [sender EXCEPT !.at = "send", !.len = GetReadableLen]
    BY DEF ReadLength, mainPart, LenEx, Payload, Packet
  <1>3. GetReadableLen \in 0..length /\ head + GetReadableLen <= Size
    BY TypeParts, ReadableCells
  <1>4. GetReadableLen \in 0..Size /\ length \in Nat
    <2>1. length \in 0..Size /\ Size \in Nat
      BY TypeParts, RingShape
    <2>2. QED BY <1>3, <2>1
  <1>5. sender' \in [at : {"away", "pointer", "length", "send", "arm", "completion", "overrun"},
                     len : 0..Size, ret : 0..Size]
    BY <1>2, <1>4, TypeParts
  <1>6. SendType'
    BY <1>1, <1>2, <1>5, TypeParts DEF SendType, RingInv
  <1>7. sender'.at = "send" /\ sender'.ret = sender.ret /\ sender'.len = GetReadableLen
    BY <1>2, TypeParts
  <1>8. sender'.len <= length' /\ head' + sender'.len <= Size
    BY <1>1, <1>3, <1>4, <1>7
  <1>9. SendingRight'
    BY <1>1, <1>2, <1>7, <1>8, TypeParts DEF SendingRight
  <1>10. QED BY <1>1, <1>6, <1>9 DEF TypeInv

LEMMA SendSomeType ==
  ASSUME TypeInv, SendSome
  PROVE  TypeInv' /\ Contents' = Contents /\ length' = length
  <1>1. RingInv' /\ Contents' = Contents /\ length' = length /\ head' = head
    BY TypeParts, RingUnchanged DEF SendSome, qvars
  <1>2. /\ UNCHANGED <<traffic, next, at, removed, complete, canSend, events, armed, edge, epoll>>
        /\ LenEx' = LenEx /\ Payload' = Payload /\ Packet' = Packet
        /\ sender.at = "send" /\ mangled' \in BOOLEAN
    BY TypeParts DEF SendSome, mainPart, LenEx, Payload, Packet
  <1>3. PICK n \in 0..(sender.len - LenEx) :
          /\ n <= room
          /\ wire' = wire \o [i \in 1..n |-> data[head + LenEx + i - 1]]
          /\ room' = room - n
          /\ sender' = [sender EXCEPT !.at = "completion", !.ret = n]
    BY DEF SendSome
  <1>4. /\ sender.len \in 0..Size /\ LenEx \in Nat /\ room \in 0..SocketSize /\ SocketSize \in Nat /\ Size \in Nat
    BY TypeParts, Starts, WrittenIs
  <1>5. n \in 0..Size /\ room' \in 0..SocketSize /\ n + LenEx <= sender.len
    BY <1>3, <1>4
  <1>6. wire' \in Seq(Element)
    BY <1>2, <1>3, GivenCells, TypeParts, ConcatProperties
  <1>7. sender' \in [at : {"away", "pointer", "length", "send", "arm", "completion", "overrun"},
                     len : 0..Size, ret : 0..Size]
    BY <1>3, <1>5, TypeParts
  <1>8. SendType'
    BY <1>1, <1>2, <1>5, <1>6, <1>7, TypeParts DEF SendType, RingInv
  <1>9. sender'.at = "completion" /\ sender'.ret = n /\ sender'.len = sender.len
    BY <1>3, TypeParts
  <1>10. sender.len <= length /\ head + sender.len <= Size
    BY <1>2, TypeParts DEF SendingRight
  <1>11. SendingRight'
    BY <1>1, <1>2, <1>5, <1>9, <1>10, TypeParts DEF SendingRight
  <1>12. QED BY <1>1, <1>8, <1>11 DEF TypeInv

LEMMA DoneSendingType ==
  ASSUME TypeInv, DoneSending
  PROVE  /\ TypeInv' /\ Gone \in 0..length
         /\ Contents' = SubSeq(Contents, Gone + 1, length) /\ length' = length - Gone
  <1>1. Gone = sender.ret + LenEx /\ Gone \in 0..length /\ Gone \in Nat /\ length \in Nat
    BY HeldIsQueued, WrittenIs DEF DoneSending
  <1>2. Dequeue(Gone)
    BY <1>1 DEF DoneSending
  <1>3. RingInv' /\ Contents' = SubSeq(Contents, Gone + 1, length)
    BY <1>1, <1>2, TypeParts, DequeueStep
  <1>4. length' = length - Gone
    BY <1>2 DEF Dequeue
  <1>5. /\ UNCHANGED <<traffic, next, at, removed, canSend, events, room, wire, armed, edge, epoll, mangled>>
        /\ LenEx' = LenEx /\ Payload' = Payload /\ Packet' = Packet /\ complete' \in BOOLEAN
        /\ sender' = Away
    BY DEF DoneSending, mainPart, LenEx, Payload, Packet
  <1>6. sender' \in [at : {"away", "pointer", "length", "send", "arm", "completion", "overrun"},
                     len : 0..Size, ret : 0..Size]
    <2>1. 0 \in 0..Size
      BY QueueAssumption
    <2>2. QED BY <1>5, <2>1 DEF Away
  <1>7. SendType'
    BY <1>3, <1>5, <1>6, TypeParts DEF SendType, RingInv
  <1>8. ASSUME NEW i \in 1..(length - Gone)
        PROVE  Contents'[i] \in Element
    <2>1. \A j \in 1..length : Contents[j] \in Element
      BY TypeParts DEF SendingRight
    <2>2. \A j \in (Gone + 1)..length : Contents[j] \in Element
      BY <2>1, <1>1
    <2>3. Gone + 1 \in Int /\ length \in Int
      BY <1>1
    <2>4. SubSeq(Contents, Gone + 1, length)[i] = Contents[Gone + 1 + i - 1]
      <3>1. \A j \in 1..(length - (Gone + 1) + 1) :
               SubSeq(Contents, Gone + 1, length)[j] = Contents[Gone + 1 + j - 1]
        BY <2>2, <2>3, SubSeqProperties
      <3>2. i \in 1..(length - (Gone + 1) + 1)
        BY <1>1
      <3>3. QED BY <3>1, <3>2
    <2>5. Gone + 1 + i - 1 \in 1..length
      BY <1>1
    <2>6. QED BY <2>1, <2>4, <2>5, <1>3
  <1>9. \A i \in 1..length' : Contents'[i] \in Element
    BY <1>4, <1>8
  <1>10. sender'.at = "away" /\ sender'.ret = 0
    BY <1>5 DEF Away
  <1>11. SendingRight'
    BY <1>5, <1>9, <1>10, TypeParts DEF SendingRight
  <1>12. QED BY <1>1, <1>3, <1>4, <1>7, <1>11 DEF TypeInv

-----------------------------------------------------------------------------
\* Steps that change neither what is queued nor what is written nor the wire.
LEMMA Untouched ==
  ASSUME OutRight, BodiesRight, Contents' = Contents, length' = length, traffic' = traffic,
         Written' = Written, wire' = wire, sender'.ret = sender.ret,
         LenEx > 0 /\ ~mangled' => ~mangled /\ Gone' = Gone
  PROVE  OutRight' /\ BodiesRight'
  <1>1. LenEx' = LenEx /\ Payload' = Payload /\ Packet' = Packet
    BY DEF LenEx, Payload, Packet
  <1>2. OutRight'
    BY <1>1 DEF OutRight, InOrder, IsCell, Place
  <1>3. BodiesRight'
    <2>1. SUFFICES ASSUME LenEx > 0, ~mangled'
                   PROVE  \E f \in 1..(Len(Payload) + 1) : BodiesBefore(f)'
      BY <1>1 DEF BodiesRight
    <2>2. ~mangled /\ Gone' = Gone
      BY <2>1
    <2>3. PICK f \in 1..(Len(Payload) + 1) : BodiesBefore(f)
      BY <2>1, <2>2 DEF BodiesRight
    <2>4. BodiesBefore(f)'
      BY <1>1, <2>2, <2>3 DEF BodiesBefore, InOrder, IsCell, Place, BodyPlace
    <2>5. QED BY <2>4
  <1>4. QED BY <1>2, <1>3

\* What main writes, header or body, is what comes after what was written.
LEMMA WriteOrder ==
  ASSUME TypeInv, OutRight, BodiesRight, NEW xs \in Seq(Element), Enqueue(xs),
         UNCHANGED <<traffic, sender, wire, mangled>>, Written' = Written + Len(xs),
         \A j \in 1..Len(xs) : IsCell(xs[j]) /\ Place(xs[j]) = Written + j
  PROVE  OutRight' /\ BodiesRight'
  <1>1. LenEx' = LenEx /\ Payload' = Payload /\ Packet' = Packet /\ Gone' = Gone
    BY DEF LenEx, Payload, Packet, Gone
  <1>2. Contents' = Contents \o xs /\ length' = length + Len(xs)
    BY WriteStep
  <1>3. \A from \in 0..length, n \in Int : InOrder(from, n) => InOrder(from, n)'
    <2>1. SUFFICES ASSUME NEW from \in 0..length, NEW n \in Int, InOrder(from, n)
                   PROVE  InOrder(from, n)'
      OBVIOUS
    <2>2. from \in Nat /\ from <= length
      BY WrittenIs
    <2>3. QED BY <1>2, <2>1, <2>2, InOrderGrows
  <1>4. /\ sender.ret \in 0..length /\ Gone \in 0..length /\ Len(wire) \in Int
        /\ \A f \in 1..(Len(Payload) + 1) : traffic.start[f] \in Int
    <2>1. traffic \in Traffic /\ Len(wire) \in Nat
      BY WrittenIs, TypeParts
    <2>2. \A f \in 1..(Len(Payload) + 1) : traffic.start[f] \in Nat
      BY <2>1, Starts
    <2>3. QED BY <2>1, <2>2, HeldIsQueued
  <1>5. OutRight'
    <2>1. SUFFICES ASSUME LenEx = 0 PROVE OutRight'
      BY <1>1 DEF OutRight
    <2>2. PICK r \in 0..length : r = sender.ret
      BY <1>4
    <2>3. PICK n \in Int : n = Len(wire)
      BY <1>4
    <2>4. InOrder(r, n)'
      BY <1>3, <2>1, <2>2, <2>3 DEF OutRight
    <2>5. InOrder(sender.ret, Len(wire))'
      BY <2>2, <2>3, <2>4
    <2>6. \A i \in 1..Len(wire) : IsCell(wire[i]) /\ Place(wire[i]) = i
      BY <2>1 DEF OutRight
    <2>7. \A i \in 1..Len(wire') : IsCell(wire[i])' /\ Place(wire[i])' = i
      BY <2>6, <1>1 DEF IsCell, Place
    <2>8. QED BY <2>5, <2>7 DEF OutRight
  <1>6. BodiesRight'
    <2>1. SUFFICES ASSUME LenEx > 0, ~mangled
                   PROVE  \E f \in 1..(Len(Payload) + 1) : BodiesBefore(f)'
      BY <1>1 DEF BodiesRight
    <2>2. PICK f \in 1..(Len(Payload) + 1) : BodiesBefore(f)
      BY <2>1 DEF BodiesRight
    <2>3. PICK r \in 0..length : r = Gone
      BY <1>4
    <2>4. PICK n \in Int : n = traffic.start[f]
      BY <1>4
    <2>5. InOrder(r, n)'
      BY <1>3, <2>2, <2>3, <2>4 DEF BodiesBefore
    <2>6. InOrder(Gone, traffic.start[f])'
      BY <1>1, <2>3, <2>4, <2>5
    <2>7. /\ Len(wire) = traffic.start[f] - HeaderSize * (f - 1)
          /\ \A i \in 1..Len(wire) : IsCell(wire[i]) /\ wire[i][2] > HeaderSize /\ BodyPlace(wire[i]) = i
      BY <2>2 DEF BodiesBefore
    <2>8. \A i \in 1..Len(wire') : IsCell(wire[i])' /\ wire'[i][2] > HeaderSize /\ BodyPlace(wire[i])' = i
      BY <2>7, <1>1 DEF IsCell, BodyPlace, Place
    <2>9. BodiesBefore(f)'
      BY <2>6, <2>7, <2>8 DEF BodiesBefore
    <2>10. QED BY <2>9
  <1>7. QED BY <1>5, <1>6

LEMMA WriteHeaderOrder ==
  ASSUME TypeInv, OutRight, BodiesRight, WriteHeader
  PROVE  OutRight' /\ BodiesRight'
  <1>1. /\ at = "header" /\ next \in Packet /\ UNCHANGED <<next, traffic, sender, wire, mangled>>
        /\ Gone' = Gone
    BY DEF WriteHeader, sendPart, Gone, LenEx
  <1>2. CASE Enqueue(Header(next)) /\ at' = "body"
    <2>1. /\ Header(next) \in Seq(Element) /\ Len(Header(next)) = HeaderSize
          /\ \A j \in 1..HeaderSize :
               IsCell(Header(next)[j]) /\ Place(Header(next)[j]) = traffic.start[next] + j
      BY <1>1, HeaderCells, TypeParts
    <2>2. traffic.start[next] \in Nat /\ HeaderSize \in Nat
      BY TypeParts, Starts
    <2>3. Written = traffic.start[next] /\ Written' = Written + HeaderSize
      BY <1>1, <1>2, <2>2 DEF Written
    <2>4. QED BY <1>1, <1>2, <2>1, <2>3, WriteOrder
  <1>3. CASE UNCHANGED <<qvars, at>>
    <2>1. Contents' = Contents /\ length' = length
      BY <1>3, RingUnchanged, TypeParts DEF qvars
    <2>2. Written' = Written
      BY <1>1, <1>3 DEF Written
    <2>3. QED BY <1>1, <2>1, <2>2, Untouched
  <1>4. QED BY <1>2, <1>3 DEF WriteHeader

LEMMA WriteBodyOrder ==
  ASSUME TypeInv, OutRight, BodiesRight, WriteBody
  PROVE  OutRight' /\ BodiesRight'
  <1>1. /\ at = "body" /\ next \in Packet /\ UNCHANGED <<traffic, sender, wire, mangled>>
        /\ Gone' = Gone
    BY TypeParts DEF WriteBody, sendPart, Gone, LenEx, SendingRight
  <1>2. CASE Enqueue(Body(next)) /\ next' = next + 1 /\ at' = "header"
    <2>1. PICK p \in Packet : p = next
      BY <1>1
    <2>2. /\ Body(p) \in Seq(Element) /\ Len(Body(p)) = Payload[p] /\ Payload[p] \in Nat
          /\ \A j \in 1..Payload[p] :
               IsCell(Body(p)[j]) /\ Place(Body(p)[j]) = traffic.start[p] + HeaderSize + j
      BY BodyCells, TypeParts
    <2>3. traffic.start[p + 1] = traffic.start[p] + HeaderSize + Payload[p]
      BY TypeParts, Starts
    <2>4. traffic.start[p] \in Nat /\ HeaderSize \in Nat
      BY TypeParts, Starts, <2>1
    <2>5. Written = traffic.start[p] + HeaderSize
      BY <1>1, <2>1 DEF Written
    <2>6. Written' = traffic.start[p + 1] + 0
      BY <1>1, <1>2, <2>1 DEF Written
    <2>7. Written' = Written + Len(Body(p))
      BY <2>2, <2>3, <2>4, <2>5, <2>6
    <2>8. \A j \in 1..Len(Body(p)) : IsCell(Body(p)[j]) /\ Place(Body(p)[j]) = Written + j
      BY <2>2, <2>5
    <2>9. Enqueue(Body(p))
      BY <1>2, <2>1
    <2>10. QED BY <1>1, <2>2, <2>7, <2>8, <2>9, WriteOrder
  <1>3. CASE at' = "given up" /\ UNCHANGED <<qvars, next>>
    <2>1. Contents' = Contents /\ length' = length
      BY <1>3, RingUnchanged, TypeParts DEF qvars
    <2>2. Written' = Written
      BY <1>1, <1>3 DEF Written
    <2>3. QED BY <1>1, <2>1, <2>2, Untouched
  <1>4. QED BY <1>2, <1>3 DEF WriteBody

\* With headers, the socket is given the next cells.
LEMMA SendSomeOut ==
  ASSUME TypeInv, OutRight, SendSome
  PROVE  OutRight'
  <1>1. SUFFICES ASSUME LenEx = 0 PROVE OutRight'
    BY DEF SendSome, mainPart, OutRight, LenEx
  <1>2. /\ UNCHANGED <<traffic, next, at>> /\ LenEx' = LenEx /\ Payload' = Payload /\ Packet' = Packet
        /\ sender.at = "send" /\ Written' = Written
    BY DEF SendSome, mainPart, LenEx, Payload, Packet, Written
  <1>3. Contents' = Contents /\ length' = length
    BY SendSomeType
  <1>4. PICK n \in 0..(sender.len - LenEx) :
          /\ wire' = wire \o [i \in 1..n |-> data[head + LenEx + i - 1]]
          /\ sender' = [sender EXCEPT !.at = "completion", !.ret = n]
    BY DEF SendSome
  <1> DEFINE given == [i \in 1..n |-> data[head + LenEx + i - 1]]
  <1>5. /\ given \in Seq(Element) /\ Len(given) = n /\ n <= length
        /\ \A i \in 1..n : given[i] = Contents[i]
    <2>1. /\ LenEx + n <= length /\ given \in Seq(Element) /\ Len(given) = n
          /\ \A i \in 1..n : data[head + LenEx + i - 1] = Contents[LenEx + i]
      BY <1>2, GivenCells
    <2>2. n \in Int /\ length \in Int
      <3>1. sender.len \in Nat /\ LenEx \in Nat /\ length \in Nat
        BY WrittenIs
      <3>2. QED BY <3>1, <1>4
    <2>3. \A i \in 1..n : given[i] = data[head + LenEx + i - 1]
      OBVIOUS
    <2>4. \A i \in 1..n : LenEx + i = i
      BY <1>1, <2>2
    <2>5. QED BY <2>1, <2>2, <2>3, <2>4, <1>1
  <1>6. wire' = wire \o given
    BY <1>4
  <1> HIDE DEF given
  <1>7. PICK w \in Nat : w = Len(wire)
    BY WrittenIs
  <1>8. n \in Nat /\ length \in Nat /\ wire \in Seq(Element) /\ Written \in Nat
    <2>1. Len(given) \in Nat
      BY <1>5, LenProperties
    <2>2. QED BY <2>1, <1>5, WrittenIs, TypeParts
  <1>9. /\ Len(wire') = w + n
        /\ \A i \in 1..(w + n) : wire'[i] = IF i <= w THEN wire[i] ELSE given[i - w]
    BY <1>5, <1>6, <1>7, <1>8, ConcatProperties
  <1>10. sender.ret = 0 /\ sender'.ret = n
    BY <1>2, <1>4, HeldIsQueued, TypeParts
  <1>11. /\ length - 0 = Written - w
         /\ \A i \in (0 + 1)..length : IsCell(Contents[i]) /\ Place(Contents[i]) = w + i - 0
    BY <1>1, <1>7, <1>10 DEF OutRight, InOrder
  <1>12. /\ length' - n = Written' - (w + n)
         /\ \A i \in (n + 1)..length' : IsCell(Contents[i])' /\ Place(Contents[i])' = (w + n) + i - n
    <2>1. length - n = Written - (w + n)
      BY <1>8, <1>11
    <2>2. ASSUME NEW i \in (n + 1)..length
          PROVE  IsCell(Contents[i]) /\ Place(Contents[i]) = (w + n) + i - n
      <3>1. i \in (0 + 1)..length
        BY <1>8
      <3>2. IsCell(Contents[i]) /\ Place(Contents[i]) = w + i - 0
        BY <3>1, <1>11
      <3>3. w + i - 0 = (w + n) + i - n
        BY <1>8
      <3>4. QED BY <3>2, <3>3
    <2>3. QED BY <2>1, <2>2, <1>2, <1>3 DEF IsCell, Place
  <1>13. InOrder(sender.ret, Len(wire))'
    BY <1>9, <1>10, <1>12 DEF InOrder
  <1>14. ASSUME NEW i \in 1..(w + n)
         PROVE  IsCell(wire'[i]) /\ Place(wire'[i]) = i
    <2>1. CASE i <= w
      <3>1. wire'[i] = wire[i] /\ i \in 1..Len(wire)
        BY <2>1, <1>7, <1>8, <1>9
      <3>2. QED BY <3>1, <1>1 DEF OutRight
    <2>2. CASE ~(i <= w)
      <3>1. PICK j \in 1..n : j = i - w
        BY <2>2, <1>8
      <3>2. wire'[i] = Contents[j]
        BY <2>2, <3>1, <1>5, <1>9
      <3>3. j \in (0 + 1)..length
        BY <1>5, <1>8
      <3>4. IsCell(Contents[j]) /\ Place(Contents[j]) = w + j - 0
        BY <3>3, <1>11
      <3>5. w + j - 0 = i
        BY <3>1
      <3>6. QED BY <3>2, <3>4, <3>5
    <2>3. QED BY <2>1, <2>2
  <1>15. \A i \in 1..Len(wire') : IsCell(wire[i])' /\ Place(wire[i])' = i
    BY <1>2, <1>9, <1>14 DEF IsCell, Place
  <1>16. QED BY <1>13, <1>15 DEF OutRight

\* A packet found whole, in one piece, is the packet that the queue begins with.
LEMMA WholePacket ==
  ASSUME TypeInv, sender.at = "send", NEW f \in 1..(Len(Payload) + 1), InOrder(0, traffic.start[f]),
         LenEx > 0, sender.len >= LenEx, ~NotOnePacket
  PROVE  /\ f \in Packet /\ sender.len = HeaderSize + Payload[f]
         /\ \A i \in 1..Payload[f] : Contents[HeaderSize + i] = <<f, HeaderSize + i>>
  <1>0. /\ LenEx = HeaderSize /\ HeaderSize \in Nat \ {0} /\ traffic \in Traffic
        /\ sender.len \in Nat /\ length \in Nat /\ sender.len <= length
        /\ \A i \in 1..sender.len : data[head + i - 1] = Contents[i]
    <2>1. LenEx = HeaderSize /\ HeaderSize \in Nat \ {0} /\ traffic \in Traffic
      <3>1. traffic \in Traffic
        BY TypeParts
      <3>2. LenEx \in {0, HeaderSize} /\ HeaderSize \in Nat \ {0}
        BY <3>1, Starts
      <3>3. QED BY <3>1, <3>2
    <2>2. sender.len \in Nat /\ length \in Nat
      BY WrittenIs
    <2>3. 0 \in 0..(sender.len - LenEx)
      BY <2>1, <2>2
    <2>4. QED BY <2>1, <2>2, <2>3, GivenCells
  <1>1. PICK p \in Packet : [i \in 1..sender.len |-> data[head + i - 1]] = Header(p) \o Body(p)
    BY DEF NotOnePacket
  <1> DEFINE found == [i \in 1..sender.len |-> data[head + i - 1]]
             whole == Header(p) \o Body(p)
  <1>2. /\ Body(p) \in Seq(Element) /\ Len(Body(p)) = Payload[p] /\ Payload[p] \in Nat
        /\ \A i \in 1..Payload[p] : Body(p)[i] = <<p, HeaderSize + i>>
    BY BodyCells, <1>0
  <1>3. /\ Header(p) \in Seq(Element) /\ Len(Header(p)) = HeaderSize
        /\ \A i \in 1..HeaderSize : Header(p)[i] = <<p, i>>
    <2>1. \A k \in 1..(HeaderSize + Payload[p]) : <<p, k>> \in Element
      BY Starts, <1>0
    <2>2. \A k \in 1..HeaderSize : <<p, k>> \in Element
      BY <2>1, <1>0, <1>2
    <2>3. [k \in 1..HeaderSize |-> <<p, k>>] \in Seq(Element)
      BY <2>2, <1>0, IsASeq
    <2>4. QED BY <2>3, <1>0, LenProperties DEF Header
  <1>4. /\ whole \in Seq(Element) /\ Len(whole) = HeaderSize + Payload[p]
        /\ \A i \in 1..(HeaderSize + Payload[p]) :
             whole[i] = IF i <= HeaderSize THEN Header(p)[i] ELSE Body(p)[i - HeaderSize]
    <2>1. /\ Header(p) \o Body(p) \in Seq(Element)
          /\ Len(Header(p) \o Body(p)) = Len(Header(p)) + Len(Body(p))
          /\ \A i \in 1..(Len(Header(p)) + Len(Body(p))) :
               (Header(p) \o Body(p))[i] = IF i <= Len(Header(p)) THEN Header(p)[i]
                                          ELSE Body(p)[i - Len(Header(p))]
      BY <1>2, <1>3, ConcatProperties
    <2>2. QED BY <2>1, <1>2, <1>3
  <1>5. found = whole /\ DOMAIN found = 1..sender.len /\ \A i \in 1..sender.len : found[i] = Contents[i]
    BY <1>0, <1>1
  <1> HIDE DEF found, whole
  <1>6. sender.len = HeaderSize + Payload[p]
    <2>1. DOMAIN whole = 1..(HeaderSize + Payload[p])
      BY <1>4, LenProperties
    <2>2. found \in Seq(Element) /\ Len(found) = HeaderSize + Payload[p]
      BY <1>4, <1>5
    <2>3. 1..sender.len = 1..(HeaderSize + Payload[p])
      BY <2>1, <1>5
    <2>4. HeaderSize + Payload[p] \in Nat /\ sender.len \in Nat
      BY <1>0, <1>2
    <2>5. QED BY <2>3, <2>4
  <1>7. Contents[1] = <<p, 1>>
    <2>1. 1 \in 1..(HeaderSize + Payload[p]) /\ 1 <= HeaderSize /\ 1 \in 1..HeaderSize
      BY <1>0, <1>2
    <2>2. whole[1] = Header(p)[1]
      BY <2>1, <1>4
    <2>3. found[1] = Contents[1]
      BY <2>1, <1>5, <1>6
    <2>4. QED BY <2>1, <2>2, <2>3, <1>3, <1>5
  <1>8. IsCell(Contents[1]) /\ Place(Contents[1]) = traffic.start[f] + 1
    <2>1. 1 \in (0 + 1)..length
      BY <1>0, <1>2, <1>6
    <2>2. IsCell(Contents[1]) /\ Place(Contents[1]) = traffic.start[f] + 1 - 0
      BY <2>1 DEF InOrder
    <2>3. traffic.start[f] \in Nat
      BY Starts, <1>0
    <2>4. QED BY <2>2, <2>3
  <1>9. /\ traffic.start[f] < Place(Contents[1])
        /\ f \in Packet => Place(Contents[1]) <= traffic.start[f + 1]
    <2>1. traffic.start[f] \in Nat
      BY Starts, <1>0
    <2>2. traffic.start[f] < Place(Contents[1])
      BY <2>1, <1>8
    <2>3. ASSUME f \in Packet PROVE Place(Contents[1]) <= traffic.start[f + 1]
      <3>1. traffic.start[f + 1] = traffic.start[f] + HeaderSize + Payload[f] /\ Payload[f] \in Nat
        BY <2>3, Starts, <1>0
      <3>2. QED BY <3>1, <2>1, <1>0, <1>8
    <2>4. QED BY <2>2, <2>3
  <1>10. f \in Packet /\ p = f
    <2>1. PICK c : c = Contents[1]
      OBVIOUS
    <2>2. f \in Packet /\ c[1] = f
      BY <2>1, <1>0, <1>8, <1>9, CellAt
    <2>3. QED BY <2>1, <2>2, <1>7
  <1>11. ASSUME NEW i \in 1..Payload[p]
         PROVE  Contents[HeaderSize + i] = <<p, HeaderSize + i>>
    <2>1. PICK j \in 1..(HeaderSize + Payload[p]) : j = HeaderSize + i
      BY <1>0, <1>2
    <2>2. ~(j <= HeaderSize) /\ j - HeaderSize = i
      BY <2>1, <1>0, <1>2
    <2>3. whole[j] = Body(p)[i]
      BY <2>2, <1>4
    <2>4. whole[j] = Contents[j]
      BY <1>5, <1>6
    <2>5. QED BY <2>1, <2>3, <2>4, <1>2
  <1>12. QED BY <1>6, <1>10, <1>11

LEMMA Times ==
  ASSUME NEW a \in Int, NEW b \in Int
  PROVE  a * ((b + 1) - 1) = a * (b - 1) + a /\ a * b = a * (b - 1) + a /\ a * (b - 1) \in Int
  OBVIOUS

\* Without headers, the socket is given the next body.
LEMMA SendSomeBodies ==
  ASSUME TypeInv, BodiesRight, SendSome
  PROVE  BodiesRight'
  <1>1. /\ UNCHANGED <<traffic, next, at>> /\ LenEx' = LenEx /\ Payload' = Payload /\ Packet' = Packet
        /\ sender.at = "send" /\ sender.len >= LenEx /\ Written' = Written
    BY DEF SendSome, mainPart, LenEx, Payload, Packet, Written
  <1>2. PICK n \in 0..(sender.len - LenEx) :
          /\ wire' = wire \o [i \in 1..n |-> data[head + LenEx + i - 1]]
          /\ sender' = [sender EXCEPT !.at = "completion", !.ret = n]
          /\ mangled' = (mangled \/ (LenEx > 0 /\ (NotOnePacket \/ n < sender.len - LenEx)))
    BY DEF SendSome
  <1>3. SUFFICES ASSUME LenEx > 0, ~mangled'
                 PROVE  \E f \in 1..(Len(Payload) + 1) : BodiesBefore(f)'
    BY <1>1 DEF BodiesRight
  <1>4. ~mangled /\ ~NotOnePacket /\ ~(n < sender.len - LenEx)
    BY <1>2, <1>3
  <1>5. PICK f \in 1..(Len(Payload) + 1) : BodiesBefore(f)
    BY <1>3, <1>4 DEF BodiesRight
  <1>6. /\ InOrder(0, traffic.start[f])
        /\ Len(wire) = traffic.start[f] - HeaderSize * (f - 1)
        /\ \A i \in 1..Len(wire) : IsCell(wire[i]) /\ wire[i][2] > HeaderSize /\ BodyPlace(wire[i]) = i
    BY <1>1, <1>5, HeldIsQueued DEF BodiesBefore
  <1>7. /\ f \in Packet /\ sender.len = HeaderSize + Payload[f]
        /\ \A i \in 1..Payload[f] : Contents[HeaderSize + i] = <<f, HeaderSize + i>>
    BY <1>1, <1>3, <1>4, <1>6, WholePacket
  <1>8. /\ traffic \in Traffic /\ HeaderSize \in Nat \ {0} /\ LenEx = HeaderSize /\ Payload[f] \in Nat
        /\ traffic.start[f] \in Nat /\ f \in Nat /\ f + 1 \in 1..(Len(Payload) + 1)
        /\ traffic.start[f + 1] = traffic.start[f] + HeaderSize + Payload[f]
    <2>1. traffic \in Traffic
      BY TypeParts
    <2>2. LenEx \in {0, HeaderSize} /\ HeaderSize \in Nat \ {0} /\ Payload[f] \in Nat /\ Len(Payload) \in Nat
      BY <1>7, <2>1, Starts
    <2>3. traffic.start[f] \in Nat /\ traffic.start[f + 1] = traffic.start[f] + HeaderSize + Payload[f]
      BY <1>7, <2>1, Starts
    <2>4. f \in Nat /\ f + 1 \in 1..(Len(Payload) + 1)
      BY <1>7, <2>2 DEF Packet
    <2>5. LenEx = HeaderSize
      BY <1>3, <2>2
    <2>6. QED BY <2>1, <2>2, <2>3, <2>4, <2>5
  <1>9. n = Payload[f] /\ n \in Nat /\ sender.len \in Nat /\ length \in Nat /\ Written \in Nat
    <2>1. sender.len \in Nat /\ length \in Nat /\ Written \in Nat
      BY WrittenIs
    <2>2. n \in 0..Payload[f] /\ ~(n < Payload[f])
      BY <1>2, <1>4, <1>7, <1>8
    <2>3. QED BY <2>1, <2>2, <1>8
  <1> DEFINE given == [i \in 1..n |-> data[head + LenEx + i - 1]]
  <1>10. /\ given \in Seq(Element) /\ Len(given) = n /\ LenEx + n <= length
         /\ \A i \in 1..n : given[i] = <<f, HeaderSize + i>>
    <2>1. /\ LenEx + n <= length /\ given \in Seq(Element) /\ Len(given) = n
          /\ \A i \in 1..n : data[head + LenEx + i - 1] = Contents[LenEx + i]
      BY <1>1, GivenCells
    <2>2. \A i \in 1..n : given[i] = data[head + LenEx + i - 1]
      OBVIOUS
    <2>3. QED BY <2>1, <2>2, <1>7, <1>8, <1>9
  <1>11. wire' = wire \o given
    BY <1>2
  <1> HIDE DEF given
  <1>12. PICK w \in Nat : w = Len(wire)
    BY WrittenIs
  <1>13. /\ Len(wire') = w + n
         /\ \A i \in 1..(w + n) : wire'[i] = IF i <= w THEN wire[i] ELSE given[i - w]
    <2>1. wire \in Seq(Element)
      BY TypeParts
    <2>2. /\ Len(wire \o given) = Len(wire) + Len(given)
          /\ \A i \in 1..(Len(wire) + Len(given)) :
               (wire \o given)[i] = IF i <= Len(wire) THEN wire[i] ELSE given[i - Len(wire)]
      BY <2>1, <1>10, ConcatProperties
    <2>3. QED BY <2>2, <1>10, <1>11, <1>12
  <1>14. Contents' = Contents /\ length' = length
    BY SendSomeType
  <1>15. Gone' = HeaderSize + n
    <2>1. sender'.at = "completion" /\ sender'.ret = n
      BY <1>2, TypeParts
    <2>2. n \in Nat
      BY <1>8, <1>9
    <2>3. QED BY <2>1, <2>2, <1>1, <1>8 DEF Gone
  <1>16. PICK k \in Int : k = HeaderSize * (f - 1)
    BY <1>8, Times
  <1>17. HeaderSize * ((f + 1) - 1) = k + HeaderSize /\ HeaderSize * f = k + HeaderSize
    BY <1>8, <1>16, Times
  <1>18. PICK s \in Nat : s = traffic.start[f]
    BY <1>8
  <1>19. PICK z \in Nat : z = HeaderSize
    BY <1>8
  <1>20. PICK l \in Nat : l = length
    BY <1>9
  <1>21. PICK v \in Nat : v = Written
    BY <1>9
  <1>22. traffic.start[f + 1] = s + z + n /\ n \in Nat
    BY <1>8, <1>9, <1>18, <1>19
  <1>23. w = s - k
    BY <1>6, <1>12, <1>16, <1>18
  <1>24. w + n = traffic.start[f + 1] - (k + HeaderSize)
    <2>1. w + n = (s + z + n) - (k + z)
      BY <1>22, <1>23
    <2>2. QED BY <2>1, <1>19, <1>22
  <1>25. /\ length - (HeaderSize + n) = Written - traffic.start[f + 1]
         /\ \A i \in ((HeaderSize + n) + 1)..length :
              IsCell(Contents[i]) /\ Place(Contents[i]) = traffic.start[f + 1] + i - (HeaderSize + n)
    <2>1. /\ l - 0 = v - s
          /\ \A i \in (0 + 1)..l : IsCell(Contents[i]) /\ Place(Contents[i]) = s + i - 0
      BY <1>6, <1>18, <1>20, <1>21 DEF InOrder
    <2>2. l - (z + n) = v - (s + z + n)
      BY <2>1, <1>22
    <2>3. ASSUME NEW i \in ((z + n) + 1)..l
          PROVE  IsCell(Contents[i]) /\ Place(Contents[i]) = (s + z + n) + i - (z + n)
      <3>1. i \in (0 + 1)..l
        BY <1>22
      <3>2. IsCell(Contents[i]) /\ Place(Contents[i]) = s + i - 0
        BY <3>1, <2>1
      <3>3. s + i - 0 = (s + z + n) + i - (z + n)
        BY <1>22
      <3>4. QED BY <3>2, <3>3
    <2>4. QED BY <2>2, <2>3, <1>19, <1>20, <1>21, <1>22
  <1>26. InOrder(Gone, traffic.start[f + 1])'
    <2>1. \A i \in ((HeaderSize + n) + 1)..length' :
            IsCell(Contents[i])' /\ Place(Contents[i])' = traffic'.start[f + 1] + i - (HeaderSize + n)
      BY <1>1, <1>14, <1>25 DEF IsCell, Place
    <2>2. length' - (HeaderSize + n) = Written' - traffic'.start[f + 1]
      BY <1>1, <1>14, <1>25
    <2>3. QED BY <2>1, <2>2, <1>15 DEF InOrder
  <1>27. ASSUME NEW i \in 1..(w + n)
         PROVE  IsCell(wire'[i]) /\ wire'[i][2] > HeaderSize /\ BodyPlace(wire'[i]) = i
    <2>1. CASE i <= w
      <3>1. wire'[i] = wire[i] /\ i \in 1..Len(wire)
        BY <2>1, <1>12, <1>13
      <3>2. QED BY <3>1, <1>6
    <2>2. CASE ~(i <= w)
      <3>1. PICK j \in 1..n : j = i - w
        <4>1. n \in Nat /\ i \in 1..(w + n) /\ i > w
          BY <2>2, <1>9
        <4>2. i - w \in 1..n
          BY <4>1
        <4>3. QED BY <4>2
      <3>2. wire'[i] = <<f, HeaderSize + j>>
        BY <2>2, <3>1, <1>10, <1>13
      <3>3. HeaderSize + j \in 1..(HeaderSize + Payload[f]) /\ HeaderSize + j > HeaderSize
        <4>1. z + j \in 1..(z + n) /\ z + j > z
          BY <1>22
        <4>2. QED BY <4>1, <1>9, <1>19
      <3>4. IsCell(wire'[i])
        BY <3>2, <3>3, <1>7 DEF IsCell
      <3>5. BodyPlace(wire'[i]) = (traffic.start[f] + (HeaderSize + j)) - HeaderSize * f
        <4>1. PICK c : c = <<f, HeaderSize + j>>
          OBVIOUS
        <4>2. c[1] = f /\ c[2] = HeaderSize + j
          BY <4>1
        <4>3. Place(c) = traffic.start[f] + (HeaderSize + j)
          BY <4>2 DEF Place
        <4>4. BodyPlace(c) = Place(c) - HeaderSize * f
          BY <4>2 DEF BodyPlace
        <4>5. wire'[i] = c
          BY <3>2, <4>1
        <4>6. BodyPlace(wire'[i]) = BodyPlace(c)
          BY <4>5, Zenon
        <4>7. BodyPlace(c) = (traffic.start[f] + (HeaderSize + j)) - HeaderSize * f
          BY <4>3, <4>4, Zenon
        <4>8. QED BY <4>6, <4>7, Zenon
      <3>6. (traffic.start[f] + (HeaderSize + j)) - HeaderSize * f = i
        <4>1. (s + (z + j)) - (k + z) = i
          BY <3>1, <1>23
        <4>2. QED BY <4>1, <1>17, <1>18, <1>19
      <3>7. BodyPlace(wire'[i]) = i
        BY <3>5, <3>6, Zenon
      <3>8. wire'[i][2] > HeaderSize
        BY <3>2, <3>3
      <3>9. QED BY <3>4, <3>7, <3>8
    <2>3. QED BY <2>1, <2>2
  <1>28. \A i \in 1..Len(wire') : IsCell(wire[i])' /\ wire'[i][2] > HeaderSize /\ BodyPlace(wire[i])' = i
    BY <1>1, <1>13, <1>27 DEF IsCell, Place, BodyPlace
  <1>29. Len(wire') = traffic'.start[f + 1] - HeaderSize * ((f + 1) - 1)
    BY <1>1, <1>13, <1>17, <1>24, <1>22
  <1>30. BodiesBefore(f + 1)'
    BY <1>26, <1>28, <1>29 DEF BodiesBefore
  <1>31. QED BY <1>8, <1>30

\* What the socket took is taken off the ring, and without headers the header.
LEMMA DoneSendingOrder ==
  ASSUME TypeInv, OutRight, BodiesRight, DoneSending
  PROVE  OutRight' /\ BodiesRight'
  <1>1. /\ UNCHANGED <<traffic, next, at, wire, mangled>> /\ LenEx' = LenEx /\ Payload' = Payload
        /\ Packet' = Packet /\ sender.at = "completion" /\ Written' = Written /\ sender' = Away
    BY DEF DoneSending, mainPart, LenEx, Payload, Packet, Written
  <1>2. /\ Gone \in 0..length /\ Contents' = SubSeq(Contents, Gone + 1, length) /\ length' = length - Gone
    BY DoneSendingType
  <1>3. PICK m \in 0..length : m = Gone
    BY <1>2
  <1>4. ASSUME NEW n \in Int, InOrder(m, n) PROVE InOrder(0, n)'
    BY <1>1, <1>2, <1>3, <1>4, InOrderMoves
  <1>5. sender'.ret = 0 /\ Gone' = 0
    BY <1>1 DEF Away, Gone
  <1>6. Gone = sender.ret + LenEx /\ sender.ret \in Nat
    BY <1>1, HeldIsQueued, WrittenIs
  <1>7. OutRight'
    <2>1. SUFFICES ASSUME LenEx = 0 PROVE OutRight'
      BY <1>1 DEF OutRight
    <2>2. m = sender.ret
      BY <2>1, <1>3, <1>6
    <2>3. PICK n \in Int : n = Len(wire)
      BY WrittenIs
    <2>4. InOrder(0, n)'
      BY <1>4, <2>1, <2>2, <2>3 DEF OutRight
    <2>5. InOrder(sender.ret, Len(wire))'
      BY <1>1, <1>5, <2>3, <2>4
    <2>6. \A i \in 1..Len(wire) : IsCell(wire[i]) /\ Place(wire[i]) = i
      BY <2>1 DEF OutRight
    <2>7. \A i \in 1..Len(wire') : IsCell(wire[i])' /\ Place(wire[i])' = i
      BY <2>6, <1>1 DEF IsCell, Place
    <2>8. QED BY <2>5, <2>7 DEF OutRight
  <1>8. BodiesRight'
    <2>1. SUFFICES ASSUME LenEx > 0, ~mangled
                   PROVE  \E f \in 1..(Len(Payload) + 1) : BodiesBefore(f)'
      BY <1>1 DEF BodiesRight
    <2>2. PICK f \in 1..(Len(Payload) + 1) : BodiesBefore(f)
      BY <2>1 DEF BodiesRight
    <2>3. PICK n \in Int : n = traffic.start[f]
      <3>1. traffic \in Traffic
        BY TypeParts
      <3>2. \A g \in 1..(Len(Payload) + 1) : traffic.start[g] \in Nat
        BY <3>1, Starts
      <3>3. QED BY <3>2
    <2>4. InOrder(0, n)'
      BY <1>3, <1>4, <2>2, <2>3 DEF BodiesBefore
    <2>5. InOrder(Gone, traffic.start[f])'
      BY <1>1, <1>5, <2>3, <2>4
    <2>6. /\ Len(wire) = traffic.start[f] - HeaderSize * (f - 1)
          /\ \A i \in 1..Len(wire) : IsCell(wire[i]) /\ wire[i][2] > HeaderSize /\ BodyPlace(wire[i]) = i
      BY <2>2 DEF BodiesBefore
    <2>7. \A i \in 1..Len(wire') : IsCell(wire[i])' /\ wire'[i][2] > HeaderSize /\ BodyPlace(wire[i])' = i
      BY <2>6, <1>1 DEF IsCell, BodyPlace, Place
    <2>8. BodiesBefore(f)'
      BY <1>1, <2>5, <2>6, <2>7 DEF BodiesBefore
    <2>9. QED BY <2>8
  <1>9. QED BY <1>7, <1>8

\* The other steps of the threads touch neither the ring nor the wire.
LEMMA QuietOrder ==
  ASSUME TypeInv, OutRight, BodiesRight, UNCHANGED qvars,
         PreSend \/ TakeEvent \/ SendBlocks \/ SendOverruns \/ Arm \/ EpollThread \/ PeerReads
  PROVE  OutRight' /\ BodiesRight'
  <1>1. Contents' = Contents /\ length' = length
    BY RingUnchanged, TypeParts DEF qvars
  <1>2. UNCHANGED <<traffic, next, at, wire>> /\ Written' = Written /\ LenEx' = LenEx
    BY DEF PreSend, TakeEvent, SendBlocks, SendOverruns, Arm, EpollThread, EpollWait, OnSend, Disarm,
           PeerReads, mainPart, LenEx, Written
  <1>3. sender'.ret = sender.ret /\ (LenEx > 0 /\ ~mangled' => ~mangled /\ Gone' = Gone)
    <2>1. CASE PreSend \/ EpollThread \/ PeerReads
      <3>1. UNCHANGED <<sender, mangled>>
        BY <2>1 DEF PreSend, EpollThread, EpollWait, OnSend, Disarm, PeerReads
      <3>2. QED BY <3>1, <1>2 DEF Gone
    <2>2. CASE TakeEvent
      <3>1. /\ sender.at = "away" /\ sender'.at \in {"away", "pointer"} /\ sender'.ret = sender.ret
            /\ mangled' = mangled
        BY <2>2, TypeParts DEF TakeEvent
      <3>2. QED BY <3>1 DEF Gone
    <2>3. CASE SendBlocks
      <3>1. sender'.ret = sender.ret /\ (LenEx > 0 => mangled') /\ (mangled => mangled')
            /\ sender.at = "send" /\ sender'.at = "arm"
        BY <2>3, TypeParts DEF SendBlocks
      <3>2. QED BY <3>1 DEF Gone
    <2>4. CASE SendOverruns
      <3>1. sender'.ret = sender.ret /\ mangled'
        BY <2>4, TypeParts DEF SendOverruns
      <3>2. QED BY <3>1
    <2>5. CASE Arm
      <3>1. sender'.ret = sender.ret /\ sender.at = "arm" /\ mangled' = mangled
        BY <2>5, TypeParts DEF Arm
      <3>2. LenEx > 0 => mangled
        BY <3>1, TypeParts DEF SendingRight
      <3>3. QED BY <3>1, <3>2
    <2>6. QED BY <2>1, <2>2, <2>3, <2>4, <2>5
  <1>4. QED BY <1>1, <1>2, <1>3, Untouched

LEMMA ReadOrder ==
  ASSUME TypeInv, OutRight, BodiesRight, ReadPointer \/ ReadLength
  PROVE  OutRight' /\ BodiesRight'
  <1>1. Contents' = Contents /\ length' = length
    BY ReadPointerType, ReadLengthType
  <1>2. /\ UNCHANGED <<traffic, next, at, wire, mangled>> /\ Written' = Written /\ LenEx' = LenEx
    BY DEF ReadPointer, ReadLength, mainPart, LenEx, Written
  <1>3. /\ sender'.ret = sender.ret /\ sender.at # "completion" /\ sender'.at # "completion"
    BY TypeParts DEF ReadPointer, ReadLength
  <1>4. Gone' = Gone
    BY <1>3 DEF Gone
  <1>5. QED BY <1>1, <1>2, <1>3, <1>4, Untouched

-----------------------------------------------------------------------------
\* It holds at the start,
LEMMA SendInvInit == SendInit => SendInv
  <1> SUFFICES ASSUME SendInit PROVE SendInv
    OBVIOUS
  <1>1. /\ traffic \in Traffic /\ next = 1 /\ at = "header" /\ complete = TRUE /\ canSend = TRUE
        /\ removed = FALSE /\ events = 0 /\ sender = Away /\ room = SocketSize /\ wire = <<>>
        /\ armed = FALSE /\ edge = FALSE /\ epoll = "wait" /\ mangled = FALSE /\ head = 0 /\ tail = 0 /\ length = 0
    BY DEF SendInit, QueueInit
  <1>2. RingInv
    <2>1. QueueType
      BY QueueAssumption DEF SendInit, QueueInit, QueueType, Cell
    <2>2. IndexAgree
      BY <1>1, EmptyRing
    <2>3. QED BY <2>1, <2>2 DEF RingInv
  <1>3. /\ SocketSize \in Nat /\ MaxEvents \in Nat /\ Len(Payload) \in Nat /\ traffic.start[1] = 0
        /\ HeaderSize \in Nat
    BY <1>1, Starts
  <1>4. /\ next \in 1..(Len(Payload) + 1) /\ events \in 0..MaxEvents /\ room \in 0..SocketSize
    BY <1>1, <1>3
  <1>5. sender \in [at : {"away", "pointer", "length", "send", "arm", "completion", "overrun"},
                    len : 0..Size, ret : 0..Size]
    <2>1. 0 \in 0..Size
      BY QueueAssumption
    <2>2. QED BY <1>1, <2>1 DEF Away
  <1>6. SendType
    <2>1. {complete, canSend, removed, armed, edge, mangled} \subseteq BOOLEAN
      BY <1>1
    <2>2. wire \in Seq(Element) /\ at \in {"header", "body", "given up"} /\ epoll \in {"wait", "OnSend", "mod"}
      BY <1>1
    <2>3. QueueType /\ traffic \in Traffic
      BY <1>1, <1>2 DEF RingInv
    <2>4. QED BY <1>4, <1>5, <2>1, <2>2, <2>3 DEF SendType
  <1>7. sender.at = "away" /\ sender.ret = 0 /\ Gone = 0
    BY <1>1 DEF Away, Gone
  <1>8. SendingRight
    BY <1>1, <1>7 DEF SendingRight
  <1>9. Written = 0
    BY <1>1, <1>3 DEF Written
  <1>10. InOrder(0, 0) /\ Len(wire) = 0
    BY <1>1, <1>9 DEF InOrder
  <1>11. OutRight
    BY <1>7, <1>10 DEF OutRight
  <1>12. BodiesBefore(1)
    <2>1. 0 = 0 - HeaderSize * (1 - 1)
      BY <1>3
    <2>2. QED BY <2>1, <1>3, <1>7, <1>10 DEF BodiesBefore
  <1>13. BodiesRight
    BY <1>3, <1>12 DEF BodiesRight
  <1>14. QED BY <1>2, <1>6, <1>8, <1>11, <1>13 DEF SendInv, TypeInv

\* and every step of every thread keeps it.
LEMMA SendInvStep == SendInv /\ [SendNext]_sendVars => SendInv'
  <1> SUFFICES ASSUME SendInv, [SendNext]_sendVars PROVE SendInv'
    OBVIOUS
  <1>0. TypeInv /\ OutRight /\ BodiesRight
    BY DEF SendInv
  <1>1. CASE WriteHeader
    BY <1>0, <1>1, WriteHeaderType, WriteHeaderOrder DEF SendInv
  <1>2. CASE WriteBody
    BY <1>0, <1>2, WriteBodyType, WriteBodyOrder DEF SendInv
  <1>3. CASE PreSend \/ TakeEvent \/ SendBlocks \/ SendOverruns \/ Arm \/ EpollThread \/ PeerReads
    <2>1. UNCHANGED qvars
      BY <1>3 DEF PreSend, TakeEvent, SendBlocks, SendOverruns, Arm, EpollThread, EpollWait, OnSend, Disarm, PeerReads
    <2>2. QED BY <1>0, <1>3, <2>1, QuietType, QuietOrder DEF SendInv
  <1>4. CASE ReadPointer \/ ReadLength
    BY <1>0, <1>4, ReadPointerType, ReadLengthType, ReadOrder DEF SendInv
  <1>5. CASE SendSome
    BY <1>0, <1>5, SendSomeType, SendSomeOut, SendSomeBodies DEF SendInv
  <1>6. CASE DoneSending
    BY <1>0, <1>6, DoneSendingType, DoneSendingOrder DEF SendInv
  <1>7. CASE UNCHANGED sendVars
    <2>1. Contents' = Contents /\ length' = length /\ RingInv'
      BY <1>0, <1>7, RingUnchanged, TypeParts DEF sendVars, qvars
    <2>2. Written' = Written /\ Gone' = Gone
      BY <1>7 DEF sendVars, Written, Gone, LenEx
    <2>3. OutRight' /\ BodiesRight'
      BY <1>0, <1>7, <2>1, <2>2, Untouched DEF sendVars
    <2>4. TypeInv'
      BY <1>0, <1>7, <2>1
      DEF sendVars, qvars, TypeInv, SendType, QueueType, SendingRight, LenEx, Payload, Packet
    <2>5. QED BY <2>3, <2>4 DEF SendInv
  <1>8. QED
    BY <1>1, <1>2, <1>3, <1>4, <1>5, <1>6, <1>7 DEF SendNext, DoSend

-----------------------------------------------------------------------------
\* The rest of the ring, as a sequence.
LEMMA RestCells ==
  ASSUME TypeInv, NEW m \in 0..length
  PROVE  /\ SubSeq(Contents, m + 1, length) \in Seq(Element)
         /\ Len(SubSeq(Contents, m + 1, length)) = length - m
         /\ \A i \in 1..(length - m) : SubSeq(Contents, m + 1, length)[i] = Contents[m + i]
  <1>1. length \in Nat /\ m \in Nat /\ m + 1 \in Int /\ length \in Int
    BY WrittenIs
  <1>2. \A i \in 1..length : Contents[i] \in Element
    BY TypeParts DEF SendingRight
  <1>3. \A i \in (m + 1)..length : Contents[i] \in Element
    BY <1>1, <1>2
  <1>4. /\ SubSeq(Contents, m + 1, length) \in Seq(Element)
        /\ Len(SubSeq(Contents, m + 1, length)) = IF m + 1 <= length THEN length - (m + 1) + 1 ELSE 0
        /\ \A i \in 1..(length - (m + 1) + 1) :
             SubSeq(Contents, m + 1, length)[i] = Contents[m + 1 + i - 1]
    BY <1>1, <1>3, SubSeqProperties
  <1>5. \A i \in 1..(length - m) : i \in 1..(length - (m + 1) + 1) /\ m + 1 + i - 1 = m + i
    BY <1>1
  <1>6. (IF m + 1 <= length THEN length - (m + 1) + 1 ELSE 0) = length - m
    BY <1>1
  <1>7. QED BY <1>4, <1>5, <1>6

\* What is in order behind place n is written after place n.
LEMMA RestIsWritten ==
  ASSUME TypeInv, NEW m \in 0..length, NEW n \in Int, InOrder(m, n)
  PROVE  IsWritten(SubSeq(Contents, m + 1, length), n)
  <1> DEFINE rest == SubSeq(Contents, m + 1, length)
  <1>1. /\ Len(rest) = length - m
        /\ \A i \in 1..(length - m) : rest[i] = Contents[m + i]
    BY RestCells
  <1> HIDE DEF rest
  <1>2. /\ length - m = Written - n
        /\ \A i \in (m + 1)..length : IsCell(Contents[i]) /\ Place(Contents[i]) = n + i - m
    BY DEF InOrder
  <1>3. length \in Nat /\ m \in Nat
    BY WrittenIs
  <1>4. ASSUME NEW i \in 1..(length - m)
        PROVE  IsCell(rest[i]) /\ Place(rest[i]) = n + i
    <2>1. PICK j \in (m + 1)..length : j = m + i
      BY <1>3
    <2>2. IsCell(Contents[j]) /\ Place(Contents[j]) = n + j - m
      BY <1>2
    <2>3. n + j - m = n + i
      BY <2>1, <1>3
    <2>4. rest[i] = Contents[j]
      BY <2>1, <1>1
    <2>5. QED BY <2>2, <2>3, <2>4
  <1>5. IsWritten(rest, n)
    BY <1>1, <1>2, <1>4 DEF IsWritten
  <1>6. QED BY <1>5 DEF rest

LEMMA OutIsIntact == SendInv => WireIntact
  <1> SUFFICES ASSUME SendInv, LenEx = 0
               PROVE  IsWritten(wire \o SubSeq(Contents, sender.ret + 1, length), 0)
    BY DEF WireIntact
  <1>0. TypeInv /\ OutRight
    BY DEF SendInv
  <1>1. PICK m \in 0..length : m = sender.ret
    BY <1>0, HeldIsQueued
  <1>2. PICK w \in Nat : w = Len(wire)
    BY <1>0, WrittenIs
  <1> DEFINE rest == SubSeq(Contents, m + 1, length)
             out == wire \o rest
  <1>3. InOrder(m, w) /\ \A i \in 1..w : IsCell(wire[i]) /\ Place(wire[i]) = i
    BY <1>0, <1>1, <1>2 DEF OutRight
  <1>4. IsWritten(rest, w)
    BY <1>0, <1>3, RestIsWritten
  <1>5. rest \in Seq(Element) /\ wire \in Seq(Element) /\ Len(rest) \in Nat
    BY <1>0, RestCells, TypeParts, LenProperties
  <1> HIDE DEF rest
  <1>6. /\ Len(out) = w + Len(rest)
        /\ \A i \in 1..(w + Len(rest)) : out[i] = IF i <= w THEN wire[i] ELSE rest[i - w]
    BY <1>2, <1>5, ConcatProperties
  <1> HIDE DEF out
  <1>7. PICK r \in Nat : r = Len(rest)
    BY <1>5
  <1>8. /\ r = Written - w
        /\ \A i \in 1..r : IsCell(rest[i]) /\ Place(rest[i]) = w + i
    BY <1>4, <1>7 DEF IsWritten
  <1>9. Written \in Nat
    BY <1>0, WrittenIs
  <1>10. w + r = Written - 0
    BY <1>8, <1>9
  <1>11. ASSUME NEW i \in 1..(w + r)
         PROVE  IsCell(out[i]) /\ Place(out[i]) = 0 + i
    <2>1. CASE i <= w
      <3>1. i \in 1..w /\ out[i] = wire[i] /\ 0 + i = i
        BY <2>1, <1>6, <1>7
      <3>2. QED BY <3>1, <1>3
    <2>2. CASE ~(i <= w)
      <3>1. PICK j \in 1..r : j = i - w
        <4>1. i - w \in 1..r
          BY <2>2
        <4>2. QED BY <4>1
      <3>2. out[i] = rest[j]
        BY <2>2, <3>1, <1>6, <1>7
      <3>3. w + j = 0 + i
        BY <3>1
      <3>4. QED BY <3>2, <3>3, <1>8
    <2>3. QED BY <2>1, <2>2
  <1>12. IsWritten(out, 0)
    BY <1>6, <1>7, <1>10, <1>11 DEF IsWritten
  <1>13. QED BY <1>1, <1>12 DEF out, rest

\* No two packets start at the same place.
LEMMA StartsDiffer ==
  ASSUME traffic \in Traffic, NEW p \in 1..(Len(Payload) + 1), NEW q \in 1..(Len(Payload) + 1), p < q
  PROVE  traffic.start[p] < traffic.start[q] /\ traffic.start[p + 1] <= traffic.start[q] /\ p \in Packet
  <1>1. Len(Payload) \in Nat /\ HeaderSize \in Nat \ {0}
    BY Starts
  <1>2. p \in Packet /\ q \in (p + 1)..(Len(Payload) + 1)
    BY <1>1 DEF Packet
  <1>3. /\ traffic.start[p + 1] = traffic.start[p] + HeaderSize + Payload[p]
        /\ traffic.start[p + 1] <= traffic.start[q] /\ Payload[p] \in Nat
    BY <1>2, Starts
  <1>4. \A r \in 1..(Len(Payload) + 1) : traffic.start[r] \in Nat
    BY Starts
  <1>5. PICK s \in Nat : s = traffic.start[p]
    BY <1>4
  <1>6. PICK t \in Nat : t = traffic.start[q]
    BY <1>4
  <1>7. s + HeaderSize + Payload[p] <= t
    BY <1>3, <1>5, <1>6
  <1>8. s < t
    BY <1>1, <1>3, <1>7
  <1>9. QED BY <1>2, <1>3, <1>5, <1>6, <1>8

\* The packet that the queue begins with is the one that it is seen to.
LEMMA FirstIs ==
  ASSUME TypeInv, NEW f \in 1..(Len(Payload) + 1), InOrder(Gone, traffic.start[f])
  PROVE  First = f
  <1>1. PICK m \in 0..length : m = Gone
    BY HeldIsQueued
  <1> DEFINE rest == SubSeq(Contents, m + 1, length)
  <1>2. /\ rest = Rest /\ rest \in Seq(Element) /\ Len(rest) = length - m
        /\ \A i \in 1..(length - m) : rest[i] = Contents[m + i]
    BY <1>1, RestCells DEF Rest
  <1> HIDE DEF rest
  <1>3. /\ traffic \in Traffic /\ next \in 1..(Len(Payload) + 1)
        /\ at \in {"header", "body", "given up"} /\ (at # "header" => next \in Packet)
    BY TypeParts DEF SendingRight
  <1>4. /\ Len(Payload) \in Nat /\ HeaderSize \in Nat \ {0}
        /\ \A r \in 1..(Len(Payload) + 1) : traffic.start[r] \in Nat
    BY <1>3, Starts
  <1>5. PICK s \in Nat : s = traffic.start[f]
    BY <1>4
  <1>6. InOrder(m, s)
    BY <1>1, <1>5
  <1>7. length \in Nat /\ Written \in Nat /\ m \in Nat
    BY WrittenIs
  <1>8. CASE rest # <<>>
    <2>1. length - m > 0
      BY <1>2, <1>7, <1>8, EmptySeq
    <2>2. 1 \in 1..(length - m) /\ m + 1 \in (m + 1)..length
      BY <2>1, <1>7
    <2>3. PICK c : c = Contents[m + 1]
      OBVIOUS
    <2>4. rest[1] = c
      BY <2>2, <2>3, <1>2
    <2>5. IsCell(c) /\ Place(c) = s + (m + 1) - m
      BY <2>2, <2>3, <1>6 DEF InOrder
    <2>6. Place(c) = s + 1
      BY <2>5, <1>7
    <2>7. traffic.start[f] < Place(c)
      BY <2>6, <1>5
    <2>8. ASSUME f \in Packet PROVE Place(c) <= traffic.start[f + 1]
      <3>1. traffic.start[f + 1] = traffic.start[f] + HeaderSize + Payload[f] /\ Payload[f] \in Nat
        BY <2>8, <1>3, Starts
      <3>2. s + 1 <= s + HeaderSize + Payload[f]
        BY <3>1, <1>4
      <3>3. QED BY <3>1, <3>2, <2>6, <1>5
    <2>9. c[1] = f
      BY <2>5, <2>7, <2>8, <1>3, CellAt
    <2>10. First = Rest[1][1]
      BY <1>2, <1>8 DEF First
    <2>11. QED BY <2>4, <2>9, <2>10, <1>2
  <1>9. CASE rest = <<>>
    <2>1. length - m = 0
      BY <1>2, <1>7, <1>9, EmptySeq
    <2>2. Written = s
      <3>1. length - m = Written - s
        BY <1>6 DEF InOrder
      <3>2. QED BY <3>1, <2>1, <1>7
    <2>3. CASE at = "header"
      <3>1. traffic.start[next] = traffic.start[f]
        <4>1. PICK t \in Nat : t = traffic.start[next]
          BY <1>3, <1>4
        <4>2. Written = t + 0
          BY <2>3, <4>1 DEF Written
        <4>3. t = s
          BY <4>2, <2>2
        <4>4. QED BY <4>1, <4>3, <1>5
      <3>2. next = f
        <4>1. PICK g \in 1..(Len(Payload) + 1) : g = next
          BY <1>3
        <4>2. g < f => traffic.start[g] < traffic.start[f]
          BY <1>3, StartsDiffer
        <4>3. f < g => traffic.start[f] < traffic.start[g]
          BY <1>3, StartsDiffer
        <4>4. traffic.start[g] = s /\ traffic.start[f] = s
          BY <4>1, <3>1, <1>5
        <4>5. ~(g < f) /\ ~(f < g)
          BY <4>2, <4>3, <4>4
        <4>6. QED BY <4>1, <4>5, <1>4
      <3>3. First = next
        BY <2>3, <1>2, <1>9 DEF First
      <3>4. QED BY <3>2, <3>3
    <2>4. CASE at # "header"
      <3>1. PICK p \in Packet : p = next
        BY <2>4, <1>3
      <3>2. /\ traffic.start[p + 1] = traffic.start[p] + HeaderSize + Payload[p] /\ Payload[p] \in Nat
            /\ p \in 1..(Len(Payload) + 1) /\ p + 1 \in 1..(Len(Payload) + 1)
        <4>1. p \in 1..(Len(Payload) + 1) /\ p + 1 \in 1..(Len(Payload) + 1)
          BY <1>4 DEF Packet
        <4>2. QED BY <4>1, <1>3, Starts
      <3>3. PICK t \in Nat : t = traffic.start[p]
        BY <3>2, <1>4
      <3>4. s = t + HeaderSize
        <4>1. Written = t + HeaderSize
          BY <2>4, <3>1, <3>3 DEF Written
        <4>2. QED BY <4>1, <2>2
      <3>5. p < f
        <4>1. traffic.start[p] < traffic.start[f]
          BY <3>3, <3>4, <1>4, <1>5
        <4>2. ~(f < p) /\ p # f
          <5>1. f < p => traffic.start[f] < traffic.start[p]
            BY <3>2, <1>3, StartsDiffer
          <5>2. QED BY <5>1, <4>1, <1>5, <3>3
        <4>3. QED BY <4>2, <3>2, <1>4
      <3>6. traffic.start[p + 1] <= traffic.start[f]
        BY <3>2, <3>5, <1>3, StartsDiffer
      <3>7. traffic.start[p + 1] = traffic.start[f]
        <4>1. t + HeaderSize + Payload[p] <= s
          BY <3>2, <3>3, <3>6, <1>5
        <4>2. t + HeaderSize + Payload[p] = s
          BY <4>1, <3>2, <3>4, <1>4
        <4>3. QED BY <4>2, <3>2, <3>3, <1>5
      <3>8. p + 1 = f
        <4>1. ~(p + 1 < f) /\ ~(f < p + 1)
          <5>1. PICK g \in 1..(Len(Payload) + 1) : g = p + 1
            BY <3>2
          <5>2. g < f => traffic.start[g] < traffic.start[f]
            BY <1>3, StartsDiffer
          <5>3. f < g => traffic.start[f] < traffic.start[g]
            BY <1>3, StartsDiffer
          <5>4. traffic.start[g] = s /\ traffic.start[f] = s
            BY <5>1, <3>7, <1>5
          <5>5. QED BY <5>1, <5>2, <5>3, <5>4
        <4>2. QED BY <4>1, <3>2, <1>4
      <3>9. First = next + 1
        BY <2>4, <1>2, <1>9 DEF First
      <3>10. QED BY <3>1, <3>8, <3>9
    <2>5. QED BY <2>3, <2>4
  <1>10. QED BY <1>8, <1>9

LEMMA BodiesAreSent == SendInv => BodiesSent
  <1> SUFFICES ASSUME SendInv, LenEx > 0, ~mangled
               PROVE  /\ IsWritten(Rest, traffic.start[First])
                      /\ Len(wire) = traffic.start[First] - HeaderSize * (First - 1)
                      /\ \A i \in 1..Len(wire) :
                           IsCell(wire[i]) /\ wire[i][2] > HeaderSize /\ BodyPlace(wire[i]) = i
    BY DEF BodiesSent
  <1>0. TypeInv /\ BodiesRight
    BY DEF SendInv
  <1>1. PICK f \in 1..(Len(Payload) + 1) : BodiesBefore(f)
    BY <1>0 DEF BodiesRight
  <1>2. First = f
    BY <1>0, <1>1, FirstIs DEF BodiesBefore
  <1>3. PICK m \in 0..length : m = Gone
    BY <1>0, HeldIsQueued
  <1>4. PICK n \in Int : n = traffic.start[f]
    <2>1. traffic \in Traffic
      BY <1>0, TypeParts
    <2>2. \A g \in 1..(Len(Payload) + 1) : traffic.start[g] \in Nat
      BY <2>1, Starts
    <2>3. QED BY <2>2
  <1>5. InOrder(m, n)
    BY <1>1, <1>3, <1>4 DEF BodiesBefore
  <1>6. IsWritten(Rest, n)
    BY <1>0, <1>3, <1>5, RestIsWritten DEF Rest
  <1>7. QED
    BY <1>1, <1>2, <1>4, <1>6 DEF BodiesBefore

\* For every ring, socket and sequence of packets: the session's parts keep
\* their types; to a peer that is sent headers, what the socket took and what is
\* queued behind it make up what was written, without a loss, a double or a
\* change of order; to one that is not, only bodies are sent, in order, as long
\* as every DoSend found one whole packet (SendBuffer.h:24-43,
\* Session.cpp:141-181).
THEOREM SentIsWhole == SendSpec => []SentWhole
  <1>1. SendInv => SentWhole
    BY OutIsIntact, BodiesAreSent DEF SentWhole, SendInv, TypeInv
  <1>2. QED
    BY SendInvInit, SendInvStep, <1>1, PTL DEF SendSpec

-----------------------------------------------------------------------------
(***************************************************************************)
(* The queue of events for any number of io threads, any size and any      *)
(* number of posts: the backlog that nobody is awake for is what unheard   *)
(* signals left, an event is dropped only behind as many of them, and once *)
(* Shutdown has made its broadcast only a thread that was busy sleeps.     *)
(***************************************************************************)
\* How far Shutdown is says which threads have ended.
Phases ==
  /\ main \in {"joinEpoll", "joinIo", "off"} => m_bShutdown /\ poster["send"] = "exit"
  /\ main \in {"joinIo", "off"} => poster["epoll"] = "exit"

\* The two parts of BacklogHeard.
Backlog ==
  ~m_bShutdown => queued <= Cardinality(Woken) + Cardinality(Signalling) + unheard

DroppedBehind ==
  dropped => QueueSize <= Cardinality(IoThread) + 1 + unheard

EventInv == EventTypeOK /\ Phases /\ SleepersWereBusy /\ Backlog /\ DroppedBehind

-----------------------------------------------------------------------------
LEMMA InitTyped == ASSUME IoQueueConstants, EventInit PROVE EventTypeOK
  <1>1. queued \in 0..QueueSize /\ posts \in 0..MaxPosts /\ unheard \in Nat
    BY DEF IoQueueConstants, EventInit
  <1>2. poster \in [Poster -> {"idle", "signal", "exit"}]
    BY DEF EventInit
  <1>3. io \in [IoThread -> {"start", "wait", "woken", "work", "exit"}]
    BY DEF EventInit
  <1>4. /\ main \in {"run", "joinSend", "joinEpoll", "joinIo", "off"}
        /\ serverDown \in BOOLEAN /\ m_bShutdown \in BOOLEAN /\ late \subseteq IoThread /\ dropped \in BOOLEAN
    BY DEF EventInit
  <1>5. QED
    BY <1>1, <1>2, <1>3, <1>4 DEF EventTypeOK

LEMMA NextTyped == ASSUME IoQueueConstants, EventTypeOK, [EventNext]_eventVars PROVE EventTypeOK'
  <1> USE DEF IoQueueConstants, EventTypeOK, flags
  <1>1. ASSUME NEW p \in Poster, AddIoEvent(p) PROVE EventTypeOK'
    BY <1>1 DEF AddIoEvent
  <1>2. ASSUME NEW p \in Poster, Signal(p) PROVE EventTypeOK'
    BY <1>2 DEF Signal, Waiting
  <1>3. ASSUME NEW p \in Poster, PosterExit(p) PROVE EventTypeOK'
    BY <1>3 DEF PosterExit
  <1>4. ASSUME NEW t \in IoThread, Wait(t) \/ WakeUp(t) \/ Work(t) PROVE EventTypeOK'
    BY <1>4 DEF Wait, WakeUp, Work
  <1>5. ASSUME NEW t \in IoThread, Take(t) PROVE EventTypeOK'
    BY <1>5 DEF Take
  <1>6. CASE ServerShutdown
    BY <1>6 DEF ServerShutdown
  <1>7. CASE HandlerShutdown
    BY <1>7 DEF HandlerShutdown
  <1>8. CASE Broadcast
    BY <1>8 DEF Broadcast
  <1>9. CASE Join
    BY <1>9 DEF Join
  <1>10. CASE UNCHANGED eventVars
    BY <1>10 DEF eventVars
  <1>11. QED
    BY <1>1, <1>2, <1>3, <1>4, <1>5, <1>6, <1>7, <1>8, <1>9, <1>10
    DEF EventNext, PosterStep, IoStep, ShutdownStep

-----------------------------------------------------------------------------
\* A thread that has ended does nothing any more.
LEMMA NextPhases == ASSUME IoQueueConstants, EventTypeOK, Phases, [EventNext]_eventVars PROVE Phases'
  <1> USE DEF EventTypeOK, Phases, flags
  <1> "send" \in Poster /\ "epoll" \in Poster
    BY DEF Poster
  <1>1. ASSUME NEW p \in Poster, AddIoEvent(p) PROVE Phases'
    BY <1>1 DEF AddIoEvent
  <1>2. ASSUME NEW p \in Poster, Signal(p) PROVE Phases'
    BY <1>2 DEF Signal, Waiting
  <1>3. ASSUME NEW p \in Poster, PosterExit(p) PROVE Phases'
    BY <1>3 DEF PosterExit
  <1>4. ASSUME NEW t \in IoThread, Wait(t) \/ WakeUp(t) \/ Work(t) PROVE Phases'
    BY <1>4 DEF Wait, WakeUp, Work
  <1>5. ASSUME NEW t \in IoThread, Take(t) PROVE Phases'
    BY <1>5 DEF Take
  <1>6. CASE ServerShutdown
    BY <1>6 DEF ServerShutdown
  <1>7. CASE HandlerShutdown
    BY <1>7 DEF HandlerShutdown
  <1>8. CASE Broadcast
    BY <1>8 DEF Broadcast
  <1>9. CASE Join
    BY <1>9 DEF Join
  <1>10. CASE UNCHANGED eventVars
    BY <1>10 DEF eventVars
  <1>11. QED
    BY <1>1, <1>2, <1>3, <1>4, <1>5, <1>6, <1>7, <1>8, <1>9, <1>10
    DEF EventNext, PosterStep, IoStep, ShutdownStep

-----------------------------------------------------------------------------
\* The two sets that BacklogHeard counts are finite.
LEMMA CountsFinite ==
  ASSUME IoQueueConstants
  PROVE  /\ IsFiniteSet(Woken) /\ Cardinality(Woken) \in Nat
         /\ IsFiniteSet(Signalling) /\ Cardinality(Signalling) \in Nat
  <1>1. IsFiniteSet(Poster)
    <2>1. IsFiniteSet({"epoll"}) /\ {"epoll"} \cup {"send"} = Poster
      BY FS_Singleton DEF Poster
    <2>2. QED
      BY <2>1, FS_AddElement, Zenon
  <1>2. Woken \in SUBSET IoThread /\ Signalling \in SUBSET Poster
    BY DEF Woken, Signalling
  <1>3. IsFiniteSet(Woken) /\ IsFiniteSet(Signalling)
    BY <1>1, <1>2, FS_Subset, Zenon DEF IoQueueConstants
  <1>4. QED
    BY <1>3, FS_CardinalityType

\* Each step of a thread moves one of the counts by one.
LEMMA OnePosts ==
  ASSUME IoQueueConstants, EventTypeOK, NEW p \in Poster, AddIoEvent(p)
  PROVE  /\ Woken' = Woken
         /\ Cardinality(Signalling') = Cardinality(Signalling) + 1
  <1>1. Signalling' = Signalling \cup {p} /\ p \notin Signalling /\ Woken' = Woken
    BY DEF AddIoEvent, EventTypeOK, Signalling, Woken
  <1>2. QED
    BY <1>1, CountsFinite, FS_AddElement

LEMMA OneSignals ==
  ASSUME IoQueueConstants, EventTypeOK, NEW p \in Poster, Signal(p)
  PROVE  /\ Cardinality(Signalling') = Cardinality(Signalling) - 1
         /\ \/ Cardinality(Woken') = Cardinality(Woken) + 1 /\ unheard' = unheard
            \/ Cardinality(Woken') = Cardinality(Woken) /\ unheard' = unheard + 1
  <1>1. Signalling' = Signalling \ {p} /\ p \in Signalling
    BY DEF Signal, EventTypeOK, Signalling
  <1>2. Cardinality(Signalling') = Cardinality(Signalling) - 1
    BY <1>1, CountsFinite, FS_RemoveElement
  <1>3. CASE \E t \in Waiting : io' = [io EXCEPT ![t] = "woken"] /\ UNCHANGED unheard
    <2>1. PICK t \in Waiting : io' = [io EXCEPT ![t] = "woken"] /\ UNCHANGED unheard
      BY <1>3
    <2>2. Woken' = Woken \cup {t} /\ t \notin Woken
      BY <2>1 DEF Waiting, Woken, EventTypeOK
    <2>3. QED
      BY <1>2, <2>1, <2>2, CountsFinite, FS_AddElement
  <1>4. CASE Waiting = {} /\ unheard' = unheard + 1 /\ UNCHANGED io
    BY <1>2, <1>4 DEF Woken
  <1>5. QED
    BY <1>3, <1>4 DEF Signal

LEMMA OneTakes ==
  ASSUME IoQueueConstants, EventTypeOK, NEW t \in IoThread, Take(t)
  PROVE  /\ Signalling' = Signalling
         /\ Cardinality(Woken') = Cardinality(Woken) - 1
  <1>1. Woken' = Woken \ {t} /\ t \in Woken /\ Signalling' = Signalling
    BY DEF Take, EventTypeOK, Woken, Signalling
  <1>2. QED
    BY <1>1, CountsFinite, FS_RemoveElement

\* A step that wakes and does not look only adds to the threads that are awake.
LEMMA MoreAwake ==
  ASSUME IoQueueConstants, NEW W, IsFiniteSet(W), Woken \subseteq W
  PROVE  Cardinality(Woken) <= Cardinality(W)
  BY FS_Subset

-----------------------------------------------------------------------------
LEMMA NextHeard ==
  ASSUME IoQueueConstants, EventTypeOK, EventTypeOK', Backlog, [EventNext]_eventVars
  PROVE  Backlog'
  <1> USE DEF Backlog
  <1>0. /\ Cardinality(Woken) \in Nat /\ Cardinality(Signalling) \in Nat
        /\ queued \in Nat /\ unheard \in Nat /\ m_bShutdown \in BOOLEAN
    BY CountsFinite DEF EventTypeOK, IoQueueConstants
  <1>1. ASSUME NEW p \in Poster, AddIoEvent(p) PROVE Backlog'
    <2>1. queued' <= queued + 1 /\ unheard' = unheard /\ m_bShutdown' = m_bShutdown
      BY <1>0, <1>1 DEF AddIoEvent, flags
    <2>2. Woken' = Woken /\ Cardinality(Signalling') = Cardinality(Signalling) + 1
      BY <1>1, OnePosts
    <2>3. queued' \in Nat
      BY DEF EventTypeOK, IoQueueConstants
    <2>4. QED
      BY <1>0, <2>1, <2>2, <2>3
  <1>2. ASSUME NEW p \in Poster, Signal(p) PROVE Backlog'
    <2>1. queued' = queued /\ m_bShutdown' = m_bShutdown
      BY <1>2 DEF Signal, flags
    <2>2. QED
      BY <1>0, <1>2, <2>1, OneSignals
  <1>3. ASSUME NEW t \in IoThread, Take(t) PROVE Backlog'
    <2>1. unheard' = unheard /\ m_bShutdown' = m_bShutdown
      BY <1>3 DEF Take, flags
    <2>2. \/ m_bShutdown
          \/ queued = 0 /\ queued' = 0
          \/ queued > 0 /\ queued' = queued - 1
      BY <1>3, Zenon DEF Take
    <2>3. Signalling' = Signalling /\ Cardinality(Woken') = Cardinality(Woken) - 1
      BY <1>3, OneTakes
    <2>4. Cardinality(Woken') \in Nat
      <3>1. Woken' \in SUBSET Woken
        BY <1>3 DEF Take, Woken, EventTypeOK
      <3>2. IsFiniteSet(Woken')
        BY <3>1, CountsFinite, FS_Subset
      <3>3. QED
        BY <3>2, FS_CardinalityType
    <2>5. QED
      BY <1>0, <2>1, <2>2, <2>3, <2>4
  <1>4. ASSUME queued' = queued, unheard' = unheard, m_bShutdown' = m_bShutdown,
               Signalling' = Signalling, Woken \subseteq Woken'
        PROVE  Backlog'
    <2>1. Woken' \in SUBSET IoThread
      BY DEF Woken
    <2>2. IsFiniteSet(Woken') /\ Cardinality(Woken') \in Nat
      BY <2>1, FS_Subset, FS_CardinalityType DEF IoQueueConstants
    <2>3. Cardinality(Woken) <= Cardinality(Woken')
      BY <1>4, <2>2, MoreAwake
    <2>4. QED
      BY <1>0, <1>4, <2>2, <2>3
  <1>5. ASSUME NEW p \in Poster, PosterExit(p) PROVE Backlog'
    BY <1>4, <1>5 DEF PosterExit, Signalling, Woken, EventTypeOK, flags
  <1>6. ASSUME NEW t \in IoThread, Wait(t) \/ WakeUp(t) \/ Work(t) PROVE Backlog'
    <2>1. Signalling' = Signalling /\ Woken \subseteq Woken'
      BY <1>6 DEF Wait, WakeUp, Work, Signalling, Woken, EventTypeOK
    <2>2. QED
      BY <1>4, <1>6, <2>1 DEF Wait, WakeUp, Work, flags
  <1>7. CASE Broadcast
    <2>1. Signalling' = Signalling /\ Woken \subseteq Woken'
      BY <1>7 DEF Broadcast, Signalling, Woken, Waiting, EventTypeOK
    <2>2. QED
      BY <1>4, <1>7, <2>1 DEF Broadcast
  <1>8. CASE HandlerShutdown
    BY <1>8 DEF HandlerShutdown
  <1>9. CASE ServerShutdown \/ Join \/ UNCHANGED eventVars
    BY <1>4, <1>9 DEF ServerShutdown, Join, eventVars, flags, Signalling, Woken
  <1>10. QED
    BY <1>1, <1>2, <1>3, <1>5, <1>6, <1>7, <1>8, <1>9
    DEF EventNext, PosterStep, IoStep, ShutdownStep

\* What an AddIoEvent that finds the queue full knows of it.
LEMMA FullBehind ==
  ASSUME IoQueueConstants, EventTypeOK, Backlog, NEW p \in Poster, AddIoEvent(p), queued >= QueueSize, ~m_bShutdown
  PROVE  QueueSize <= Cardinality(IoThread) + 1 + unheard
  <1>1. QueueSize \in Nat /\ queued \in Nat /\ unheard \in Nat /\ Cardinality(IoThread) \in Nat
    BY FS_CardinalityType DEF IoQueueConstants, EventTypeOK
  <1>2. Cardinality(Woken) \in Nat /\ Cardinality(Woken) <= Cardinality(IoThread)
    <2>1. Woken \in SUBSET IoThread
      BY DEF Woken
    <2>2. QED BY <2>1, CountsFinite, FS_Subset DEF IoQueueConstants
  <1>3. Cardinality(Signalling) \in Nat /\ Cardinality(Signalling) <= 1
    <2>1. PICK q : Signalling \in SUBSET {q}
      <3>1. p \notin Signalling
        BY DEF AddIoEvent, Signalling
      <3>2. Signalling \in SUBSET {"epoll"} \/ Signalling \in SUBSET {"send"}
        BY <3>1 DEF Signalling, Poster
      <3>3. QED BY <3>2
    <2>2. IsFiniteSet({q}) /\ Cardinality({q}) = 1
      BY FS_Singleton
    <2>3. QED BY <2>1, <2>2, CountsFinite, FS_Subset
  <1>4. queued <= Cardinality(Woken) + Cardinality(Signalling) + unheard
    BY DEF Backlog
  <1>5. QED BY <1>1, <1>2, <1>3, <1>4

LEMMA NextDropped ==
  ASSUME IoQueueConstants, EventTypeOK, Backlog, DroppedBehind, [EventNext]_eventVars
  PROVE  DroppedBehind'
  <1>0. QueueSize \in Nat /\ unheard \in Nat /\ Cardinality(IoThread) \in Nat
    BY FS_CardinalityType DEF IoQueueConstants, EventTypeOK
  <1>1. ASSUME NEW p \in Poster, AddIoEvent(p) PROVE DroppedBehind'
    <2>1. unheard' = unheard /\ (dropped' => dropped \/ (queued >= QueueSize /\ ~m_bShutdown))
      BY <1>1 DEF AddIoEvent
    <2>2. QED BY <1>1, <2>1, FullBehind DEF DroppedBehind
  <1>2. ASSUME NEW p \in Poster, Signal(p) PROVE DroppedBehind'
    <2>1. dropped' = dropped /\ (unheard' = unheard \/ unheard' = unheard + 1)
      BY <1>2 DEF Signal
    <2>2. QED BY <1>0, <2>1 DEF DroppedBehind
  <1>3. ASSUME UNCHANGED <<dropped, unheard>> PROVE DroppedBehind'
    BY <1>3 DEF DroppedBehind
  <1>4. ASSUME NEW p \in Poster, PosterExit(p) PROVE DroppedBehind'
    BY <1>3, <1>4 DEF PosterExit
  <1>5. ASSUME NEW t \in IoThread, IoStep(t) \/ WakeUp(t) PROVE DroppedBehind'
    BY <1>3, <1>5 DEF IoStep, Wait, Take, Work, WakeUp
  <1>6. CASE ServerShutdown \/ ShutdownStep
    BY <1>3, <1>6 DEF ServerShutdown, ShutdownStep, HandlerShutdown, Broadcast, Join
  <1>7. CASE UNCHANGED eventVars
    BY <1>3, <1>7 DEF eventVars
  <1>8. QED
    BY <1>1, <1>2, <1>4, <1>5, <1>6, <1>7 DEF EventNext, PosterStep

-----------------------------------------------------------------------------
\* A thread that looks at the flag after the broadcast finds it set, and one that
\* does not is in late.
LEMMA NextSleepers ==
  ASSUME EventTypeOK, Phases, SleepersWereBusy, [EventNext]_eventVars
  PROVE  SleepersWereBusy'
  <1> USE DEF EventTypeOK, SleepersWereBusy, flags
  <1>1. ASSUME NEW p \in Poster, AddIoEvent(p) \/ PosterExit(p) PROVE SleepersWereBusy'
    BY <1>1 DEF AddIoEvent, PosterExit
  <1>2. ASSUME NEW p \in Poster, Signal(p) PROVE SleepersWereBusy'
    <2>1. \A t \in IoThread : io'[t] = io[t] \/ io'[t] = "woken"
      BY <1>2 DEF Signal, Waiting
    <2>2. main' = main /\ late' = late
      BY <1>2 DEF Signal
    <2>3. QED BY <2>1, <2>2
  <1>3. ASSUME NEW t \in IoThread, Wait(t) \/ WakeUp(t) \/ Work(t) PROVE SleepersWereBusy'
    BY <1>3 DEF Wait, WakeUp, Work
  <1>4. ASSUME NEW t \in IoThread, Take(t) PROVE SleepersWereBusy'
    <2>1. main = "joinIo" => m_bShutdown
      BY DEF Phases
    <2>2. QED BY <1>4, <2>1 DEF Take
  <1>5. CASE ServerShutdown
    BY <1>5 DEF ServerShutdown
  <1>6. CASE HandlerShutdown
    BY <1>6 DEF HandlerShutdown
  <1>7. CASE Broadcast
    BY <1>7 DEF Broadcast, Waiting
  <1>8. CASE Join
    BY <1>8 DEF Join
  <1>9. CASE UNCHANGED eventVars
    BY <1>9 DEF eventVars
  <1>10. QED
    BY <1>1, <1>2, <1>3, <1>4, <1>5, <1>6, <1>7, <1>8, <1>9
    DEF EventNext, PosterStep, IoStep, ShutdownStep

-----------------------------------------------------------------------------
LEMMA InitHolds == ASSUME IoQueueConstants, EventInit PROVE EventInv
  <1>1. EventTypeOK
    BY InitTyped
  <1>2. Phases
    BY DEF EventInit, Phases
  <1>3. Cardinality(Woken) \in Nat /\ Cardinality(Signalling) \in Nat
    BY CountsFinite
  <1>4. Backlog
    BY <1>3 DEF EventInit, Backlog
  <1>5. DroppedBehind /\ SleepersWereBusy
    BY DEF EventInit, DroppedBehind, SleepersWereBusy
  <1>6. QED
    BY <1>1, <1>2, <1>4, <1>5 DEF EventInv

\* The invariant of the queue of events holds in every state, for any threads and
\* any queue (SyncHandler.cpp:43-86, 500-525, 571-578).
THEOREM Invariance == ASSUME IoQueueConstants PROVE EventSpec => []EventInv
  <1>1. EventInit => EventInv
    BY InitHolds
  <1>2. EventInv /\ [EventNext]_eventVars => EventInv'
    BY NextTyped, NextPhases, NextHeard, NextDropped, NextSleepers DEF EventInv
  <1>3. QED
    BY <1>1, <1>2, PTL DEF EventSpec

\* Type correctness of the queue and its threads (SyncHandler.h:66-80).
THEOREM EventsTypeCorrect == ASSUME IoQueueConstants PROVE EventSpec => []EventTypeOK
  <1>1. EventInv => EventTypeOK
    BY DEF EventInv
  <1>2. QED
    BY <1>1, Invariance, PTL

\* The backlog behind sleeping io threads is at most the signals that nobody
\* heard, and an event is dropped only when these have filled the queue but for
\* one place for each io thread and one more, for any number of threads and any
\* queue (SyncHandler.cpp:59-73, 571-578).
THEOREM BacklogIsHeard == ASSUME IoQueueConstants PROVE EventSpec => []BacklogHeard
  <1>1. EventInv => BacklogHeard
    BY DEF EventInv, Backlog, DroppedBehind, BacklogHeard
  <1>2. QED
    BY <1>1, Invariance, PTL

\* After Shutdown's broadcast, whatever the io threads do, one of them sleeps or
\* can go to sleep only if it was busy at the broadcast: the join can wait for
\* ever for no other (SyncHandler.cpp:58-66, 500-524).
THEOREM OnlyBusySleep == ASSUME IoQueueConstants PROVE EventSpec => []SleepersWereBusy
  <1>1. EventInv => SleepersWereBusy
    BY DEF EventInv
  <1>2. QED
    BY <1>1, Invariance, PTL
=============================================================================
