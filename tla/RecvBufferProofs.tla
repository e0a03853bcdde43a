--------------------------- MODULE RecvBufferProofs --------------------------
(***************************************************************************)
(* What the main thread takes out of the receive buffer is what the peer   *)
(* sent, for every ring, extra area and stream, whatever an io thread      *)
(* reads into the ring between any two of the main thread's calls.         *)
(*                                                                         *)
(* The io thread writes only behind what is queued, into as many cells as  *)
(* it once saw free; the main thread only takes cells off the front, so    *)
(* they stay free.  And what lies at the read pointer, behind the end of   *)
(* the ring too, is the packet from CopyHeadDataToExtraBuffer on: nothing  *)
(* but another copy of the same cells is written there.                    *)
(***************************************************************************)
EXTENDS RecvBuffer, CircuitQueueProofs

-----------------------------------------------------------------------------
\* What can lie in the ring: a made up header, or what the peer sent.
Known ==
  {c \in Element : LenEx > 0 /\ \E n \in 1..(Size - LenEx) : c = <<0, n>>} \cup {Stream[j] : j \in 1..Len(Stream)}

\* The space that the io thread saw is still free, and what it has read into it
\* is still there.
IoRight ==
  /\ io.at \in {"recv", "store"} => io.len <= GetWritableLen
  /\ io.at = "store" =>
       /\ io.ret >= 1 /\ io.ret <= taken /\ io.ex + io.ret <= io.len
       /\ LenEx > 0 /\ ~early => io.ex = LenEx
       /\ \A j \in 1..io.ex : data[tail + j - 1] = <<0, io.ret>>
       /\ \A j \in 1..io.ret : data[tail + io.ex + j - 1] = Stream[Stored + j]

\* The packet that the main thread is at is in the ring, and can be read in one
\* piece once it has been completed behind it.
MainRight ==
  /\ \A i \in 1..length : Contents[i] \in Known
  /\ pc \in {"copy", "pointer", "recv", "remove"} => size <= length
  /\ pc \in {"pointer", "recv"} =>
       /\ head + size <= Size + ExtraSize
       /\ \A i \in 1..size : data[head + i - 1] = Contents[i]
  /\ pc = "remove" => heard # <<>> /\ Len(heard[Len(heard)]) = size

TypeInv == RecvType /\ RingInv /\ IoRight /\ MainRight

-----------------------------------------------------------------------------
\* A sequence of cells is one of cells and blanks.
LEMMA SeqWider ==
  ASSUME NEW xs \in Seq(Element)
  PROVE  xs \in Seq(Element \cup {Blank})
  <1>1. Len(xs) \in Nat /\ \A j \in 1..Len(xs) : xs[j] \in Element \cup {Blank}
    BY LenProperties, ElementOfSeq
  <1>2. xs = [j \in 1..Len(xs) |-> xs[j]]
    BY LenProperties
  <1>3. [j \in 1..Len(xs) |-> xs[j]] \in Seq(Element \cup {Blank})
    BY <1>1, IsASeq
  <1>4. QED BY <1>2, <1>3

\* What the constants say of the traffic.
LEMMA Traffics ==
  ASSUME traffic \in Traffic
  PROVE  /\ HeaderSize \in Nat \ {0} /\ LenEx \in {0, HeaderSize} /\ LenEx \in Nat
         /\ Len(traffic.payload) \in Nat
         /\ Stream \in Seq(Element) /\ Len(Stream) \in Nat
         /\ traffic.start[1] = 0 /\ traffic.start[Len(traffic.payload) + 1] = Len(Stream)
         /\ \A p \in 1..(Len(traffic.payload) + 1) : traffic.start[p] \in Nat
         /\ \A p \in Packet :
              /\ traffic.payload[p] \in Nat \ {0}
              /\ traffic.start[p + 1] = traffic.start[p] + PacketSize(p)
              /\ PacketSize(p) = HeaderSize - LenEx + traffic.payload[p]
              /\ \A k \in 1..PacketSize(p) : Stream[traffic.start[p] + k] = <<p, k>>
              /\ LenEx = 0 => PacketSize(p) <= ExtraSize /\ PacketSize(p) <= Size
         /\ \A i \in 1..Len(Stream) : \E p \in Packet : traffic.start[p] < i /\ i <= traffic.start[p + 1]
         /\ LenEx > 0 => \A n \in 1..(Size - LenEx) : <<0, n>> \in Element
  <1>1. /\ HeaderSize \in Nat \ {0} /\ traffic.lenEx \in {0, HeaderSize} /\ IsStream(traffic)
        /\ traffic.lenEx = 0 =>
             \A p \in 1..Len(traffic.payload) : SizeIn(traffic, p) <= ExtraSize /\ SizeIn(traffic, p) <= Size
        /\ traffic.lenEx > 0 => \A n \in 1..(Size - traffic.lenEx) : <<0, n>> \in Element
    BY RecvConstants
  <1>2. /\ traffic.payload \in Seq(Nat \ {0}) /\ traffic.stream \in Seq(Element)
        /\ traffic.start \in [1..(Len(traffic.payload) + 1) -> Nat] /\ traffic.start[1] = 0
        /\ traffic.start[Len(traffic.payload) + 1] = Len(traffic.stream)
        /\ \A p \in 1..Len(traffic.payload) :
             /\ traffic.start[p + 1] = traffic.start[p] + SizeIn(traffic, p)
             /\ \A k \in 1..SizeIn(traffic, p) : traffic.stream[traffic.start[p] + k] = <<p, k>>
        /\ \A i \in 1..Len(traffic.stream) :
             \E p \in 1..Len(traffic.payload) : traffic.start[p] < i /\ i <= traffic.start[p + 1]
    BY <1>1 DEF IsStream
  <1>3. Len(traffic.payload) \in Nat /\ Len(traffic.stream) \in Nat
    BY <1>2, LenProperties
  <1>4. \A p \in 1..Len(traffic.payload) : traffic.payload[p] \in Nat \ {0}
    BY <1>2, ElementOfSeq
  <1>5. traffic.lenEx \in Nat
    BY <1>1
  <1>6. \A p \in Packet : PacketSize(p) = HeaderSize - LenEx + traffic.payload[p]
    BY DEF PacketSize, SizeIn, LenEx
  <1>7. \A p \in Packet :
          /\ traffic.start[p + 1] = traffic.start[p] + PacketSize(p)
          /\ \A k \in 1..PacketSize(p) : Stream[traffic.start[p] + k] = <<p, k>>
          /\ LenEx = 0 => PacketSize(p) <= ExtraSize /\ PacketSize(p) <= Size
    BY <1>1, <1>2 DEF Packet, PacketSize, Stream, LenEx
  <1>8. QED
    BY <1>1, <1>2, <1>3, <1>4, <1>5, <1>6, <1>7 DEF Packet, Stream, LenEx

\* The i-th cell of the stream has the place i.
LEMMA StreamCell ==
  ASSUME traffic \in Traffic, NEW i \in 1..Len(Stream)
  PROVE  /\ Stream[i] \in Element /\ Place(Stream[i]) = i
         /\ Stream[i][1] \in Packet /\ Stream[i][1] # 0
  <1>1. PICK p \in Packet : traffic.start[p] < i /\ i <= traffic.start[p + 1]
    BY Traffics
  <1>2. /\ traffic.start[p + 1] = traffic.start[p] + PacketSize(p)
        /\ \A k \in 1..PacketSize(p) : Stream[traffic.start[p] + k] = <<p, k>>
        /\ PacketSize(p) = HeaderSize - LenEx + traffic.payload[p]
        /\ traffic.payload[p] \in Nat
    BY Traffics
  <1>3. /\ HeaderSize \in Nat /\ LenEx \in Nat /\ Len(Stream) \in Nat /\ Len(traffic.payload) \in Nat
        /\ Stream \in Seq(Element) /\ \A q \in 1..(Len(traffic.payload) + 1) : traffic.start[q] \in Nat
    BY Traffics
  <1>4. PICK s \in Nat : s = traffic.start[p]
    BY <1>3 DEF Packet
  <1>5. PICK z \in Int : z = PacketSize(p)
    BY <1>2, <1>3
  <1>6. PICK k \in 1..z : k = i - s
    <2>1. i - s \in 1..z
      <3>1. s < i /\ i <= s + z /\ i \in Nat
        BY <1>1, <1>2, <1>3, <1>4, <1>5
      <3>2. QED BY <3>1
    <2>2. QED BY <2>1
  <1>7. Stream[s + k] = <<p, k>> /\ s + k = i
    <2>1. s + k = i
      BY <1>3, <1>6
    <2>2. \A j \in 1..z : Stream[s + j] = <<p, j>>
      BY <1>2, <1>4, <1>5
    <2>3. QED BY <2>1, <2>2
  <1>8. PICK c : c = Stream[i]
    OBVIOUS
  <1>9. c[1] = p /\ c[2] = k
    BY <1>7, <1>8
  <1>10. Place(c) = i
    BY <1>4, <1>7, <1>9 DEF Place
  <1>11. p # 0
    BY <1>3 DEF Packet
  <1>12. Stream[i] \in Element
    BY <1>3, ElementOfSeq
  <1>13. QED BY <1>8, <1>9, <1>10, <1>11, <1>12

\* What one recv() brings, behind its header if there is to be one.
Brought(ex, n, o) == Mark(ex, n) \o SubSeq(Stream, o + 1, o + n)

IsPiece(xs, ex, n, o) ==
  /\ xs \in Seq(Element) /\ Len(xs) = ex + n
  /\ \A j \in 1..ex : xs[j] = <<0, n>>
  /\ \A j \in 1..n : xs[ex + j] = Stream[o + j]
  /\ \A j \in 1..(ex + n) : xs[j] \in Known

LEMMA Piece ==
  ASSUME traffic \in Traffic, NEW ex \in {0, LenEx}, NEW n \in Nat \ {0}, NEW o \in Nat,
         o + n <= Len(Stream), ex + n <= Size
  PROVE  IsPiece(Brought(ex, n, o), ex, n, o)
  <1> DEFINE mark == Mark(ex, n)
             text == SubSeq(Stream, o + 1, o + n)
             both == mark \o text
  <1>1. /\ LenEx \in Nat /\ ex \in Nat /\ Stream \in Seq(Element) /\ Len(Stream) \in Nat /\ Size \in Nat
        /\ LenEx > 0 => \A m \in 1..(Size - LenEx) : <<0, m>> \in Element
    BY Traffics, QueueAssumption
  <1>2. ex > 0 => LenEx > 0 /\ n \in 1..(Size - LenEx) /\ <<0, n>> \in Element
    BY <1>1
  <1>3. mark \in Seq(Element) /\ Len(mark) = ex /\ \A j \in 1..ex : mark[j] = <<0, n>>
    <2>1. \A j \in 1..ex : <<0, n>> \in Element
      BY <1>1, <1>2
    <2>2. [k \in 1..ex |-> <<0, n>>] \in Seq(Element)
      BY <2>1, <1>1, IsASeq
    <2>3. QED BY <2>2, <1>1, LenProperties DEF Mark
  <1>4. text \in Seq(Element) /\ Len(text) = n /\ \A j \in 1..n : text[j] = Stream[o + j]
    <2>1. \A i \in (o + 1)..(o + n) : i \in 1..Len(Stream)
      BY <1>1
    <2>2. \A i \in (o + 1)..(o + n) : Stream[i] \in Element
      BY <2>1, <1>1, ElementOfSeq
    <2>3. o + 1 \in Int /\ o + n \in Int
      OBVIOUS
    <2>4. /\ SubSeq(Stream, o + 1, o + n) \in Seq(Element)
          /\ Len(SubSeq(Stream, o + 1, o + n)) = IF o + 1 <= o + n THEN (o + n) - (o + 1) + 1 ELSE 0
          /\ \A i \in 1..((o + n) - (o + 1) + 1) :
               SubSeq(Stream, o + 1, o + n)[i] = Stream[(o + 1) + i - 1]
      BY <2>2, <2>3, SubSeqProperties
    <2>5. o + 1 <= o + n /\ (o + n) - (o + 1) + 1 = n
      OBVIOUS
    <2>6. \A i \in 1..n : (o + 1) + i - 1 = o + i
      OBVIOUS
    <2>7. QED BY <2>4, <2>5, <2>6
  <1> HIDE DEF mark, text
  <1>5. /\ both \in Seq(Element) /\ Len(both) = Len(mark) + Len(text)
        /\ \A i \in 1..(Len(mark) + Len(text)) :
             both[i] = IF i <= Len(mark) THEN mark[i] ELSE text[i - Len(mark)]
    BY <1>3, <1>4, ConcatProperties
  <1> HIDE DEF both
  <1>6. /\ Len(both) = ex + n
        /\ \A i \in 1..(ex + n) : both[i] = IF i <= ex THEN mark[i] ELSE text[i - ex]
    BY <1>3, <1>4, <1>5
  <1>7. ASSUME NEW j \in 1..ex PROVE both[j] = <<0, n>>
    <2>1. j \in 1..(ex + n) /\ j <= ex
      BY <1>1
    <2>2. QED BY <2>1, <1>3, <1>6
  <1>8. ASSUME NEW j \in 1..n PROVE both[ex + j] = Stream[o + j]
    <2>1. PICK i \in 1..(ex + n) : i = ex + j
      BY <1>1
    <2>2. ~(i <= ex) /\ i - ex = j
      BY <2>1, <1>1
    <2>3. QED BY <2>1, <2>2, <1>4, <1>6
  <1>9. ASSUME NEW j \in 1..(ex + n) PROVE both[j] \in Known
    <2>1. CASE j <= ex
      <3>1. j \in 1..ex /\ ex > 0
        BY <2>1, <1>1
      <3>2. both[j] = <<0, n>>
        BY <3>1, <1>7
      <3>3. QED BY <3>1, <3>2, <1>2 DEF Known
    <2>2. CASE ~(j <= ex)
      <3>1. PICK k \in 1..n : k = j - ex
        <4>1. j - ex \in 1..n
          BY <2>2, <1>1
        <4>2. QED BY <4>1
      <3>2. ex + k = j
        BY <3>1, <1>1
      <3>3. both[j] = Stream[o + k]
        BY <3>2, <1>8
      <3>4. o + k \in 1..Len(Stream)
        BY <1>1
      <3>5. QED BY <3>3, <3>4 DEF Known
    <2>3. QED BY <2>1, <2>2
  <1>10. Brought(ex, n, o) = both
    BY DEF Brought, both, mark, text
  <1>11. QED BY <1>5, <1>6, <1>7, <1>8, <1>9, <1>10 DEF IsPiece

\* The parts of the type invariant, one by one.
LEMMA TypeParts ==
  ASSUME TypeInv
  PROVE  /\ RingInv /\ traffic \in Traffic
         /\ taken \in 0..Len(Stream)
         /\ io \in [at : {"away", "recv", "store", "again", "overrun"}, len : 0..Size, ex : {0, LenEx}, ret : 0..Size]
         /\ bound \in BOOLEAN /\ early \in BOOLEAN /\ removed \in BOOLEAN /\ unreported \in BOOLEAN
         /\ size \in 0..(Size + ExtraSize + 1)
         /\ pc \in {"peek", "length", "copy", "pointer", "recv", "remove", "given up"}
         /\ heard \in Seq(Seq(Element \cup {Blank}))
         /\ IoRight /\ MainRight
  BY DEF TypeInv, RecvType

LEMMA Numbers ==
  ASSUME TypeInv
  PROVE  /\ length \in Nat /\ head \in Nat /\ tail \in Nat /\ Size \in Nat \ {0} /\ ExtraSize \in Nat
         /\ length <= Size /\ head < Size /\ size \in Nat /\ taken \in Nat /\ Len(Stream) \in Nat
         /\ taken <= Len(Stream)
         /\ io.len \in Nat /\ io.ex \in Nat /\ io.ret \in Nat /\ LenEx \in Nat /\ HeaderSize \in Nat \ {0}
         /\ io.len <= Size /\ io.ex \in {0, LenEx}
         /\ GetWritableLen \in 0..Size /\ tail + GetWritableLen <= Size
         /\ Contents \in Seq(Element \cup {Blank}) /\ Len(Contents) = length
         /\ Stored \in Nat /\ (io.at # "store" => Stored = taken)
         /\ (io.at = "store" => Stored = taken - io.ret)
  <1>1. /\ traffic \in Traffic /\ RingInv /\ taken \in 0..Len(Stream) /\ size \in 0..(Size + ExtraSize + 1)
        /\ io \in [at : {"away", "recv", "store", "again", "overrun"}, len : 0..Size, ex : {0, LenEx}, ret : 0..Size]
    BY TypeParts
  <1>2. /\ LenEx \in Nat /\ HeaderSize \in Nat \ {0} /\ Len(Stream) \in Nat
    BY <1>1, Traffics
  <1>3. /\ length \in 0..Size /\ head \in 0..(Size - 1) /\ tail \in 0..(Size - 1) /\ Size \in Nat \ {0}
        /\ ExtraSize \in Nat
    BY <1>1, RingShape, QueueAssumption
  <1>4. GetWritableLen \in 0..Size /\ tail + GetWritableLen <= Size
    BY <1>1, WritableCells
  <1>5. Contents \in Seq(Element \cup {Blank}) /\ Len(Contents) = length
    BY <1>1, ContentsSeq
  <1>6. io.len \in 0..Size /\ io.ex \in {0, LenEx} /\ io.ret \in 0..Size
    BY <1>1
  <1>7. io.at = "store" => io.ret <= taken
    BY TypeParts DEF IoRight
  <1>8. (io.at # "store" => Stored = taken - 0) /\ (io.at = "store" => Stored = taken - io.ret)
    BY DEF Stored
  <1>9. taken \in Nat /\ io.ret \in Nat
    BY <1>1, <1>2, <1>3, <1>6
  <1>10. Stored \in Nat /\ (io.at # "store" => Stored = taken)
    BY <1>7, <1>8, <1>9
  <1>11. QED
    BY <1>1, <1>2, <1>3, <1>4, <1>5, <1>6, <1>8, <1>9, <1>10

\* Known cells are cells.
LEMMA KnownIs ==
  ASSUME traffic \in Traffic
  PROVE  \A c \in Known :
           /\ c \in Element
           /\ \/ LenEx > 0 /\ \E n \in 1..(Size - LenEx) : c = <<0, n>>
              \/ c[1] \in Packet /\ c[1] # 0
  <1>1. \A i \in 1..Len(Stream) : Stream[i] \in Element /\ Stream[i][1] \in Packet /\ Stream[i][1] # 0
    BY StreamCell
  <1>2. QED BY <1>1 DEF Known

\* Steps of the io thread that leave the ring alone.
LEMMA IoQuietType ==
  ASSUME TypeInv, EventLost \/ GetRecvParam \/ RecvNothing \/ RecvZero \/ RecvOverruns
  PROVE  TypeInv' /\ Contents' = Contents /\ UNCHANGED <<traffic, taken, early, pc, size, heard, length>>
         /\ Stored' = Stored
  <1>1. /\ UNCHANGED <<qvars, traffic, bound, pc, size, heard, taken, early>>
    BY DEF EventLost, GetRecvParam, RecvNothing, RecvZero, RecvOverruns, mainVars
  <1>2. RingInv' /\ Contents' = Contents /\ UNCHANGED <<head, tail, length, data>> /\ GetWritableLen' = GetWritableLen
    BY <1>1, TypeParts, RingUnchanged DEF qvars, GetWritableLen
  <1>3. LenEx' = LenEx /\ Stream' = Stream /\ Known' = Known /\ Packet' = Packet
    BY <1>1 DEF LenEx, Stream, Known, Packet
  <1>4. removed' \in BOOLEAN /\ unreported' \in BOOLEAN
    BY TypeParts DEF EventLost, GetRecvParam, RecvNothing, RecvZero, RecvOverruns, mainVars
  <1>5. \/ io' = Away
        \/ io' = [at |-> "recv", len |-> GetWritableLen, ex |-> 0, ret |-> 0]
        \/ io' = [at |-> "recv", len |-> GetWritableLen, ex |-> LenEx, ret |-> 0]
        \/ io' = [io EXCEPT !.at = "overrun"]
        \/ io' = io /\ io.at = "away"
    BY DEF EventLost, GetRecvParam, RecvNothing, RecvZero, RecvOverruns
  <1>6. /\ GetWritableLen \in 0..Size /\ 0 \in 0..Size
    BY Numbers, QueueAssumption
  <1>7. /\ io' \in [at : {"away", "recv", "store", "again", "overrun"}, len : 0..Size, ex : {0, LenEx}, ret : 0..Size]
        /\ io'.at # "store" /\ (io'.at = "recv" => io'.len = GetWritableLen)
    <2> HIDE DEF GetWritableLen
    <2>1. CASE io' = Away
      BY <2>1, <1>6 DEF Away
    <2>2. CASE io' = [at |-> "recv", len |-> GetWritableLen, ex |-> 0, ret |-> 0]
      BY <2>2, <1>6
    <2>3. CASE io' = [at |-> "recv", len |-> GetWritableLen, ex |-> LenEx, ret |-> 0]
      BY <2>3, <1>6
    <2>4. CASE io' = [io EXCEPT !.at = "overrun"]
      BY <2>4, TypeParts
    <2>5. CASE io' = io /\ io.at = "away"
      BY <2>5, TypeParts
    <2>6. QED BY <2>1, <2>2, <2>3, <2>4, <2>5, <1>5
  <1>8. RecvType'
    BY <1>1, <1>2, <1>3, <1>4, <1>7, TypeParts DEF RecvType, RingInv
  <1>9. IoRight'
    <2>1. io'.at = "recv" => io'.len <= GetWritableLen'
      BY <1>2, <1>6, <1>7
    <2>2. QED BY <2>1, <1>7 DEF IoRight
  <1>10. MainRight'
    BY <1>1, <1>2, <1>3, TypeParts DEF MainRight
  <1>11. io.at # "store"
    BY DEF EventLost, GetRecvParam, RecvNothing, RecvZero, RecvOverruns
  <1>12. Stored' = Stored
    <2>1. Stored = taken
      BY <1>11, Numbers
    <2>2. Stored' = taken - 0
      BY <1>1, <1>7 DEF Stored
    <2>3. taken \in Nat
      BY Numbers
    <2>4. QED BY <2>1, <2>2, <2>3
  <1>13. QED
    BY <1>1, <1>2, <1>8, <1>9, <1>10, <1>12 DEF TypeInv

\* The cells of the packet that the main thread is at are not written over.
LEMMA PacketStays ==
  ASSUME TypeInv, pc \in {"pointer", "recv"},
         \A i \in 1..size : data'[head + i - 1] = data[head + i - 1],
         UNCHANGED <<pc, size, head>>, \A i \in 1..length : Contents'[i] = Contents[i]
  PROVE  /\ head' + size' <= Size + ExtraSize
         /\ \A i \in 1..size' : data'[head' + i - 1] = Contents'[i]
  <1>1. size \in Nat /\ length \in Nat
    BY Numbers
  <1>2. /\ head + size <= Size + ExtraSize /\ size <= length
        /\ \A i \in 1..size : data[head + i - 1] = Contents[i]
    BY TypeParts DEF MainRight
  <1>3. \A i \in 1..size : i \in 1..length
    BY <1>1, <1>2
  <1>4. QED BY <1>2, <1>3

\* recv() returns n cells: they are put where nothing is queued and nothing is
\* being read.
LEMMA DepositType ==
  ASSUME TypeInv, Recv
  PROVE  /\ TypeInv' /\ Contents' = Contents /\ UNCHANGED <<traffic, pc, size, heard, length>>
         /\ Stored' = Stored /\ (early => early')
  <1>1. PICK n \in 1..(io.len - io.ex) :
          /\ taken + n <= Len(Stream)
          /\ Deposit(Mark(io.ex, n) \o SubSeq(Stream, taken + 1, taken + n))
          /\ taken' = taken + n
          /\ io' = [io EXCEPT !.at = "store", !.ret = n]
    BY DEF Recv
  <1>2. /\ UNCHANGED <<traffic, bound, pc, size, heard, unreported, removed>> /\ io.at = "recv"
        /\ early' = (early \/ io.ex < LenEx)
    BY DEF Recv, mainVars
  <1>3. LenEx' = LenEx /\ Stream' = Stream /\ Known' = Known /\ Packet' = Packet
    BY <1>2 DEF LenEx, Stream, Known, Packet
  <1>4. /\ io.len \in Nat /\ io.ex \in Nat /\ taken \in Nat /\ Size \in Nat /\ io.len <= Size /\ Len(Stream) \in Nat
        /\ io.ex \in {0, LenEx} /\ LenEx \in Nat /\ tail \in Nat /\ head \in Nat
        /\ GetWritableLen \in 0..Size /\ tail + GetWritableLen <= Size /\ length \in Nat /\ size \in Nat
        /\ length <= Size
    BY Numbers
  <1>5. n \in Nat \ {0} /\ io.ex + n <= io.len /\ io.ex + n <= Size
    BY <1>4
  <1>6. io.len <= GetWritableLen
    BY <1>2, TypeParts DEF IoRight
  <1> DEFINE xs == Mark(io.ex, n) \o SubSeq(Stream, taken + 1, taken + n)
  <1>7. /\ xs \in Seq(Element) /\ Len(xs) = io.ex + n
        /\ \A j \in 1..io.ex : xs[j] = <<0, n>>
        /\ \A j \in 1..n : xs[io.ex + j] = Stream[taken + j]
    <2>1. traffic \in Traffic
      BY TypeParts
    <2>2. PICK ex \in {0, LenEx} : ex = io.ex
      BY <1>4
    <2>3. PICK o \in Nat : o = taken
      BY <1>4
    <2>4. PICK m \in Nat \ {0} : m = n
      BY <1>5
    <2>8. o + m <= Len(Stream) /\ ex + m <= Size
      BY <1>1, <1>5, <2>2, <2>3, <2>4
    <2>5. IsPiece(Brought(ex, m, o), ex, m, o)
      BY <2>1, <2>8, Piece
    <2>6. xs = Brought(ex, m, o)
      BY <2>2, <2>3, <2>4 DEF Brought
    <2> HIDE DEF xs
    <2>7. QED BY <2>2, <2>3, <2>4, <2>5, <2>6 DEF IsPiece
  <1>8. Deposit(xs)
    BY <1>1
  <1> HIDE DEF xs
  <1>9. /\ RingInv' /\ Contents' = Contents
        /\ \A j \in 1..(io.ex + n) : data'[tail + j - 1] = xs[j]
    BY <1>7, <1>8, TypeParts, DepositStep
  <1>10. UNCHANGED <<head, tail, length>> /\ data' = CopyIn(data, tail, xs, io.ex + n)
    BY <1>7, <1>8 DEF Deposit
  <1>11. GetWritableLen' = GetWritableLen
    BY <1>10 DEF GetWritableLen
  <1> HIDE DEF GetWritableLen
  <1>12. \A c \in Cell : c \notin tail..(tail + (io.ex + n) - 1) => data'[c] = data[c]
    BY <1>10 DEF CopyIn
  <1>13. io' \in [at : {"away", "recv", "store", "again", "overrun"}, len : 0..Size, ex : {0, LenEx}, ret : 0..Size]
    <2>1. n \in 0..Size
      BY <1>4, <1>5
    <2>2. QED BY <2>1, <1>1, TypeParts
  <1>14. io'.at = "store" /\ io'.ret = n /\ io'.len = io.len /\ io'.ex = io.ex
    BY <1>1, TypeParts
  <1>15. taken' \in 0..Len(Stream)
    BY <1>1, <1>4, <1>5, SMTT(40)
  <1>16. RecvType'
    <2>1. early' \in BOOLEAN
      BY <1>2, TypeParts
    <2>2. QED BY <2>1, <1>2, <1>3, <1>9, <1>13, <1>15, TypeParts DEF RecvType, RingInv
  <1>17. Stored' = taken /\ Stored = taken
    <2>1. Stored' = taken' - n
      BY <1>14 DEF Stored
    <2>2. Stored = taken
      BY <1>2, Numbers
    <2>3. QED BY <2>1, <2>2, <1>1, <1>4, <1>5
  <1>18. \A j \in 1..io.ex : data'[tail + j - 1] = <<0, n>>
    <2>1. \A j \in 1..io.ex : j \in 1..(io.ex + n)
      BY <1>4, <1>5
    <2>2. QED BY <2>1, <1>7, <1>9
  <1>19. \A j \in 1..n : data'[tail + io.ex + j - 1] = Stream[taken + j]
    <2>1. SUFFICES ASSUME NEW j \in 1..n PROVE data'[tail + io.ex + j - 1] = Stream[taken + j]
      OBVIOUS
    <2>2. PICK i \in 1..(io.ex + n) : i = io.ex + j
      BY <1>4, <1>5
    <2>3. data'[tail + i - 1] = xs[i]
      BY <1>9
    <2>4. tail + i - 1 = tail + io.ex + j - 1
      BY <2>2, <1>4, SMTT(40)
    <2>5. xs[i] = Stream[taken + j]
      BY <2>2, <1>7
    <2>6. QED BY <2>3, <2>4, <2>5
  <1>20. LenEx > 0 /\ ~early' => io.ex = LenEx
    <2>1. CASE io.ex < LenEx
      BY <2>1, <1>2
    <2>2. CASE ~(io.ex < LenEx)
      BY <2>2, <1>4
    <2>3. QED BY <2>1, <2>2
  <1>21. IoRight'
    <2>1. io'.len <= GetWritableLen'
      BY <1>6, <1>11, <1>14
    <2>2. n >= 1 /\ n <= taken' /\ io.ex + n <= io.len
      BY <1>1, <1>4, <1>5
    <2>3. \A j \in 1..io'.ex : data'[tail' + j - 1] = <<0, io'.ret>>
      BY <1>10, <1>14, <1>18
    <2>4. \A j \in 1..io'.ret : data'[tail' + io'.ex + j - 1] = Stream'[Stored' + j]
      BY <1>3, <1>10, <1>14, <1>17, <1>19
    <2>5. io'.ret >= 1 /\ io'.ret <= taken' /\ io'.ex + io'.ret <= io'.len
      BY <2>2, <1>14
    <2>6. LenEx' > 0 /\ ~early' => io'.ex = LenEx'
      BY <1>3, <1>14, <1>20
    <2>7. QED BY <2>1, <2>3, <2>4, <2>5, <2>6 DEF IoRight
  <1>22. MainRight'
    <2>1. ASSUME pc \in {"pointer", "recv"}
          PROVE  \A i \in 1..size : data'[head + i - 1] = data[head + i - 1]
      <3>1. SUFFICES ASSUME NEW i \in 1..size PROVE data'[head + i - 1] = data[head + i - 1]
        OBVIOUS
      <3>2. size <= length /\ head + size <= Size + ExtraSize
        BY <2>1, TypeParts DEF MainRight
      <3>3. ExtraSize \in Nat
        BY QueueAssumption
      <3>4. PICK c \in Cell : c = head + i - 1
        <4>1. head + i - 1 \in Cell
          BY <3>2, <3>3, <1>4 DEF Cell
        <4>2. QED BY <4>1
      <3>5. c \notin tail..(tail + (io.ex + n) - 1)
        <4>1. CASE c < Size
          <5>1. i \in 1..Size /\ i \in 1..length
            BY <3>2, <1>4
          <5>2. CellOf(i) = c
            <6>1. CellOf(i) = IF head + i - 1 < Size THEN head + i - 1 ELSE head + i - 1 - Size
              BY <5>1, TypeParts, CellOfValue
            <6>2. QED BY <6>1, <4>1, <3>4
          <5>3. c \notin tail..(tail + GetWritableLen - 1)
            BY <5>1, <5>2, TypeParts, WritableCells
          <5>4. QED BY <5>3, <1>4, <1>5, <1>6, <3>4
        <4>2. CASE ~(c < Size)
          BY <4>2, <3>4, <1>4, <1>5, <1>6
        <4>3. QED BY <4>1, <4>2
      <3>6. data'[c] = data[c]
        BY <3>5, <1>12
      <3>7. QED BY <3>4, <3>6
    <2>2. pc' \in {"pointer", "recv"} =>
            /\ head' + size' <= Size + ExtraSize
            /\ \A i \in 1..size' : data'[head' + i - 1] = Contents'[i]
      BY <2>1, <1>2, <1>9, <1>10, PacketStays
    <2>3. QED BY <2>2, <1>2, <1>3, <1>9, <1>10, TypeParts DEF MainRight
  <1>23. early => early'
    BY <1>2
  <1>24. QED
    BY <1>2, <1>9, <1>10, <1>16, <1>17, <1>21, <1>22, <1>23 DEF TypeInv

\* Completion() queues what recv() has put there.
LEMMA CompletionType ==
  ASSUME TypeInv, RecvCompletion
  PROVE  /\ TypeInv' /\ UNCHANGED <<traffic, early, taken, pc, size, heard>>
         /\ Stored' = Stored + io.ret /\ io.at = "store"
         /\ IsPiece(Brought(io.ex, io.ret, Stored), io.ex, io.ret, Stored)
         /\ Contents' = Contents \o Brought(io.ex, io.ret, Stored)
         /\ length' = length + io.ex + io.ret
  <1>1. /\ io.at = "store" /\ EnqueueInPlace(io.ret + io.ex)
        /\ UNCHANGED <<early, taken, traffic, bound, pc, size, heard, removed>>
        /\ io' = Away \/ io' = [Away EXCEPT !.at = "again"]
        /\ unreported' \in BOOLEAN
    BY DEF RecvCompletion, mainVars
  <1>2. LenEx' = LenEx /\ Stream' = Stream /\ Known' = Known /\ Packet' = Packet
    BY <1>1 DEF LenEx, Stream, Known, Packet
  <1>3. traffic \in Traffic /\ RingInv /\ IoRight /\ MainRight
    BY TypeParts
  <1>4. /\ io.ret >= 1 /\ io.ret <= taken /\ io.ex + io.ret <= io.len /\ io.len <= GetWritableLen
        /\ \A j \in 1..io.ex : data[tail + j - 1] = <<0, io.ret>>
        /\ \A j \in 1..io.ret : data[tail + io.ex + j - 1] = Stream[Stored + j]
    BY <1>1, <1>3 DEF IoRight
  <1>5. PICK n \in Nat \ {0} : n = io.ret
    BY <1>4, Numbers, SMTT(40)
  <1>6. PICK ex \in {0, LenEx} : ex = io.ex
    BY Numbers
  <1>7. PICK o \in Nat : o = Stored
    BY Numbers
  <1>8. /\ LenEx \in Nat /\ ex \in Nat /\ io.len \in Nat /\ io.len <= Size /\ Size \in Nat /\ taken \in Nat
        /\ Stored = taken - io.ret /\ Len(Stream) \in Nat /\ taken <= Len(Stream) /\ length \in Nat /\ tail \in Nat
        /\ GetWritableLen \in 0..Size /\ tail + GetWritableLen <= Size /\ head \in Nat /\ size \in Nat
    BY <1>1, <1>6, Numbers
  <1> HIDE DEF GetWritableLen
  <1>9. o + n <= Len(Stream) /\ ex + n <= Size /\ ex + n <= GetWritableLen /\ o + n = taken
    <2>1. PICK t \in Nat : t = taken
      BY <1>8
    <2>7. PICK wl \in Nat : wl = GetWritableLen
      BY <1>8
    <2>8. PICK l \in Nat : l = io.len
      BY <1>8
    <2>9. PICK sl \in Nat : sl = Len(Stream)
      BY <1>8
    <2>2. n <= t /\ ex + n <= l /\ l <= wl
      BY <1>4, <1>5, <1>6, <2>1, <2>7, <2>8
    <2>3. o = t - n /\ t <= sl /\ l <= Size
      BY <1>5, <1>7, <1>8, <2>1, <2>8, <2>9
    <2>4. ex \in Nat /\ Size \in Nat
      BY <1>8
    <2>5. o + n <= sl /\ ex + n <= Size /\ ex + n <= wl /\ o + n = t
      BY <2>2, <2>3, <2>4
    <2>6. QED BY <2>1, <2>5, <2>7, <2>9
  <1>10. IsPiece(Brought(ex, n, o), ex, n, o)
    BY <1>3, <1>9, Piece
  <1>11. PICK xs : xs = Brought(ex, n, o)
    OBVIOUS
  <1>12. /\ xs \in Seq(Element) /\ Len(xs) = ex + n
         /\ \A j \in 1..ex : xs[j] = <<0, n>>
         /\ \A j \in 1..n : xs[ex + j] = Stream[o + j]
         /\ \A j \in 1..(ex + n) : xs[j] \in Known
    BY <1>10, <1>11 DEF IsPiece
  <1>13. ASSUME NEW j \in 1..Len(xs) PROVE data[tail + j - 1] = xs[j]
    <2>1. j \in 1..(ex + n)
      BY <1>12
    <2>2. CASE j <= ex
      <3>1. j \in 1..ex
        BY <2>1, <2>2, <1>8
      <3>2. QED BY <3>1, <1>4, <1>5, <1>6, <1>12
    <2>3. CASE ~(j <= ex)
      <3>1. PICK k \in 1..n : k = j - ex
        <4>1. j - ex \in 1..n
          BY <2>1, <2>3, <1>8
        <4>2. QED BY <4>1
      <3>2. ex + k = j /\ tail + ex + k - 1 = tail + j - 1
        BY <3>1, <2>1, <1>8
      <3>3. data[tail + ex + k - 1] = Stream[o + k]
        BY <1>4, <1>5, <1>6, <1>7
      <3>4. xs[ex + k] = Stream[o + k]
        BY <1>12
      <3>5. QED BY <3>2, <3>3, <3>4
    <2>4. QED BY <2>2, <2>3
  <1>14. RingInv' /\ Contents' = Contents \o xs
    <2>1. EnqueueInPlace(Len(xs))
      <3>1. Len(xs) = io.ret + io.ex
        BY <1>5, <1>6, <1>8, <1>12
      <3>2. QED BY <3>1, <1>1
    <2>2. Len(xs) <= GetWritableLen
      BY <1>9, <1>12
    <2>3. QED BY <2>1, <2>2, <1>3, <1>12, <1>13, InPlaceStep
  <1>15. UNCHANGED <<data, head>> /\ length' = length + (ex + n)
    <2>1. UNCHANGED <<data, head>> /\ length' = length + (io.ret + io.ex)
      BY <1>1 DEF EnqueueInPlace, Advance
    <2>2. QED BY <2>1, <1>5, <1>6, <1>8
  <1>16. io' \in [at : {"away", "recv", "store", "again", "overrun"}, len : 0..Size, ex : {0, LenEx}, ret : 0..Size]
         /\ io'.at \notin {"recv", "store"}
    <2>1. 0 \in 0..Size
      BY <1>8
    <2>2. QED BY <2>1, <1>1 DEF Away
  <1>17. RecvType'
    BY <1>1, <1>2, <1>14, <1>16, TypeParts DEF RecvType, RingInv
  <1>18. IoRight'
    BY <1>16 DEF IoRight
  <1>19. Stored' = o + n
    <2>1. Stored' = taken - 0
      BY <1>1, <1>16 DEF Stored
    <2>2. QED BY <2>1, <1>8, <1>9
  <1>20. Contents \in Seq(Element \cup {Blank}) /\ Len(Contents) = length
    BY Numbers
  <1>21. /\ \A i \in 1..length : (Contents')[i] = Contents[i]
         /\ \A j \in 1..(ex + n) : (Contents')[length + j] = xs[j]
    <2>1. xs \in Seq(Element \cup {Blank})
      BY <1>12, SeqWider
    <2>2. PICK both : both = Contents \o xs
      OBVIOUS
    <2>3. \A i \in 1..(Len(Contents) + Len(xs)) :
            (Contents \o xs)[i] = IF i <= Len(Contents) THEN Contents[i] ELSE xs[i - Len(Contents)]
      BY <2>1, <1>20, ConcatProperties
    <2>4. \A i \in 1..(length + (ex + n)) :
            both[i] = IF i <= length THEN Contents[i] ELSE xs[i - length]
      BY <2>2, <2>3, <1>12, <1>20
    <2>5. ASSUME NEW i \in 1..length PROVE both[i] = Contents[i]
      <3>1. i \in 1..(length + (ex + n)) /\ i <= length
        BY <1>8
      <3>2. QED BY <3>1, <2>4
    <2>6. ASSUME NEW j \in 1..(ex + n) PROVE both[length + j] = xs[j]
      <3>1. length + j \in 1..(length + (ex + n)) /\ ~(length + j <= length) /\ (length + j) - length = j
        BY <1>8
      <3>2. QED BY <3>1, <2>4
    <2>7. QED BY <2>2, <2>5, <2>6, <1>14
  <1>22. MainRight'
    <2>1. ASSUME NEW i \in 1..length' PROVE (Contents')[i] \in Known
      <3>1. CASE i <= length
        <4>1. i \in 1..length
          BY <3>1, <1>8
        <4>2. QED BY <4>1, <1>3, <1>21 DEF MainRight
      <3>2. CASE ~(i <= length)
        <4>1. PICK j \in 1..(ex + n) : j = i - length
          <5>1. i - length \in 1..(ex + n)
            BY <3>2, <1>8, <1>15
          <5>2. QED BY <5>1
        <4>2. length + j = i
          BY <4>1, <1>8
        <4>3. QED BY <4>1, <4>2, <1>12, <1>21
      <3>3. QED BY <3>1, <3>2
    <2>2. \A i \in 1..length' : Contents[i]' \in Known'
      BY <2>1, <1>2
    <2>3. pc' \in {"copy", "pointer", "recv", "remove"} => size' <= length'
      BY <1>1, <1>3, <1>8, <1>15 DEF MainRight
    <2>4. pc' \in {"pointer", "recv"} =>
            /\ head' + size' <= Size + ExtraSize
            /\ \A i \in 1..size' : data'[head' + i - 1] = Contents[i]'
      BY <1>1, <1>15, <1>21, PacketStays
    <2>5. pc' = "remove" => heard' # <<>> /\ Len(heard'[Len(heard')]) = size'
      BY <1>1, <1>3 DEF MainRight
    <2>6. QED BY <2>2, <2>3, <2>4, <2>5 DEF MainRight
  <1>23. TypeInv'
    BY <1>14, <1>17, <1>18, <1>22 DEF TypeInv
  <1>24. length' = length + io.ex + io.ret
    BY <1>5, <1>6, <1>8, <1>15
  <1>25. QED
    BY <1>1, <1>5, <1>6, <1>7, <1>10, <1>11, <1>14, <1>19, <1>23, <1>24

\* The size that a header has in it.
LEMMA PeekedSize ==
  ASSUME TypeInv, PeekHeader
  PROVE  /\ size' \in 0..(Size + ExtraSize + 1) /\ 1 <= length /\ 1 \in 1..length
         /\ LenEx = 0 => Contents[1][1] \in Packet /\ size' = PacketSize(Contents[1][1])
         /\ LenEx > 0 => (Contents[1][1] = 0 => size' = HeaderSize + Contents[1][2])
  <1>1. /\ CanPeek(HeaderSize) /\ size' \in SizesIn(PeekData(HeaderSize)[1])
    BY DEF PeekHeader
  <1>2. traffic \in Traffic /\ RingInv /\ MainRight
    BY TypeParts
  <1>3. /\ HeaderSize \in Nat \ {0} /\ length \in Nat /\ Size \in Nat /\ ExtraSize \in Nat /\ LenEx \in {0, HeaderSize}
        /\ Contents \in Seq(Element \cup {Blank}) /\ Len(Contents) = length
    BY <1>2, Numbers, Traffics
  <1>4. HeaderSize \in 0..length
    BY <1>1, <1>3 DEF CanPeek
  <1>5. PeekData(HeaderSize) = SubSeq(Contents, 1, HeaderSize)
    BY <1>2, <1>4, PeekIsPrefix
  <1>6. SubSeq(Contents, 1, HeaderSize)[1] = Contents[1]
    <2>1. \A i \in 1..HeaderSize : Contents[i] \in Element \cup {Blank}
      <3>1. \A i \in 1..HeaderSize : i \in 1..Len(Contents)
        BY <1>3, <1>4
      <3>2. QED BY <3>1, <1>3, ElementOfSeq
    <2>2. \A i \in 1..(HeaderSize - 1 + 1) : SubSeq(Contents, 1, HeaderSize)[i] = Contents[1 + i - 1]
      BY <2>1, <1>3, SubSeqProperties
    <2>3. 1 \in 1..(HeaderSize - 1 + 1)
      BY <1>3
    <2>4. SubSeq(Contents, 1, HeaderSize)[1] = Contents[1 + 1 - 1]
      BY <2>2, <2>3
    <2>5. 1 + 1 - 1 = 1
      OBVIOUS
    <2>6. QED BY <2>4, <2>5
  <1>7. size' \in SizesIn(Contents[1])
    BY <1>1, <1>5, <1>6
  <1>8. 1 <= length /\ 1 \in 1..length
    BY <1>3, <1>4
  <1>9. PICK c \in Known : c = Contents[1]
    BY <1>2, <1>8 DEF MainRight
  <1>10. \/ LenEx > 0 /\ \E n \in 1..(Size - LenEx) : c = <<0, n>>
         \/ c[1] \in Packet /\ c[1] # 0
    BY <1>2, KnownIs
  <1>11. CASE LenEx = 0
    <2>1. ~(LenEx > 0)
      BY <1>11
    <2>2. c[1] \in Packet
      BY <2>1, <1>10
    <2>3. size' = PacketSize(c[1])
      BY <1>7, <1>9, <1>11 DEF SizesIn
    <2>4. PICK q \in Packet : q = c[1]
      BY <2>2
    <2>5. /\ PacketSize(q) = HeaderSize - LenEx + traffic.payload[q] /\ traffic.payload[q] \in Nat
          /\ PacketSize(q) <= Size
      BY <1>2, <1>11, Traffics
    <2>6. PacketSize(q) \in 0..(Size + ExtraSize + 1)
      <3>1. PICK y \in Nat : y = traffic.payload[q]
        BY <2>5
      <3>2. PacketSize(q) = HeaderSize - 0 + y
        BY <2>5, <3>1, <1>11
      <3>3. PICK z \in Nat : z = PacketSize(q)
        BY <3>2, <1>3
      <3>4. z <= Size
        BY <3>3, <2>5
      <3>5. QED BY <3>3, <3>4, <1>3
    <2>7. QED BY <2>1, <2>3, <2>4, <2>6, <1>8, <1>9
  <1>12. CASE LenEx # 0
    <2>1. LenEx > 0 /\ LenEx = HeaderSize
      BY <1>3, <1>12
    <2>2. CASE c[1] = 0
      <3>1. size' = HeaderSize + c[2]
        BY <1>7, <1>9, <1>12, <2>2 DEF SizesIn
      <3>2. PICK n \in 1..(Size - LenEx) : c = <<0, n>>
        BY <1>10, <2>2
      <3>3. c[2] = n
        BY <3>2
      <3>4. n \in Nat /\ HeaderSize + n \in 0..(Size + ExtraSize + 1)
        BY <2>1, <1>3
      <3>5. QED BY <3>1, <3>3, <3>4, <1>8, <1>9, <1>12
    <2>3. CASE c[1] # 0
      <3>1. size' \in HeaderSize..(ExtraSize + 1)
        BY <1>7, <1>9, <1>12, <2>3 DEF SizesIn
      <3>2. size' \in 0..(Size + ExtraSize + 1)
        BY <3>1, <1>3
      <3>3. QED BY <3>2, <2>3, <1>8, <1>9, <1>12
    <2>4. QED BY <2>2, <2>3
  <1>13. QED BY <1>11, <1>12

\* Steps of the main thread that leave the ring alone.
LEMMA MainQuietType ==
  ASSUME TypeInv, Bind \/ PeekHeader \/ CheckLength \/ Malformed \/ OnRecv
  PROVE  /\ TypeInv' /\ Contents' = Contents /\ Stored' = Stored
         /\ UNCHANGED <<traffic, taken, early, io, length>>
  <1>1. UNCHANGED <<qvars, traffic, taken, early, io, unreported>>
    BY DEF Bind, PeekHeader, CheckLength, Malformed, OnRecv, ioVars
  <1>2. RingInv' /\ Contents' = Contents /\ UNCHANGED <<head, tail, length, data>> /\ GetWritableLen' = GetWritableLen
    BY <1>1, TypeParts, RingUnchanged DEF qvars, GetWritableLen
  <1>3. LenEx' = LenEx /\ Stream' = Stream /\ Known' = Known /\ Packet' = Packet /\ Stored' = Stored
    BY <1>1 DEF LenEx, Stream, Known, Packet, Stored
  <1>4. removed' \in BOOLEAN /\ bound' \in BOOLEAN
    BY TypeParts DEF Bind, PeekHeader, CheckLength, Malformed, OnRecv, ioVars
  <1>5. /\ size' \in 0..(Size + ExtraSize + 1)
        /\ pc' \in {"peek", "length", "copy", "pointer", "recv", "remove", "given up"}
    <2>1. CASE PeekHeader
      BY <2>1, PeekedSize DEF PeekHeader
    <2>2. CASE Bind \/ CheckLength \/ Malformed \/ OnRecv
      BY <2>2, TypeParts DEF Bind, CheckLength, Malformed, OnRecv
    <2>3. QED BY <2>1, <2>2
  <1>6. IoRight'
    BY <1>1, <1>2, <1>3, TypeParts DEF IoRight
  <1>7. size \in Nat /\ length \in Nat
    BY Numbers
  <1>8. MainRight /\ heard \in Seq(Seq(Element \cup {Blank}))
    BY TypeParts
  <1>9. ASSUME OnRecv
        PROVE  /\ heard' \in Seq(Seq(Element \cup {Blank})) /\ heard' # <<>> /\ size' = size
               /\ Len(heard'[Len(heard')]) = size
    <2> DEFINE block == [i \in 1..size |-> data[head + i - 1]]
    <2>1. heard' = Append(heard, block) /\ pc = "recv" /\ size' = size
      BY <1>9 DEF OnRecv
    <2>2. size <= length /\ \A i \in 1..size : data[head + i - 1] = Contents[i]
      BY <1>8, <2>1 DEF MainRight
    <2>3. \A i \in 1..size : i \in 1..Len(Contents)
      BY <1>7, <2>2, Numbers
    <2>4. \A i \in 1..size : data[head + i - 1] \in Element \cup {Blank}
      BY <2>2, <2>3, Numbers, ElementOfSeq
    <2>5. block \in Seq(Element \cup {Blank})
      BY <2>4, <1>7, IsASeq
    <2>6. Len(block) = size
      BY <1>7, LenProperties
    <2> HIDE DEF block
    <2>7. /\ Append(heard, block) \in Seq(Seq(Element \cup {Blank}))
          /\ Append(heard, block) # <<>>
          /\ Len(Append(heard, block)) = Len(heard) + 1
          /\ Append(heard, block)[Len(heard) + 1] = block
      BY <2>5, <1>8, AppendProperties
    <2>8. QED BY <2>1, <2>6, <2>7
  <1>10. heard' \in Seq(Seq(Element \cup {Blank}))
    <2>1. CASE OnRecv
      BY <2>1, <1>9
    <2>2. CASE Bind \/ PeekHeader \/ CheckLength \/ Malformed
      BY <2>2, <1>8 DEF Bind, PeekHeader, CheckLength, Malformed
    <2>3. QED BY <2>1, <2>2
  <1>11. RecvType'
    BY <1>1, <1>2, <1>3, <1>4, <1>5, <1>10, TypeParts DEF RecvType, RingInv
  <1>12. \A i \in 1..length' : Contents[i]' \in Known'
    BY <1>2, <1>3, <1>8 DEF MainRight
  <1>13. MainRight'
    <2>1. CASE PeekHeader
      <3>1. pc' = "length"
        BY <2>1 DEF PeekHeader
      <3>2. QED BY <3>1, <1>12 DEF MainRight
    <2>2. CASE Bind
      <3>1. UNCHANGED <<pc, size, heard>>
        BY <2>2 DEF Bind
      <3>2. QED BY <3>1, <1>2, <1>8, <1>12 DEF MainRight
    <2>3. CASE CheckLength
      <3>1. pc' \in {"peek", "copy"} /\ (pc' = "copy" => ~(length < size)) /\ size' = size
        BY <2>3 DEF CheckLength
      <3>2. pc' = "copy" => size' <= length'
        BY <3>1, <1>2, <1>7
      <3>3. QED BY <3>1, <3>2, <1>12 DEF MainRight
    <2>4. CASE Malformed
      <3>1. pc' = "given up"
        BY <2>4 DEF Malformed
      <3>2. QED BY <3>1, <1>12 DEF MainRight
    <2>5. CASE OnRecv
      <3>1. pc = "recv" /\ pc' = "remove" /\ size' = size
        BY <2>5 DEF OnRecv
      <3>2. size' <= length'
        BY <3>1, <1>2, <1>8 DEF MainRight
      <3>3. heard' # <<>> /\ Len(heard'[Len(heard')]) = size'
        BY <2>5, <1>9
      <3>4. QED BY <3>1, <3>2, <3>3, <1>12 DEF MainRight
    <2>6. QED BY <2>1, <2>2, <2>3, <2>4, <2>5
  <1>14. QED BY <1>1, <1>2, <1>3, <1>6, <1>11, <1>13 DEF TypeInv

\* A step of the main thread that leaves the io thread no less space, and the
\* cells of the ring alone.
LEMMA IoStays ==
  ASSUME TypeInv, UNCHANGED <<io, taken, early, traffic, tail>>,
         GetWritableLen' \in Int, GetWritableLen' >= GetWritableLen,
         \A c \in 0..(Size - 1) : data'[c] = data[c]
  PROVE  IoRight'
  <1>1. IoRight
    BY TypeParts
  <1>2. /\ GetWritableLen \in Int /\ tail + GetWritableLen <= Size /\ tail \in Nat /\ io.len \in Nat /\ io.ex \in Nat
        /\ io.ret \in Nat /\ Size \in Nat
    BY Numbers
  <1>3. Stored' = Stored /\ Stream' = Stream /\ LenEx' = LenEx
    BY DEF Stored, Stream, LenEx
  <1> HIDE DEF GetWritableLen
  <1>4. io'.at \in {"recv", "store"} => io'.len <= GetWritableLen'
    BY <1>1, <1>2 DEF IoRight
  <1>5. ASSUME io.at = "store"
        PROVE  /\ \A j \in 1..io.ex : data'[tail + j - 1] = <<0, io.ret>>
               /\ \A j \in 1..io.ret : data'[tail + io.ex + j - 1] = Stream[Stored + j]
    <2>1. /\ io.ex + io.ret <= io.len /\ io.len <= GetWritableLen
          /\ \A j \in 1..io.ex : data[tail + j - 1] = <<0, io.ret>>
          /\ \A j \in 1..io.ret : data[tail + io.ex + j - 1] = Stream[Stored + j]
      BY <1>1, <1>5 DEF IoRight
    <2>2. tail + io.ex + io.ret <= Size
      BY <1>2, <2>1
    <2>3. \A j \in 1..io.ex : tail + j - 1 \in 0..(Size - 1)
      BY <1>2, <2>2
    <2>4. \A j \in 1..io.ret : tail + io.ex + j - 1 \in 0..(Size - 1)
      BY <1>2, <2>2
    <2>5. QED BY <2>1, <2>3, <2>4
  <1>6. QED BY <1>1, <1>3, <1>4, <1>5 DEF IoRight

\* A cell that is queued behind the wrap.
LEMMA SplitCell ==
  ASSUME RingInv, NEW i \in 1..length, ~(head + i <= Size)
  PROVE  data[(head + i - 1) - Size] = Contents[i]
  <1>1. head \in 0..(Size - 1) /\ length \in 0..Size /\ Size \in Nat
    BY RingShape
  <1>2. i \in 1..Size /\ ~(head + i - 1 < Size)
    BY <1>1
  <1>3. CellOf(i) = head + i - 1 - Size
    BY <1>2, CellOfValue
  <1>4. Contents[i] = data[CellOf(i)]
    BY ContentsSeq
  <1>5. head + i - 1 - Size = (head + i - 1) - Size
    BY <1>1
  <1>6. QED BY <1>3, <1>4, <1>5

\* The cells behind the end of the ring are written from its start.
LEMMA ExtraCells ==
  ASSUME TypeInv, pc \in {"copy", "pointer"}, NEW n \in Int, n <= ExtraSize,
         data' = CopyWithin(data, Size, 0, n) \/ data' = data,
         pc = "copy" => (data' = CopyWithin(data, Size, 0, n) /\ head + size <= Size + n) \/ head + size <= Size,
         UNCHANGED <<head, tail, length>>
  PROVE  /\ RingInv' /\ Contents' = Contents /\ GetWritableLen' = GetWritableLen
         /\ \A c \in 0..(Size - 1) : data'[c] = data[c]
         /\ head + size <= Size + ExtraSize
         /\ \A i \in 1..size : data'[head + i - 1] = Contents[i]
  <1>1. RingInv /\ MainRight
    BY TypeParts
  <1>2. Size \in Nat \ {0} /\ ExtraSize \in Nat /\ length \in Nat /\ head \in Nat /\ head < Size /\ size \in Nat
    BY Numbers
  <1>3. RingInv' /\ Contents' = Contents
    <2>1. 0 + n <= Size + ExtraSize /\ 0 \in Nat
      BY <1>2
    <2>2. QED BY <2>1, <1>1, ExtraAreaStep
  <1>4. GetWritableLen' = GetWritableLen
    BY DEF GetWritableLen
  <1>5. \A c \in Cell : data'[c] = data[c] \/ (c \in Size..(Size + n - 1) /\ data'[c] = data[c - Size + 0])
    BY DEF CopyWithin
  <1>6. \A c \in 0..(Size - 1) : c \in Cell /\ c \notin Size..(Size + n - 1)
    BY <1>2 DEF Cell
  <1>7. \A c \in 0..(Size - 1) : data'[c] = data[c]
    BY <1>5, <1>6
  <1>8. size <= length /\ (pc = "pointer" => head + size <= Size + ExtraSize)
    BY <1>1 DEF MainRight
  <1>9. head + size <= Size + ExtraSize
    BY <1>2, <1>8
  <1>10. ASSUME NEW i \in 1..size PROVE data'[head + i - 1] = Contents[i]
    <2>1. i \in 1..length
      BY <1>2, <1>8
    <2>2. CASE head + i <= Size
      <3>1. head + i - 1 \in 0..(Size - 1)
        BY <2>2, <1>2
      <3>2. data[head + i - 1] = Contents[i]
        BY <2>1, <2>2, <1>1, ReadableCells
      <3>3. QED BY <3>1, <3>2, <1>7
    <2>3. CASE ~(head + i <= Size)
      <3>1. PICK c \in Cell : c = head + i - 1
        <4>1. head + i - 1 \in Cell
          BY <1>2, <1>9 DEF Cell
        <4>2. QED BY <4>1
      <3>2. data[c - Size] = Contents[i]
        BY <2>1, <2>3, <3>1, <1>1, SplitCell
      <3>3. c - Size + 0 = c - Size
        BY <3>1, <1>2
      <3>4. CASE pc = "pointer"
        <4>1. data[c] = Contents[i]
          BY <3>1, <3>4, <1>1 DEF MainRight
        <4>2. QED BY <4>1, <3>1, <3>2, <3>3, <1>5
      <3>5. CASE pc = "copy"
        <4>1. ~(head + size <= Size)
          BY <2>3, <1>2
        <4>2. data' = CopyWithin(data, Size, 0, n) /\ head + size <= Size + n
          BY <3>5, <4>1
        <4>3. c \in Size..(Size + n - 1)
          BY <2>3, <3>1, <4>2, <1>2
        <4>4. data'[c] = data[c - Size + 0]
          BY <4>2, <4>3 DEF CopyWithin
        <4>5. QED BY <4>4, <3>1, <3>2, <3>3
      <3>6. QED BY <3>4, <3>5
    <2>4. QED BY <2>2, <2>3
  <1>11. QED BY <1>3, <1>4, <1>7, <1>9, <1>10

\* CopyHeadDataToExtraBuffer and GetReadPtr complete the packet behind the end of
\* the ring.
LEMMA ExtraType ==
  ASSUME TypeInv, CopySplit \/ ReadPointer
  PROVE  /\ TypeInv' /\ Contents' = Contents /\ Stored' = Stored
         /\ UNCHANGED <<traffic, taken, early, io, length, size, heard>>
  <1>1. /\ UNCHANGED <<traffic, bound, taken, early, io, unreported, removed, size, heard>>
        /\ UNCHANGED <<head, tail, length>>
    BY DEF CopySplit, ReadPointer, ioVars, qvars, CopyHeadDataToExtraBuffer, GetReadPtr
  <1>2. Size \in Nat \ {0} /\ ExtraSize \in Nat /\ length \in Nat /\ head \in Nat /\ head < Size /\ size \in Nat
    BY Numbers
  <1>3. /\ RingInv' /\ Contents' = Contents /\ GetWritableLen' = GetWritableLen
        /\ \A c \in 0..(Size - 1) : data'[c] = data[c]
        /\ head + size <= Size + ExtraSize
        /\ \A i \in 1..size : data'[head + i - 1] = Contents[i]
    <2>1. CASE CopySplit
      <3> DEFINE m == size - (Size - head)
      <3>1. pc = "copy"
        BY <2>1 DEF CopySplit
      <3>2. CASE Size - head < size
        <4>1. m <= ExtraSize /\ data' = CopyWithin(data, Size, 0, m)
          BY <2>1, <3>2 DEF CopySplit, CopyHeadDataToExtraBuffer, GetBackDataCount
        <4>2. m \in Int /\ head + size <= Size + m
          BY <1>2
        <4> HIDE DEF m
        <4>3. QED BY <3>1, <4>1, <4>2, <1>1, ExtraCells
      <3>3. CASE ~(Size - head < size)
        <4>1. data' = data
          BY <2>1, <3>3 DEF CopySplit, GetBackDataCount, qvars
        <4>2. 0 \in Int /\ 0 <= ExtraSize /\ head + size <= Size
          BY <3>3, <1>2
        <4>3. QED BY <3>1, <4>1, <4>2, <1>1, ExtraCells
      <3>4. QED BY <3>2, <3>3
    <2>2. CASE ReadPointer
      <3> DEFINE m == ExtraSize - (Size - head)
      <3>1. pc = "pointer"
        BY <2>2 DEF ReadPointer
      <3>2. data' = CopyWithin(data, Size, 0, m) \/ data' = data
        BY <2>2 DEF ReadPointer, GetReadPtr
      <3>3. m \in Int /\ m <= ExtraSize
        BY <1>2
      <3> HIDE DEF m
      <3>4. pc # "copy"
        BY <3>1
      <3>5. QED BY <3>1, <3>2, <3>3, <3>4, <1>1, ExtraCells
    <2>3. QED BY <2>1, <2>2
  <1>4. LenEx' = LenEx /\ Stream' = Stream /\ Known' = Known /\ Packet' = Packet /\ Stored' = Stored
    BY <1>1 DEF LenEx, Stream, Known, Packet, Stored
  <1>5. pc' \in {"pointer", "recv"} /\ pc \in {"copy", "pointer"}
    BY DEF CopySplit, ReadPointer
  <1>6. RecvType'
    <2>1. pc' \in {"peek", "length", "copy", "pointer", "recv", "remove", "given up"}
      BY <1>5
    <2>2. QED BY <2>1, <1>1, <1>3, <1>4, TypeParts DEF RecvType, RingInv
  <1>7. IoRight'
    <2>1. GetWritableLen \in 0..Size
      BY Numbers
    <2>2. GetWritableLen' \in Int /\ GetWritableLen' >= GetWritableLen
      BY <2>1, <1>2, <1>3
    <2>3. QED BY <2>2, <1>1, <1>3, IoStays
  <1>8. MainRight'
    <2>1. MainRight
      BY TypeParts
    <2>2. \A i \in 1..length' : Contents[i]' \in Known'
      BY <2>1, <1>1, <1>3, <1>4 DEF MainRight
    <2>3. size' <= length'
      BY <2>1, <1>1, <1>5 DEF MainRight
    <2>4. \A i \in 1..size' : data'[head' + i - 1] = Contents[i]'
      BY <1>1, <1>3
    <2>5. head' + size' <= Size + ExtraSize
      BY <1>1, <1>3
    <2>6. pc' # "remove"
      BY <1>5
    <2>7. QED BY <2>2, <2>3, <2>4, <2>5, <2>6 DEF MainRight
  <1>9. QED BY <1>1, <1>3, <1>4, <1>6, <1>7, <1>8 DEF TypeInv

\* The packet is taken off the ring.
LEMMA RemoveType ==
  ASSUME TypeInv, RemoveFirstPacket
  PROVE  /\ TypeInv' /\ Contents' = SubSeq(Contents, size + 1, length) /\ length' = length - size /\ size <= length
         /\ \A i \in 1..length' : (Contents')[i] = Contents[size + i]
         /\ Stored' = Stored /\ UNCHANGED <<traffic, taken, early, io, size, heard>>
         /\ pc = "remove" /\ pc' = "peek"
  <1>1. /\ UNCHANGED <<traffic, bound, taken, early, io, unreported, removed, size, heard, data, tail>>
        /\ pc = "remove" /\ pc' = "peek" /\ Dequeue(size) /\ length' = length - size
    BY DEF RemoveFirstPacket, ioVars, Dequeue
  <1>2. RingInv /\ MainRight
    BY TypeParts
  <1>3. /\ Size \in Nat \ {0} /\ length \in Nat /\ size \in Nat
        /\ Contents \in Seq(Element \cup {Blank}) /\ Len(Contents) = length
    BY Numbers
  <1>4. RingInv' /\ size <= length /\ Contents' = SubSeq(Contents, size + 1, length)
    BY <1>1, <1>2, <1>3, DequeueStep
  <1>5. GetWritableLen' >= GetWritableLen
    BY <1>1, <1>2, <1>3, WritableGrows
  <1>6. \A i \in 1..length' : (Contents')[i] = Contents[size + i] /\ size + i \in 1..length
    <2>1. \A i \in (size + 1)..length : Contents[i] \in Element \cup {Blank}
      <3>1. \A i \in (size + 1)..length : i \in 1..Len(Contents)
        BY <1>3
      <3>2. QED BY <3>1, <1>3, ElementOfSeq
    <2>2. size + 1 \in Int /\ length \in Int
      BY <1>3
    <2>3. PICK rest : rest = SubSeq(Contents, size + 1, length)
      OBVIOUS
    <2>4. \A i \in 1..(length - (size + 1) + 1) :
            SubSeq(Contents, size + 1, length)[i] = Contents[(size + 1) + i - 1]
      BY <2>1, <2>2, SubSeqProperties
    <2>5. ASSUME NEW i \in 1..length' PROVE rest[i] = Contents[size + i] /\ size + i \in 1..length
      <3>1. i \in 1..(length - (size + 1) + 1) /\ (size + 1) + i - 1 = size + i /\ size + i \in 1..length
        BY <1>1, <1>3, <1>4
      <3>2. rest[i] = Contents[(size + 1) + i - 1]
        BY <3>1, <2>3, <2>4
      <3>3. QED BY <3>1, <3>2
    <2>6. QED BY <2>3, <2>5, <1>4
  <1>7. LenEx' = LenEx /\ Stream' = Stream /\ Known' = Known /\ Packet' = Packet /\ Stored' = Stored
    BY <1>1 DEF LenEx, Stream, Known, Packet, Stored
  <1>8. RecvType'
    BY <1>1, <1>4, <1>7, TypeParts DEF RecvType, RingInv
  <1>9. IoRight'
    <2>1. head' \in Int /\ tail' \in Int /\ Size \in Int
      BY <1>3, <1>4 DEF RingInv, QueueType
    <2>2. GetWritableLen' \in Int
      BY <2>1 DEF GetWritableLen
    <2>3. \A c \in 0..(Size - 1) : data'[c] = data[c]
      BY <1>1
    <2>4. QED BY <2>2, <2>3, <1>1, <1>5, IoStays
  <1>10. MainRight'
    <2>1. ASSUME NEW i \in 1..length' PROVE (Contents')[i] \in Known
      BY <1>2, <1>6 DEF MainRight
    <2>2. \A i \in 1..length' : Contents[i]' \in Known'
      BY <2>1, <1>7
    <2>3. QED BY <2>2, <1>1 DEF MainRight
  <1>11. QED BY <1>1, <1>4, <1>6, <1>7, <1>8, <1>9, <1>10 DEF TypeInv

-----------------------------------------------------------------------------
\* How many packets have been taken off the ring.
Done == IF pc = "remove" THEN Len(heard) - 1 ELSE Len(heard)

Sized == {"length", "copy", "pointer", "recv", "remove"}

\* The ring begins with the packet after them, and holds the stream from there on.
PacketsRight ==
  LenEx = 0 =>
    /\ Done + 1 \in 1..(Len(traffic.payload) + 1)
    /\ Stored - length = traffic.start[Done + 1]
    /\ \A i \in 1..length : Contents[i] = Stream[traffic.start[Done + 1] + i]
    /\ pc \in Sized => Done + 1 \in Packet /\ size = PacketSize(Done + 1)
    /\ \A i \in 1..Len(heard) : i \in Packet /\ heard[i] = Cells(i)

\* Steps that neither store nor take.
LEMMA PacketsSame ==
  ASSUME PacketsRight, Contents' = Contents, Stored' = Stored, Done' = Done,
         UNCHANGED <<traffic, length, heard>>,
         pc' \in Sized => pc \in Sized /\ size' = size
  PROVE  PacketsRight'
  <1>1. LenEx' = LenEx /\ Stream' = Stream /\ Packet' = Packet
    BY DEF LenEx, Stream, Packet
  <1>2. \A p : PacketSize(p)' = PacketSize(p) /\ Cells(p)' = Cells(p)
    BY DEF PacketSize, SizeIn, Cells
  <1>3. \A i \in 1..length : Contents[i]' = Contents[i]
    OBVIOUS
  <1> HIDE DEF Done
  <1>4. QED BY <1>1, <1>2, <1>3 DEF PacketsRight

\* What the io thread queues goes on where the ring ended.
LEMMA PacketsStored ==
  ASSUME TypeInv, PacketsRight, RecvCompletion
  PROVE  PacketsRight'
  <1>1. /\ UNCHANGED <<traffic, pc, size, heard>> /\ Stored' = Stored + io.ret
        /\ IsPiece(Brought(io.ex, io.ret, Stored), io.ex, io.ret, Stored)
        /\ Contents' = Contents \o Brought(io.ex, io.ret, Stored)
        /\ length' = length + io.ex + io.ret
    BY CompletionType
  <1>2. LenEx' = LenEx /\ Stream' = Stream /\ Packet' = Packet /\ Done' = Done
    BY <1>1 DEF LenEx, Stream, Packet, Done
  <1>3. \A p : PacketSize(p)' = PacketSize(p) /\ Cells(p)' = Cells(p)
    BY <1>1 DEF PacketSize, SizeIn, Cells
  <1>4. SUFFICES ASSUME LenEx = 0
                 PROVE  PacketsRight'
    BY <1>2 DEF PacketsRight
  <1>5. PICK n \in Nat : n = io.ret
    BY Numbers
  <1>6. PICK o \in Nat : o = Stored
    BY Numbers
  <1>7. PICK len \in Nat : len = length
    BY Numbers
  <1>8. io.ex = 0
    BY <1>4, Numbers
  <1>9. PICK xs : xs = Brought(io.ex, io.ret, Stored)
    OBVIOUS
  <1>10. xs \in Seq(Element) /\ Len(xs) = 0 + n /\ \A j \in 1..n : xs[0 + j] = Stream[o + j]
    BY <1>1, <1>5, <1>6, <1>8, <1>9 DEF IsPiece
  <1>11. /\ Done + 1 \in 1..(Len(traffic.payload) + 1)
         /\ o - len = traffic.start[Done + 1]
         /\ \A i \in 1..len : Contents[i] = Stream[traffic.start[Done + 1] + i]
    BY <1>4, <1>6, <1>7 DEF PacketsRight
  <1>12. PICK st \in Nat : st = traffic.start[Done + 1]
    BY <1>11, TypeParts, Traffics
  <1>13. length' = len + n /\ Stored' = o + n
    BY <1>1, <1>5, <1>6, <1>7, <1>8
  <1>14. \A i \in 1..(len + n) : (Contents')[i] = Stream[st + i]
    <2>1. xs \in Seq(Element \cup {Blank}) /\ Contents \in Seq(Element \cup {Blank}) /\ Len(Contents) = len
      BY <1>7, <1>10, SeqWider, Numbers
    <2>2. \A i \in 1..(Len(Contents) + Len(xs)) :
            (Contents \o xs)[i] = IF i <= Len(Contents) THEN Contents[i] ELSE xs[i - Len(Contents)]
      BY <2>1, ConcatProperties
    <2>3. \A i \in 1..(len + n) : (Contents \o xs)[i] = IF i <= len THEN Contents[i] ELSE xs[i - len]
      BY <2>1, <2>2, <1>10
    <2>4. PICK both : both = Contents \o xs
      OBVIOUS
    <2>5. ASSUME NEW i \in 1..(len + n) PROVE both[i] = Stream[st + i]
      <3>1. CASE i <= len
        <4>1. i \in 1..len
          BY <3>1
        <4>2. QED BY <3>1, <4>1, <2>3, <2>4, <1>11, <1>12
      <3>2. CASE ~(i <= len)
        <4>1. PICK j \in 1..n : j = i - len
          <5>1. i - len \in 1..n
            BY <3>2
          <5>2. QED BY <5>1
        <4>2. 0 + j = j /\ o + j = st + i
          BY <4>1, <1>11, <1>12
        <4>3. xs[0 + j] = Stream[o + j]
          BY <1>10
        <4>4. both[i] = xs[j]
          BY <3>2, <4>1, <2>3, <2>4
        <4>5. QED BY <4>2, <4>3, <4>4
      <3>3. QED BY <3>1, <3>2
    <2>6. Contents' = both
      BY <1>1, <1>9, <2>4
    <2>7. QED BY <2>5, <2>6
  <1>15. Stored' - length' = traffic.start[Done + 1]
    BY <1>11, <1>13
  <1> HIDE DEF Done
  <1>16. \A i \in 1..length' : Contents[i]' = Stream'[traffic'.start[Done' + 1] + i]
    BY <1>1, <1>2, <1>12, <1>13, <1>14
  <1>17. QED BY <1>1, <1>2, <1>3, <1>4, <1>15, <1>16 DEF PacketsRight

\* The header that is peeked at is that of the next packet.
LEMMA PacketsPeeked ==
  ASSUME TypeInv, PacketsRight, PeekHeader
  PROVE  PacketsRight'
  <1>1. UNCHANGED <<traffic, heard>> /\ pc = "peek" /\ pc' = "length"
    BY DEF PeekHeader, ioVars
  <1>2. Contents' = Contents /\ Stored' = Stored /\ UNCHANGED length
    BY MainQuietType
  <1>3. LenEx' = LenEx /\ Stream' = Stream /\ Packet' = Packet /\ Done' = Done
    BY <1>1 DEF LenEx, Stream, Packet, Done
  <1>4. \A p : PacketSize(p)' = PacketSize(p) /\ Cells(p)' = Cells(p)
    BY <1>1 DEF PacketSize, SizeIn, Cells
  <1>5. SUFFICES ASSUME LenEx = 0
                 PROVE  PacketsRight'
    BY <1>3 DEF PacketsRight
  <1>6. 1 \in 1..length /\ size' = PacketSize(Contents[1][1])
    BY <1>5, PeekedSize
  <1>7. /\ Done + 1 \in 1..(Len(traffic.payload) + 1)
        /\ Stored - length = traffic.start[Done + 1]
        /\ Contents[1] = Stream[traffic.start[Done + 1] + 1]
    BY <1>5, <1>6 DEF PacketsRight
  <1>8. /\ Len(traffic.payload) \in Nat /\ traffic.start[Len(traffic.payload) + 1] = Len(Stream)
        /\ HeaderSize \in Nat \ {0}
    BY TypeParts, Traffics
  <1>9. /\ length \in Nat /\ Stored \in Nat /\ taken \in Nat /\ taken <= Len(Stream) /\ Len(Stream) \in Nat
        /\ (io.at # "store" => Stored = taken) /\ (io.at = "store" => Stored = taken - io.ret) /\ io.ret \in Nat
    BY Numbers
  <1>10. Stored <= Len(Stream)
    BY <1>9
  <1>11. PICK p : p = Done + 1
    OBVIOUS
  <1>12. p \in Packet
    <2>1. p # Len(traffic.payload) + 1
      <3>1. SUFFICES ASSUME p = Len(traffic.payload) + 1 PROVE FALSE
        OBVIOUS
      <3>2. Stored - length = Len(Stream)
        BY <3>1, <1>7, <1>8, <1>11
      <3>3. QED BY <3>2, <1>6, <1>9, <1>10
    <2>2. QED BY <2>1, <1>7, <1>8, <1>11 DEF Packet
  <1>13. Contents[1][1] = p
    <2>1. /\ PacketSize(p) = HeaderSize - LenEx + traffic.payload[p] /\ traffic.payload[p] \in Nat
          /\ \A k \in 1..PacketSize(p) : Stream[traffic.start[p] + k] = <<p, k>>
      BY <1>12, TypeParts, Traffics
    <2>2. 1 \in 1..PacketSize(p)
      <3>1. PICK y \in Nat : y = traffic.payload[p]
        BY <2>1
      <3>2. PacketSize(p) = HeaderSize - 0 + y
        BY <2>1, <3>1, <1>5
      <3>3. QED BY <3>2, <1>8
    <2>3. Contents[1] = <<p, 1>>
      BY <2>1, <2>2, <1>7, <1>11
    <2>4. QED BY <2>3
  <1>14. pc \in Sized \/ size' = PacketSize(Done + 1)
    BY <1>6, <1>11, <1>13
  <1> HIDE DEF Done
  <1>15. size' = PacketSize(Done + 1) /\ Done + 1 \in Packet
    BY <1>6, <1>11, <1>12, <1>13
  <1>16. \A i \in 1..length' : Contents[i]' = Contents[i]
    BY <1>2
  <1>17. QED
    BY <1>1, <1>2, <1>3, <1>4, <1>15, <1>16 DEF PacketsRight

\* OnRecv is given that packet.
LEMMA PacketsHeard ==
  ASSUME TypeInv, PacketsRight, OnRecv
  PROVE  PacketsRight'
  <1> DEFINE block == [i \in 1..size |-> data[head + i - 1]]
  <1>1. UNCHANGED <<traffic, size>> /\ pc = "recv" /\ pc' = "remove" /\ heard' = Append(heard, block)
    BY DEF OnRecv, ioVars
  <1>2. Contents' = Contents /\ Stored' = Stored /\ UNCHANGED length
    BY MainQuietType
  <1>3. heard \in Seq(Seq(Element \cup {Blank})) /\ MainRight
    BY TypeParts
  <1>4. PICK l \in Nat : l = Len(heard)
    BY <1>3, LenProperties
  <1>5. size \in Nat /\ length \in Nat /\ size <= length /\ \A i \in 1..size : data[head + i - 1] = Contents[i]
    BY <1>1, <1>3, Numbers DEF MainRight
  <1>6. LenEx' = LenEx /\ Stream' = Stream /\ Packet' = Packet
    BY <1>1 DEF LenEx, Stream, Packet
  <1>7. \A p : PacketSize(p)' = PacketSize(p) /\ Cells(p)' = Cells(p)
    BY <1>1 DEF PacketSize, SizeIn, Cells
  <1>8. SUFFICES ASSUME LenEx = 0
                 PROVE  PacketsRight'
    BY <1>6 DEF PacketsRight
  <1>9. Done = l
    BY <1>1, <1>4 DEF Done
  <1>10. PICK p \in Packet : p = l + 1
    <2>1. Done + 1 \in Packet
      BY <1>1, <1>8 DEF PacketsRight, Sized
    <2>2. QED BY <2>1, <1>9
  <1>11. /\ size = PacketSize(p)
         /\ \A i \in 1..length : Contents[i] = Stream[traffic.start[p] + i]
         /\ \A i \in 1..l : i \in Packet /\ heard[i] = Cells(i)
    BY <1>1, <1>4, <1>8, <1>9, <1>10 DEF PacketsRight, Sized
  <1>12. block = Cells(p)
    <2>1. ASSUME NEW i \in 1..size PROVE data[head + i - 1] = <<p, i>>
      <3>1. i \in 1..length
        BY <1>5
      <3>2. Contents[i] = Stream[traffic.start[p] + i]
        BY <3>1, <1>11
      <3>3. \A k \in 1..PacketSize(p) : Stream[traffic.start[p] + k] = <<p, k>>
        BY TypeParts, Traffics
      <3>4. QED BY <3>2, <3>3, <1>5, <1>11
    <2>2. QED BY <2>1, <1>11 DEF Cells
  <1>13. block \in Seq(Element \cup {Blank})
    <2>1. \A i \in 1..size : i \in 1..Len(Contents)
      BY <1>5, Numbers
    <2>2. \A i \in 1..size : data[head + i - 1] \in Element \cup {Blank}
      BY <2>1, <1>5, Numbers, ElementOfSeq
    <2>3. QED BY <2>2, <1>5, IsASeq
  <1> HIDE DEF block
  <1>14. /\ Len(heard') = l + 1 /\ heard'[l + 1] = block
         /\ \A i \in 1..l : heard'[i] = heard[i]
    BY <1>1, <1>3, <1>4, <1>13, AppendProperties
  <1>15. Done' = l
    <2>1. Done' = Len(heard') - 1
      BY <1>1 DEF Done
    <2>2. QED BY <2>1, <1>14
  <1>16. ASSUME NEW i \in 1..(l + 1) PROVE i \in Packet /\ heard'[i] = Cells(i)
    <2>1. CASE i = l + 1
      BY <2>1, <1>10, <1>12, <1>14
    <2>2. CASE i # l + 1
      <3>1. i \in 1..l
        BY <2>2
      <3>2. QED BY <3>1, <1>11, <1>14
    <2>3. QED BY <2>1, <2>2
  <1>17. /\ p \in 1..(Len(traffic.payload) + 1) /\ Stored - length = traffic.start[p]
    BY <1>8, <1>9, <1>10 DEF PacketsRight
  <1> HIDE DEF Done
  <1>18. \A i \in 1..length' : Contents[i]' = Stream[traffic.start[p] + i]
    BY <1>2, <1>11
  <1>19. Done' + 1 = p
    BY <1>10, <1>15
  <1>20. QED
    BY <1>1, <1>2, <1>6, <1>7, <1>10, <1>11, <1>14, <1>16, <1>17, <1>18, <1>19 DEF PacketsRight

\* The next one is what is left.
LEMMA PacketsRemoved ==
  ASSUME TypeInv, PacketsRight, RemoveFirstPacket
  PROVE  PacketsRight'
  <1>1. /\ length' = length - size /\ size <= length
        /\ \A i \in 1..length' : (Contents')[i] = Contents[size + i]
        /\ Stored' = Stored /\ UNCHANGED <<traffic, size, heard>>
        /\ pc = "remove" /\ pc' = "peek"
    BY RemoveType
  <1>2. LenEx' = LenEx /\ Stream' = Stream /\ Packet' = Packet
    BY <1>1 DEF LenEx, Stream, Packet
  <1>3. \A p : PacketSize(p)' = PacketSize(p) /\ Cells(p)' = Cells(p)
    BY <1>1 DEF PacketSize, SizeIn, Cells
  <1>4. SUFFICES ASSUME LenEx = 0
                 PROVE  PacketsRight'
    BY <1>2 DEF PacketsRight
  <1>5. PICK l \in Nat : l = Len(heard)
    BY TypeParts, LenProperties
  <1>6. Done = l - 1 /\ Done' = l
    BY <1>1, <1>5 DEF Done
  <1>7. PICK p \in Packet : p = l
    <2>1. Done + 1 \in Packet
      BY <1>1, <1>4 DEF PacketsRight, Sized
    <2>2. l - 1 + 1 = l
      OBVIOUS
    <2>3. QED BY <2>1, <2>2, <1>6
  <1>8. Done + 1 = p
    BY <1>6, <1>7
  <1>9. /\ Stored - length = traffic.start[p]
        /\ \A i \in 1..length : Contents[i] = Stream[traffic.start[p] + i]
        /\ size = PacketSize(p)
        /\ \A i \in 1..Len(heard) : i \in Packet /\ heard[i] = Cells(i)
    BY <1>1, <1>4, <1>8 DEF PacketsRight, Sized
  <1>10. /\ traffic.start[p + 1] = traffic.start[p] + PacketSize(p)
         /\ Len(traffic.payload) \in Nat
    BY TypeParts, Traffics
  <1>11. PICK st \in Nat : st = traffic.start[p]
    <2>1. p \in 1..(Len(traffic.payload) + 1)
      BY <1>10 DEF Packet
    <2>2. QED BY <2>1, TypeParts, Traffics
  <1>12. PICK sz \in Nat : sz = size
    BY Numbers
  <1>13. PICK len \in Nat : len = length
    BY Numbers
  <1>14. PICK o \in Nat : o = Stored
    BY Numbers
  <1>15. traffic.start[p + 1] = st + sz
    BY <1>9, <1>10, <1>11, <1>12
  <1>16. length' = len - sz /\ sz <= len
    BY <1>1, <1>12, <1>13
  <1>17. Stored' - length' = st + sz
    <2>1. o - len = st
      BY <1>9, <1>11, <1>13, <1>14
    <2>2. o - (len - sz) = st + sz
      BY <2>1
    <2>3. QED BY <2>2, <1>1, <1>14, <1>16
  <1>18. ASSUME NEW i \in 1..length' PROVE (Contents')[i] = Stream[(st + sz) + i]
    <2>1. sz + i \in 1..len /\ st + (sz + i) = (st + sz) + i
      BY <1>16
    <2>2. Contents[sz + i] = Stream[st + (sz + i)]
      BY <2>1, <1>9, <1>11, <1>13
    <2>3. (Contents')[i] = Contents[sz + i]
      BY <1>1, <1>12
    <2>4. QED BY <2>1, <2>2, <2>3
  <1>19. Done' + 1 = p + 1 /\ p + 1 \in 1..(Len(traffic.payload) + 1)
    <2>1. p \in 1..Len(traffic.payload)
      BY DEF Packet
    <2>2. QED BY <2>1, <1>6, <1>7, <1>10
  <1> HIDE DEF Done
  <1>20. \A i \in 1..length' : Contents[i]' = Stream'[traffic'.start[Done' + 1] + i]
    BY <1>1, <1>2, <1>15, <1>18, <1>19
  <1>21. Stored' - length' = traffic'.start[Done' + 1]
    BY <1>1, <1>15, <1>17, <1>19
  <1>22. pc' \notin Sized
    BY <1>1 DEF Sized
  <1>23. QED
    BY <1>1, <1>2, <1>3, <1>9, <1>19, <1>20, <1>21, <1>22 DEF PacketsRight

-----------------------------------------------------------------------------
\* The first len of the cells c are K pieces of the text s, from `from' on to
\* `to': piece k is behind ex cells that say its length ns[k], it ends at cell
\* pos[k] and at place off[k] of the text.
Pieces(s, ex, c, len, from, to, K, pos, ns, off) ==
  /\ K \in Nat /\ pos[0] = 0 /\ pos[K] = len /\ off[0] = from /\ off[K] = to
  /\ \A k \in 0..K : pos[k] \in Nat /\ off[k] \in Nat /\ off[k] <= to
  /\ \A j, k \in 0..K : j <= k => pos[j] <= pos[k]
  /\ \A k \in 1..K :
       /\ ns[k] \in Nat \ {0}
       /\ pos[k] = pos[k - 1] + (ex + ns[k]) /\ off[k] = off[k - 1] + ns[k]
       /\ \A j \in 1..ex : c[pos[k - 1] + j] = <<0, ns[k]>>
       /\ \A j \in 1..ns[k] : c[pos[k - 1] + (ex + j)] = s[off[k - 1] + j]
  /\ \A i \in 1..len : \E k \in 1..K : pos[k - 1] < i /\ i <= pos[k]

InPieces(s, ex, c, len, from, to) ==
  \E K, pos, ns, off : Pieces(s, ex, c, len, from, to, K, pos, ns, off)

\* None of them.
LEMMA NoPieces ==
  ASSUME NEW s, NEW ex, NEW c, NEW from \in Nat
  PROVE  InPieces(s, ex, c, 0, from, from)
  <1> DEFINE pos == [k \in {0} |-> 0]
             off == [k \in {0} |-> from]
  <1>1. 0 \in Nat /\ pos[0] = 0 /\ off[0] = from
    OBVIOUS
  <1>2. \A k \in 0..0 : k = 0
    OBVIOUS
  <1>3. 1..0 = {}
    OBVIOUS
  <1> HIDE DEF pos, off
  <1>4. Pieces(s, ex, c, 0, from, from, 0, pos, <<>>, off)
    BY <1>1, <1>2, <1>3 DEF Pieces
  <1>5. QED BY <1>4 DEF InPieces

\* One more of them.
LEMMA OneMorePiece ==
  ASSUME NEW s, NEW ex \in Nat, NEW c, NEW len \in Nat, NEW from \in Nat, NEW to \in Nat,
         InPieces(s, ex, c, len, from, to), NEW d, NEW n \in Nat \ {0},
         \A i \in 1..len : d[i] = c[i],
         \A j \in 1..ex : d[len + j] = <<0, n>>,
         \A j \in 1..n : d[len + (ex + j)] = s[to + j]
  PROVE  InPieces(s, ex, d, len + (ex + n), from, to + n)
  <1>1. PICK K, pos, ns, off : Pieces(s, ex, c, len, from, to, K, pos, ns, off)
    BY DEF InPieces
  <1>2. /\ K \in Nat /\ pos[0] = 0 /\ pos[K] = len /\ off[0] = from /\ off[K] = to
        /\ \A k \in 0..K : pos[k] \in Nat /\ off[k] \in Nat /\ off[k] <= to
        /\ \A j, k \in 0..K : j <= k => pos[j] <= pos[k]
    BY <1>1 DEF Pieces
  <1>2a. K \in Nat /\ (K + 1) - 1 = K /\ K \in 0..K
    <2>1. K \in Nat
      BY <1>2
    <2>2. QED BY <2>1
  <1>3. \A k \in 1..K :
          /\ ns[k] \in Nat \ {0}
          /\ pos[k] = pos[k - 1] + (ex + ns[k]) /\ off[k] = off[k - 1] + ns[k]
          /\ \A j \in 1..ex : c[pos[k - 1] + j] = <<0, ns[k]>>
          /\ \A j \in 1..ns[k] : c[pos[k - 1] + (ex + j)] = s[off[k - 1] + j]
    BY <1>1 DEF Pieces
  <1>4. \A i \in 1..len : \E k \in 1..K : pos[k - 1] < i /\ i <= pos[k]
    BY <1>1 DEF Pieces
  <1> DEFINE pos1 == [k \in 0..(K + 1) |-> IF k = K + 1 THEN len + (ex + n) ELSE pos[k]]
             off1 == [k \in 0..(K + 1) |-> IF k = K + 1 THEN to + n ELSE off[k]]
             ns1 == [k \in 1..(K + 1) |-> IF k = K + 1 THEN n ELSE ns[k]]
  <1>5. /\ pos1[K + 1] = len + (ex + n) /\ off1[K + 1] = to + n /\ ns1[K + 1] = n
        /\ \A k \in 0..K : pos1[k] = pos[k] /\ off1[k] = off[k]
        /\ \A k \in 1..K : ns1[k] = ns[k]
    BY <1>2, SMTT(40)
  <1> HIDE DEF pos1, off1, ns1
  <1>6. pos1[0] = 0 /\ off1[0] = from /\ K + 1 \in Nat
    BY <1>2, <1>5
  <1>7. ASSUME NEW k \in 0..(K + 1)
        PROVE  pos1[k] \in Nat /\ off1[k] \in Nat /\ off1[k] <= to + n /\ pos1[k] <= len + (ex + n)
    <2>1. CASE k = K + 1
      BY <2>1, <1>5
    <2>2. CASE k # K + 1
      <3>1. k \in 0..K /\ K \in 0..K /\ k <= K
        BY <2>2, <1>2
      <3>2. pos1[k] \in Nat /\ off1[k] \in Nat /\ off1[k] <= to /\ pos1[k] <= len
        BY <3>1, <1>2, <1>5
      <3>3. QED BY <3>2
    <2>3. QED BY <2>1, <2>2
  <1>8. ASSUME NEW j \in 0..(K + 1), NEW k \in 0..(K + 1), j <= k
        PROVE  pos1[j] <= pos1[k]
    <2>1. CASE k = K + 1
      BY <2>1, <1>5, <1>7
    <2>2. CASE k # K + 1
      <3>1. j \in 0..K /\ k \in 0..K
        BY <2>2, <1>2a, <1>8
      <3>2. QED BY <3>1, <1>2, <1>5, <1>8
    <2>3. QED BY <2>1, <2>2
  <1>9. ASSUME NEW k \in 1..(K + 1)
        PROVE  /\ ns1[k] \in Nat \ {0}
               /\ pos1[k] = pos1[k - 1] + (ex + ns1[k]) /\ off1[k] = off1[k - 1] + ns1[k]
               /\ \A j \in 1..ex : d[pos1[k - 1] + j] = <<0, ns1[k]>>
               /\ \A j \in 1..ns1[k] : d[pos1[k - 1] + (ex + j)] = s[off1[k - 1] + j]
    <2>1. CASE k = K + 1
      <3>1. k - 1 = K /\ K \in 0..K
        BY <2>1, <1>2a
      <3>2. pos1[k - 1] = len /\ off1[k - 1] = to /\ ns1[k] = n /\ pos1[k] = len + (ex + n) /\ off1[k] = to + n
        BY <2>1, <3>1, <1>2, <1>5
      <3>3. QED BY <3>2
    <2>2. CASE k # K + 1
      <3>1. k \in 1..K /\ k - 1 \in 0..K /\ k \in 0..K /\ K \in 0..K
        BY <2>2, <1>2a
      <3>2. /\ ns1[k] = ns[k] /\ pos1[k] = pos[k] /\ off1[k] = off[k]
            /\ pos1[k - 1] = pos[k - 1] /\ off1[k - 1] = off[k - 1]
        BY <3>1, <1>5
      <3>3. PICK b \in Nat : b = pos[k - 1]
        BY <3>1, <1>2
      <3>4. PICK m \in Nat \ {0} : m = ns[k]
        BY <3>1, <1>3
      <3>5. b + (ex + m) <= len
        <4>1. pos[k] <= len
          BY <3>1, <1>2
        <4>2. pos[k] = b + (ex + m)
          BY <3>1, <3>3, <3>4, <1>3
        <4>3. QED BY <4>1, <4>2
      <3>6. ASSUME NEW j \in 1..ex PROVE d[b + j] = <<0, m>>
        <4>1. b + j \in 1..len
          BY <3>5
        <4>2. c[b + j] = <<0, m>>
          BY <3>1, <3>3, <3>4, <1>3
        <4>3. QED BY <4>1, <4>2
      <3>7. ASSUME NEW j \in 1..m PROVE d[b + (ex + j)] = s[off[k - 1] + j]
        <4>1. b + (ex + j) \in 1..len
          BY <3>5
        <4>2. c[b + (ex + j)] = s[off[k - 1] + j]
          BY <3>1, <3>3, <3>4, <1>3
        <4>3. QED BY <4>1, <4>2
      <3>8. ns[k] \in Nat \ {0} /\ pos[k] = pos[k - 1] + (ex + ns[k]) /\ off[k] = off[k - 1] + ns[k]
        BY <3>1, <1>3
      <3>9. QED BY <3>2, <3>3, <3>4, <3>6, <3>7, <3>8
    <2>3. QED BY <2>1, <2>2
  <1>10. ASSUME NEW i \in 1..(len + (ex + n))
         PROVE  \E k \in 1..(K + 1) : pos1[k - 1] < i /\ i <= pos1[k]
    <2>1. CASE i <= len
      <3>1. i \in 1..len
        BY <2>1
      <3>2. PICK k \in 1..K : pos[k - 1] < i /\ i <= pos[k]
        BY <3>1, <1>4
      <3>3. k \in 1..(K + 1) /\ k - 1 \in 0..K /\ k \in 0..K
        BY <1>2
      <3>4. pos1[k - 1] < i /\ i <= pos1[k]
        BY <3>2, <3>3, <1>5
      <3>5. QED BY <3>3, <3>4
    <2>2. CASE ~(i <= len)
      <3>1. (K + 1) - 1 = K /\ K \in 0..K /\ K + 1 \in 1..(K + 1)
        BY <1>2
      <3>2. pos1[(K + 1) - 1] = len
        BY <3>1, <1>2, <1>5
      <3>3. pos1[(K + 1) - 1] < i /\ i <= pos1[K + 1]
        BY <3>2, <2>2, <1>5
      <3>4. QED BY <3>1, <3>3
    <2>3. QED BY <2>1, <2>2
  <1>11. Pieces(s, ex, d, len + (ex + n), from, to + n, K + 1, pos1, ns1, off1)
    BY <1>5, <1>6, <1>7, <1>8, <1>9, <1>10 DEF Pieces
  <1>12. QED BY <1>11 DEF InPieces

\* The first of them, of n, and what is left without it.
StartsWith(s, ex, c, len, from, to, n) ==
  /\ ex + n <= len /\ from + n <= to
  /\ \A j \in 1..ex : c[j] = <<0, n>>
  /\ \A j \in 1..n : c[ex + j] = s[from + j]
  /\ \A d : (\A i \in 1..(len - (ex + n)) : d[i] = c[(ex + n) + i])
              => InPieces(s, ex, d, len - (ex + n), from + n, to)

LEMMA FirstPiece ==
  ASSUME NEW s, NEW ex \in Nat, NEW c, NEW len \in Nat \ {0}, NEW from \in Nat, NEW to \in Nat,
         InPieces(s, ex, c, len, from, to)
  PROVE  \E n \in Nat \ {0} : StartsWith(s, ex, c, len, from, to, n)
  <1>1. PICK K, pos, ns, off : Pieces(s, ex, c, len, from, to, K, pos, ns, off)
    BY DEF InPieces
  <1>2. /\ K \in Nat /\ pos[0] = 0 /\ pos[K] = len /\ off[0] = from /\ off[K] = to
        /\ \A k \in 0..K : pos[k] \in Nat /\ off[k] \in Nat /\ off[k] <= to
        /\ \A j, k \in 0..K : j <= k => pos[j] <= pos[k]
    BY <1>1 DEF Pieces
  <1>3. \A k \in 1..K :
          /\ ns[k] \in Nat \ {0}
          /\ pos[k] = pos[k - 1] + (ex + ns[k]) /\ off[k] = off[k - 1] + ns[k]
          /\ \A j \in 1..ex : c[pos[k - 1] + j] = <<0, ns[k]>>
          /\ \A j \in 1..ns[k] : c[pos[k - 1] + (ex + j)] = s[off[k - 1] + j]
    BY <1>1 DEF Pieces
  <1>4. \A i \in 1..len : \E k \in 1..K : pos[k - 1] < i /\ i <= pos[k]
    BY <1>1 DEF Pieces
  <1>5. PICK L \in Nat : K = L + 1
    <2>1. K # 0
      BY <1>2
    <2>2. K - 1 \in Nat /\ K = (K - 1) + 1
      BY <2>1, <1>2
    <2>3. QED BY <2>2
  <1>6. PICK n \in Nat \ {0} : n = ns[1]
    <2>1. 1 \in 1..K
      BY <1>5
    <2>2. QED BY <2>1, <1>3
  <1>7. /\ pos[1] = ex + n /\ off[1] = from + n
        /\ \A j \in 1..ex : c[j] = <<0, n>>
        /\ \A j \in 1..n : c[ex + j] = s[from + j]
    <2>1. 1 \in 1..K /\ 1 - 1 = 0
      BY <1>5
    <2>2. /\ pos[1] = pos[0] + (ex + n) /\ off[1] = off[0] + n
          /\ \A j \in 1..ex : c[pos[0] + j] = <<0, n>>
          /\ \A j \in 1..n : c[pos[0] + (ex + j)] = s[off[0] + j]
      BY <2>1, <1>3, <1>6, ZenonT(60)
    <2>3. (\A j \in 1..ex : 0 + j = j) /\ (\A j \in 1..n : 0 + (ex + j) = ex + j)
      OBVIOUS
    <2>4. QED BY <2>2, <2>3, <1>2
  <1>8. ex + n <= len /\ from + n <= to
    <2>1. 1 \in 0..K /\ K \in 0..K /\ 1 <= K
      BY <1>5
    <2>2. QED BY <2>1, <1>2, <1>7
  <1>9. ASSUME NEW d, \A i \in 1..(len - (ex + n)) : d[i] = c[(ex + n) + i]
        PROVE  InPieces(s, ex, d, len - (ex + n), from + n, to)
    <2> DEFINE pos1 == [k \in 0..L |-> pos[k + 1] - (ex + n)]
               off1 == [k \in 0..L |-> off[k + 1]]
               ns1 == [k \in 1..L |-> ns[k + 1]]
    <2>1. /\ \A k \in 0..L : pos1[k] = pos[k + 1] - (ex + n) /\ off1[k] = off[k + 1]
          /\ \A k \in 1..L : ns1[k] = ns[k + 1]
      OBVIOUS
    <2> HIDE DEF pos1, off1, ns1
    <2>2. pos1[0] = 0 /\ pos1[L] = len - (ex + n) /\ off1[0] = from + n /\ off1[L] = to
      <3>1. 0 \in 0..L /\ L \in 0..L /\ 0 + 1 = 1 /\ (ex + n) - (ex + n) = 0
        OBVIOUS
      <3>2. pos1[0] = pos[0 + 1] - (ex + n) /\ off1[0] = off[0 + 1]
        BY <3>1, <2>1
      <3>3. pos1[L] = pos[L + 1] - (ex + n) /\ off1[L] = off[L + 1]
        BY <3>1, <2>1
      <3>4. QED BY <3>1, <3>2, <3>3, <1>2, <1>5, <1>7
    <2>3. ASSUME NEW k \in 0..L
          PROVE  /\ pos1[k] \in Nat /\ off1[k] \in Nat /\ off1[k] <= to
                 /\ pos[k + 1] = pos1[k] + (ex + n) /\ k + 1 \in 0..K
      <3>1. k + 1 \in 0..K /\ 1 \in 0..K /\ 1 <= k + 1
        BY <1>5
      <3>2. pos[k + 1] \in Nat /\ pos[1] <= pos[k + 1] /\ off[k + 1] \in Nat /\ off[k + 1] <= to
        BY <3>1, <1>2
      <3>3. PICK x \in Nat : x = pos[k + 1]
        BY <3>2
      <3>4. ex + n <= x /\ pos1[k] = x - (ex + n)
        BY <3>2, <3>3, <1>7, <2>1
      <3>5. pos1[k] \in Nat /\ x = pos1[k] + (ex + n)
        BY <3>4
      <3>6. QED BY <3>1, <3>2, <3>3, <3>5, <2>1
    <2>4. ASSUME NEW j \in 0..L, NEW k \in 0..L, j <= k
          PROVE  pos1[j] <= pos1[k]
      <3>1. j + 1 \in 0..K /\ k + 1 \in 0..K /\ j + 1 <= k + 1
        BY <2>4, <1>5
      <3>2. pos[j + 1] <= pos[k + 1]
        BY <3>1, <1>2
      <3>3. QED BY <3>2, <2>3
    <2>5. ASSUME NEW k \in 1..L
          PROVE  /\ ns1[k] \in Nat \ {0}
                 /\ pos1[k] = pos1[k - 1] + (ex + ns1[k]) /\ off1[k] = off1[k - 1] + ns1[k]
                 /\ \A j \in 1..ex : d[pos1[k - 1] + j] = <<0, ns1[k]>>
                 /\ \A j \in 1..ns1[k] : d[pos1[k - 1] + (ex + j)] = s[off1[k - 1] + j]
      <3>1. k + 1 \in 1..K /\ k \in 0..L /\ k - 1 \in 0..L /\ (k - 1) + 1 = k /\ (k + 1) - 1 = k
        BY <1>5
      <3>2. PICK m \in Nat \ {0} : m = ns[k + 1]
        BY <3>1, <1>3
      <3>3. PICK b \in Nat : b = pos1[k - 1]
        BY <3>1, <2>3
      <3>4. /\ pos[k + 1] = pos[k] + (ex + m) /\ off[k + 1] = off[k] + m
            /\ \A j \in 1..ex : c[pos[k] + j] = <<0, m>>
            /\ \A j \in 1..m : c[pos[k] + (ex + j)] = s[off[k] + j]
        <4>1. PICK g \in 1..K : g = k + 1 /\ g - 1 = k
          BY <3>1
        <4>2. /\ pos[g] = pos[g - 1] + (ex + ns[g]) /\ off[g] = off[g - 1] + ns[g]
              /\ \A j \in 1..ex : c[pos[g - 1] + j] = <<0, ns[g]>>
              /\ \A j \in 1..ns[g] : c[pos[g - 1] + (ex + j)] = s[off[g - 1] + j]
          BY <1>3
        <4>3. m = ns[g]
          BY <3>2, <4>1
        <4>4. /\ pos[g] = pos[k] + (ex + m) /\ off[g] = off[k] + m
              /\ \A j \in 1..ex : c[pos[k] + j] = <<0, m>>
              /\ \A j \in 1..m : c[pos[k] + (ex + j)] = s[off[k] + j]
          BY <4>1, <4>2, <4>3
        <4>5. QED BY <4>1, <4>4
      <3>5. pos[k] = b + (ex + n) /\ off1[k - 1] = off[k] /\ off1[k] = off[k + 1] /\ ns1[k] = m
        BY <3>1, <3>2, <3>3, <2>1, <2>3
      <3>6. pos1[k] = b + (ex + m)
        <4>1. pos[k + 1] = pos1[k] + (ex + n) /\ pos1[k] \in Nat
          BY <3>1, <2>3
        <4>2. PICK x \in Nat : x = pos1[k]
          BY <4>1
        <4>3. x + (ex + n) = (b + (ex + n)) + (ex + m)
          BY <4>1, <4>2, <3>4, <3>5
        <4>4. x = b + (ex + m)
          BY <4>3
        <4>5. QED BY <4>2, <4>4
      <3>7. b + (ex + m) <= len - (ex + n)
        <4>1. L \in 0..L /\ k <= L
          OBVIOUS
        <4>2. QED BY <4>1, <3>1, <3>6, <2>2, <2>4
      <3>8. ASSUME NEW j \in 1..ex PROVE d[b + j] = <<0, m>>
        <4>1. b + j \in 1..(len - (ex + n)) /\ (ex + n) + (b + j) = (b + (ex + n)) + j
          BY <3>7
        <4>2. d[b + j] = c[(ex + n) + (b + j)]
          BY <4>1, <1>9
        <4>3. c[(b + (ex + n)) + j] = <<0, m>>
          BY <3>4, <3>5
        <4>4. QED BY <4>1, <4>2, <4>3
      <3>9. ASSUME NEW j \in 1..m PROVE d[b + (ex + j)] = s[off[k] + j]
        <4>1. b + (ex + j) \in 1..(len - (ex + n)) /\ (ex + n) + (b + (ex + j)) = (b + (ex + n)) + (ex + j)
          BY <3>7
        <4>2. d[b + (ex + j)] = c[(ex + n) + (b + (ex + j))]
          BY <4>1, <1>9
        <4>3. c[(b + (ex + n)) + (ex + j)] = s[off[k] + j]
          BY <3>4, <3>5
        <4>4. QED BY <4>1, <4>2, <4>3
      <3>10. QED BY <3>2, <3>3, <3>4, <3>5, <3>6, <3>8, <3>9
    <2>6. ASSUME NEW i \in 1..(len - (ex + n))
          PROVE  \E k \in 1..L : pos1[k - 1] < i /\ i <= pos1[k]
      <3>1. PICK h \in 1..len : h = i + (ex + n)
        <4>1. i + (ex + n) \in 1..len
          OBVIOUS
        <4>2. QED BY <4>1
      <3>2. PICK k \in 1..K : pos[k - 1] < h /\ h <= pos[k]
        BY <1>4
      <3>3. k # 1
        BY <3>1, <3>2, <1>7
      <3>4. PICK g \in 1..L : k = g + 1
        <4>1. k - 1 \in 1..L /\ k = (k - 1) + 1
          BY <3>3, <1>5
        <4>2. QED BY <4>1
      <3>5. g \in 0..L /\ g - 1 \in 0..L /\ (g - 1) + 1 = g /\ k - 1 = g
        BY <3>4
      <3>6. /\ pos[g + 1] = pos1[g] + (ex + n) /\ pos1[g] \in Nat
            /\ pos[g] = pos1[g - 1] + (ex + n) /\ pos1[g - 1] \in Nat
        BY <3>5, <2>3
      <3>7. PICK x \in Nat : x = pos1[g - 1]
        BY <3>6
      <3>8. PICK y \in Nat : y = pos1[g]
        BY <3>6
      <3>9. x + (ex + n) < i + (ex + n) /\ i + (ex + n) <= y + (ex + n)
        BY <3>1, <3>2, <3>4, <3>5, <3>6, <3>7, <3>8
      <3>10. x < i /\ i <= y
        BY <3>9
      <3>11. QED BY <3>7, <3>8, <3>10
    <2>7. Pieces(s, ex, d, len - (ex + n), from + n, to, L, pos1, ns1, off1)
      BY <2>2, <2>3, <2>4, <2>5, <2>6 DEF Pieces
    <2>8. QED BY <2>7 DEF InPieces
  <1>10. StartsWith(s, ex, c, len, from, to, n)
    BY <1>7, <1>8, <1>9 DEF StartsWith
  <1>11. QED BY <1>10

\* Their ends.
LEMMA PieceEnds ==
  ASSUME NEW s, NEW ex \in Nat, NEW c, NEW len, NEW from, NEW to,
         InPieces(s, ex, c, len, from, to)
  PROVE  from \in Nat /\ to \in Nat /\ from <= to /\ (len = 0 => from = to)
  <1>1. PICK K, pos, ns, off : Pieces(s, ex, c, len, from, to, K, pos, ns, off)
    BY DEF InPieces
  <1>2. /\ K \in Nat /\ pos[0] = 0 /\ pos[K] = len /\ off[0] = from /\ off[K] = to
        /\ \A k \in 0..K : pos[k] \in Nat /\ off[k] \in Nat /\ off[k] <= to
        /\ \A j, k \in 0..K : j <= k => pos[j] <= pos[k]
    BY <1>1 DEF Pieces
  <1>3. 0 \in 0..K /\ K \in 0..K
    BY <1>2
  <1>4. from \in Nat /\ to \in Nat /\ from <= to
    BY <1>2, <1>3
  <1>5. ASSUME len = 0, K # 0 PROVE FALSE
    <2>1. 1 \in 1..K /\ 1 \in 0..K /\ 1 - 1 = 0 /\ 1 <= K
      BY <1>2, <1>5
    <2>2. ns[1] \in Nat \ {0} /\ pos[1] = pos[1 - 1] + (ex + ns[1])
      BY <2>1, <1>1 DEF Pieces
    <2>3. pos[1] <= pos[K]
      BY <2>1, <1>2, <1>3
    <2>4. pos[1] = 0 + (ex + ns[1])
      BY <2>1, <2>2, <1>2
    <2>5. QED BY <2>2, <2>3, <2>4, <1>2, <1>5
  <1>6. QED BY <1>2, <1>4, <1>5

\* Cell i is the one of place o, and after it comes the next one of the text, or
\* that behind a header, or nothing.
Follows(s, ex, c, len, to, i, o) ==
  /\ o <= to /\ c[i] = s[o]
  /\ \/ i = len /\ o = to
     \/ i + 1 <= len /\ c[i + 1] = s[o + 1]
     \/ /\ i + ex + 1 <= len /\ c[i + ex + 1] = s[o + 1]
        /\ \E n : \A j \in 1..ex : c[i + j] = <<0, n>>

LEMMA PieceAt ==
  ASSUME NEW s, NEW ex \in Nat \ {0}, NEW c, NEW len \in Nat, NEW from, NEW to,
         InPieces(s, ex, c, len, from, to), NEW i \in 1..len
  PROVE  (\E n : c[i] = <<0, n>>) \/ \E o \in Nat \ {0} : Follows(s, ex, c, len, to, i, o)
  <1>1. PICK K, pos, ns, off : Pieces(s, ex, c, len, from, to, K, pos, ns, off)
    BY DEF InPieces
  <1>2. /\ K \in Nat /\ pos[0] = 0 /\ pos[K] = len /\ off[0] = from /\ off[K] = to
        /\ \A k \in 0..K : pos[k] \in Nat /\ off[k] \in Nat /\ off[k] <= to
        /\ \A j, k \in 0..K : j <= k => pos[j] <= pos[k]
    BY <1>1 DEF Pieces
  <1>3. \A k \in 1..K :
          /\ ns[k] \in Nat \ {0}
          /\ pos[k] = pos[k - 1] + (ex + ns[k]) /\ off[k] = off[k - 1] + ns[k]
          /\ \A j \in 1..ex : c[pos[k - 1] + j] = <<0, ns[k]>>
          /\ \A j \in 1..ns[k] : c[pos[k - 1] + (ex + j)] = s[off[k - 1] + j]
    BY <1>1 DEF Pieces
  <1>4. PICK k \in 1..K : pos[k - 1] < i /\ i <= pos[k]
    BY <1>1 DEF Pieces
  <1>5. k - 1 \in 0..K /\ k \in 0..K /\ K \in 0..K /\ k <= K
    BY <1>2
  <1>6. PICK b \in Nat : b = pos[k - 1]
    BY <1>2, <1>5
  <1>7. PICK f \in Nat : f = off[k - 1]
    BY <1>2, <1>5
  <1>8. PICK m \in Nat \ {0} : m = ns[k]
    BY <1>3
  <1>9. /\ pos[k] = b + (ex + m) /\ off[k] = f + m
        /\ \A j \in 1..ex : c[b + j] = <<0, m>>
        /\ \A j \in 1..m : c[b + (ex + j)] = s[f + j]
    BY <1>3, <1>6, <1>7, <1>8
  <1>10. to \in Nat /\ f + m <= to /\ b + (ex + m) <= len
    <2>1. to \in Nat /\ off[k] <= to /\ pos[k] <= pos[K]
      BY <1>2, <1>5
    <2>2. QED BY <2>1, <1>2, <1>9
  <1>11. CASE i - b <= ex
    <2>1. PICK t \in 1..ex : t = i - b
      <3>1. i - b \in 1..ex
        BY <1>4, <1>6, <1>11
      <3>2. QED BY <3>1
    <2>2. b + t = i
      BY <2>1
    <2>3. c[i] = <<0, m>>
      BY <2>2, <1>9
    <2>4. QED BY <2>3
  <1>12. CASE ~(i - b <= ex)
    <2>1. PICK j \in 1..m : j = i - (b + ex)
      <3>1. i - (b + ex) \in 1..m
        BY <1>4, <1>6, <1>9, <1>12
      <3>2. QED BY <3>1
    <2>2. b + (ex + j) = i
      BY <2>1
    <2>3. PICK o \in Nat \ {0} : o = f + j
      <3>1. f + j \in Nat \ {0}
        OBVIOUS
      <3>2. QED BY <3>1
    <2>4. c[i] = s[o] /\ o <= to
      <3>1. c[b + (ex + j)] = s[f + j]
        BY <1>9
      <3>2. f + j <= to
        BY <1>10
      <3>3. QED BY <3>1, <3>2, <2>2, <2>3
    <2>5. CASE j # m
      <3>1. PICK h \in 1..m : h = j + 1
        <4>1. j + 1 \in 1..m
          BY <2>5
        <4>2. QED BY <4>1
      <3>2. b + (ex + h) = i + 1 /\ f + h = o + 1 /\ i + 1 <= len
        BY <3>1, <2>2, <2>3, <1>10
      <3>3. c[b + (ex + h)] = s[f + h]
        BY <1>9
      <3>4. i + 1 <= len /\ c[i + 1] = s[o + 1]
        BY <3>2, <3>3
      <3>5. QED BY <3>4, <2>4 DEF Follows
    <2>6. CASE j = m
      <3>1. i = pos[k] /\ o = off[k]
        BY <2>2, <2>3, <2>6, <1>9
      <3>2. CASE k = K
        <4>1. i = len /\ o = to
          BY <3>1, <3>2, <1>2
        <4>2. QED BY <4>1, <2>4 DEF Follows
      <3>3. CASE k # K
        <4>1. PICK g \in 1..K : g = k + 1 /\ g - 1 = k
          <5>1. k + 1 \in 1..K /\ (k + 1) - 1 = k
            BY <3>3, <1>2
          <5>2. QED BY <5>1
        <4>2. PICK x \in Nat \ {0} : x = ns[g]
          BY <1>3
        <4>3. /\ pos[g] = pos[g - 1] + (ex + x)
              /\ \A y \in 1..ex : c[pos[g - 1] + y] = <<0, x>>
              /\ \A y \in 1..x : c[pos[g - 1] + (ex + y)] = s[off[g - 1] + y]
          BY <4>2, <1>3
        <4>4. /\ pos[g] = i + (ex + x)
              /\ \A y \in 1..ex : c[i + y] = <<0, x>>
              /\ \A y \in 1..x : c[i + (ex + y)] = s[o + y]
          BY <4>1, <4>3, <3>1
        <4>5. pos[g] <= len
          <5>1. g \in 0..K /\ g <= K
            BY <1>2
          <5>2. QED BY <5>1, <1>2, <1>5
        <4>6. i + ex + 1 <= len /\ i + (ex + 1) = i + ex + 1 /\ 1 \in 1..x
          BY <4>4, <4>5
        <4>7. i + ex + 1 <= len /\ c[i + ex + 1] = s[o + 1]
          BY <4>4, <4>6
        <4>8. QED BY <4>4, <4>7, <2>4 DEF Follows
      <3>4. QED BY <3>2, <3>3
    <2>7. QED BY <2>5, <2>6
  <1>13. QED BY <1>11, <1>12

-----------------------------------------------------------------------------
\* The ring holds the pieces of text that have not been taken off it, and the
\* main thread is at the first of them.
TextRight ==
  LenEx > 0 /\ ~early =>
    /\ InPieces(Stream, LenEx, Contents, length, Removed, Stored)
    /\ pc \in Sized => length > 0 /\ Contents[1] = <<0, size - LenEx>>
    /\ TextWhole

\* Steps that neither store nor take.
LEMMA TextSame ==
  ASSUME TextRight, Contents' = Contents, Stored' = Stored, Removed' = Removed,
         UNCHANGED <<traffic, length, heard>>, early => early',
         pc' \in Sized => pc \in Sized /\ size' = size
  PROVE  TextRight'
  <1>1. LenEx' = LenEx /\ Stream' = Stream
    BY DEF LenEx, Stream
  <1>2. TextWhole /\ ~early /\ ~early' => TextWhole'
    <2>1. \A j : HeardUpTo(j)' = HeardUpTo(j)
      BY DEF HeardUpTo, Place
    <2>2. QED BY <1>1, <2>1 DEF TextWhole, Mark
  <1>3. SUFFICES ASSUME LenEx > 0, ~early'
                 PROVE  TextRight'
    BY <1>1 DEF TextRight
  <1>4. /\ InPieces(Stream, LenEx, Contents, length, Removed, Stored)
        /\ pc \in Sized => length > 0 /\ Contents[1] = <<0, size - LenEx>>
        /\ TextWhole /\ ~early
    BY <1>3 DEF TextRight
  <1>5. InPieces(Stream, LenEx, Contents, length, Removed, Stored)'
    BY <1>1, <1>4
  <1>6. pc' \in Sized => length' > 0 /\ Contents[1]' = <<0, size' - LenEx'>>
    BY <1>1, <1>4
  <1>7. TextWhole'
    BY <1>2, <1>3, <1>4
  <1>8. QED
    BY <1>5, <1>6, <1>7 DEF TextRight

\* The first piece in the ring.
LEMMA TextFirst ==
  ASSUME TypeInv, TextRight, LenEx > 0, ~early, length > 0
  PROVE  \E n \in Nat \ {0} :
           /\ LenEx + n <= length /\ Removed + n <= Stored /\ Stored <= Len(Stream) /\ Removed \in Nat
           /\ Contents[1] = <<0, n>> /\ (pc \in Sized => size = LenEx + n)
           /\ IsPiece(Brought(LenEx, n, Removed), LenEx, n, Removed)
           /\ \A i \in 1..(LenEx + n) : Contents[i] = Brought(LenEx, n, Removed)[i]
           /\ \A d : (\A i \in 1..(length - (LenEx + n)) : d[i] = Contents[(LenEx + n) + i])
                       => InPieces(Stream, LenEx, d, length - (LenEx + n), Removed + n, Stored)
  <1>1. /\ InPieces(Stream, LenEx, Contents, length, Removed, Stored)
        /\ pc \in Sized => Contents[1] = <<0, size - LenEx>>
    BY DEF TextRight
  <1>2. PICK ex \in Nat : ex = LenEx
    BY Numbers
  <1>3. PICK len \in Nat \ {0} : len = length
    BY Numbers
  <1>4. PICK s : s = Stream
    OBVIOUS
  <1>5. PICK c : c = Contents
    OBVIOUS
  <1>6. PICK from \in Nat : from = Removed
    BY <1>1, <1>2, PieceEnds
  <1>7. PICK to \in Nat : to = Stored
    BY Numbers
  <1>8. InPieces(s, ex, c, len, from, to)
    BY <1>1, <1>2, <1>3, <1>4, <1>5, <1>6, <1>7
  <1>0. PICK n \in Nat \ {0} : StartsWith(s, ex, c, len, from, to, n)
    BY <1>8, FirstPiece
  <1>9. /\ ex + n <= len /\ from + n <= to
        /\ \A j \in 1..ex : c[j] = <<0, n>>
        /\ \A j \in 1..n : c[ex + j] = s[from + j]
        /\ \A d : (\A i \in 1..(len - (ex + n)) : d[i] = c[(ex + n) + i])
                    => InPieces(s, ex, d, len - (ex + n), from + n, to)
    BY <1>0 DEF StartsWith
  <1>10. Stored <= Len(Stream)
    <2>1. /\ taken \in Nat /\ taken <= Len(Stream) /\ Len(Stream) \in Nat /\ io.ret \in Nat
          /\ (io.at # "store" => Stored = taken) /\ (io.at = "store" => Stored = taken - io.ret)
      BY Numbers
    <2>2. QED BY <2>1
  <1>11. c[1] = <<0, n>>
    <2>1. 1 \in 1..ex
      BY <1>2
    <2>2. QED BY <2>1, <1>9
  <1>12. pc \in Sized => size = ex + n
    <2>1. pc \in Sized => n = size - ex
      BY <1>1, <1>2, <1>5, <1>11
    <2>2. size \in Nat
      BY Numbers
    <2>3. n = size - ex => size = ex + n
      BY <2>2
    <2>4. QED BY <2>1, <2>3
  <1>13. IsPiece(Brought(ex, n, from), ex, n, from)
    <2>1. from + n <= Len(Stream)
      <3>1. PICK t \in Nat : t = Len(Stream)
        BY Numbers
      <3>2. to <= t /\ from + n <= to
        BY <1>7, <1>9, <1>10, <3>1
      <3>3. QED BY <3>1, <3>2
    <2>2. ex + n <= Size
      <3>1. len <= Size /\ ex + n <= len /\ Size \in Nat
        BY <1>3, <1>9, Numbers
      <3>2. QED BY <3>1
    <2>3. ex \in {0, LenEx} /\ traffic \in Traffic
      BY <1>2, TypeParts
    <2>4. QED BY <2>1, <2>2, <2>3, Piece
  <1>14. ASSUME NEW i \in 1..(ex + n) PROVE c[i] = Brought(ex, n, from)[i]
    <2>1. PICK xs : xs = Brought(ex, n, from)
      OBVIOUS
    <2>2. (\A j \in 1..ex : xs[j] = <<0, n>>) /\ (\A j \in 1..n : xs[ex + j] = s[from + j])
      BY <2>1, <1>4, <1>13 DEF IsPiece
    <2>3. CASE i <= ex
      <3>1. i \in 1..ex
        BY <2>3
      <3>2. QED BY <3>1, <2>1, <2>2, <1>9
    <2>4. CASE ~(i <= ex)
      <3>1. PICK j \in 1..n : j = i - ex
        <4>1. i - ex \in 1..n
          BY <2>4
        <4>2. QED BY <4>1
      <3>2. ex + j = i
        BY <3>1
      <3>3. c[ex + j] = s[from + j] /\ xs[ex + j] = s[from + j]
        BY <1>9, <2>2
      <3>4. QED BY <3>2, <3>3, <2>1
    <2>5. QED BY <2>3, <2>4
  <1>15. /\ ex + n <= len /\ from + n <= to
         /\ \A d : (\A i \in 1..(len - (ex + n)) : d[i] = c[(ex + n) + i])
                       => InPieces(s, ex, d, len - (ex + n), from + n, to)
    BY <1>9
  <1>16. QED
    BY <1>2, <1>3, <1>4, <1>5, <1>6, <1>7, <1>10, <1>11, <1>12, <1>13, <1>14, <1>15

\* What the io thread queues is one more piece.
LEMMA TextStored ==
  ASSUME TypeInv, TextRight, RecvCompletion
  PROVE  TextRight'
  <1>1. /\ UNCHANGED <<traffic, early, pc, size, heard>> /\ Stored' = Stored + io.ret /\ io.at = "store"
        /\ IsPiece(Brought(io.ex, io.ret, Stored), io.ex, io.ret, Stored)
        /\ Contents' = Contents \o Brought(io.ex, io.ret, Stored)
        /\ length' = length + io.ex + io.ret
    BY CompletionType
  <1>2. LenEx' = LenEx /\ Stream' = Stream /\ Removed' = Removed
    BY <1>1 DEF LenEx, Stream, Removed, HeardUpTo, Place
  <1>3. TextWhole' = TextWhole
    BY <1>1, <1>2 DEF TextWhole, Mark, HeardUpTo, Place
  <1>4. SUFFICES ASSUME LenEx > 0, ~early
                 PROVE  TextRight'
    BY <1>1, <1>2 DEF TextRight
  <1>5. io.ex = LenEx /\ io.ret >= 1
    BY <1>1, <1>4, TypeParts DEF IoRight
  <1>6. PICK n \in Nat \ {0} : n = io.ret
    BY <1>5, Numbers, SMTT(40)
  <1>7. PICK ex \in Nat \ {0} : ex = LenEx
    BY <1>4, Numbers
  <1>8. PICK len \in Nat : len = length
    BY Numbers
  <1>9. PICK to \in Nat : to = Stored
    BY Numbers
  <1>10. /\ InPieces(Stream, LenEx, Contents, length, Removed, Stored)
         /\ pc \in Sized => length > 0 /\ Contents[1] = <<0, size - LenEx>>
         /\ TextWhole
    BY <1>4 DEF TextRight
  <1>11. PICK from \in Nat : from = Removed
    BY <1>7, <1>10, PieceEnds
  <1>12. PICK s : s = Stream
    OBVIOUS
  <1>13. PICK c : c = Contents
    OBVIOUS
  <1>14. PICK xs : xs = Brought(io.ex, io.ret, Stored)
    OBVIOUS
  <1>15. PICK d : d = c \o xs
    OBVIOUS
  <1>16. /\ xs \in Seq(Element) /\ Len(xs) = ex + n
         /\ \A j \in 1..ex : xs[j] = <<0, n>>
         /\ \A j \in 1..n : xs[ex + j] = s[to + j]
    BY <1>1, <1>5, <1>6, <1>7, <1>9, <1>12, <1>14 DEF IsPiece
  <1>17. \A i \in 1..(len + (ex + n)) : d[i] = IF i <= len THEN c[i] ELSE xs[i - len]
    <2>1. xs \in Seq(Element \cup {Blank}) /\ c \in Seq(Element \cup {Blank}) /\ Len(c) = len
      BY <1>8, <1>13, <1>16, SeqWider, Numbers
    <2>2. \A i \in 1..(Len(c) + Len(xs)) : (c \o xs)[i] = IF i <= Len(c) THEN c[i] ELSE xs[i - Len(c)]
      BY <2>1, ConcatProperties
    <2>3. QED BY <2>1, <2>2, <1>15, <1>16
  <1>18. \A i \in 1..len : d[i] = c[i]
    BY <1>17
  <1>19. \A j \in 1..(ex + n) : d[len + j] = xs[j]
    <2>1. ASSUME NEW j \in 1..(ex + n) PROVE d[len + j] = xs[j]
      <3>1. PICK i \in 1..(len + (ex + n)) : i = len + j
        <4>1. len + j \in 1..(len + (ex + n))
          OBVIOUS
        <4>2. QED BY <4>1
      <3>2. ~(i <= len) /\ i - len = j
        BY <3>1
      <3>3. QED BY <3>1, <3>2, <1>17
    <2>2. QED BY <2>1
  <1>20. \A j \in 1..ex : d[len + j] = <<0, n>>
    <2>1. \A j \in 1..ex : j \in 1..(ex + n)
      OBVIOUS
    <2>2. QED BY <2>1, <1>16, <1>19
  <1>21. \A j \in 1..n : d[len + (ex + j)] = s[to + j]
    <2>1. \A j \in 1..n : ex + j \in 1..(ex + n)
      OBVIOUS
    <2>2. QED BY <2>1, <1>16, <1>19
  <1>22. InPieces(s, ex, d, len + (ex + n), from, to + n)
    <2>1. InPieces(s, ex, c, len, from, to)
      BY <1>7, <1>8, <1>9, <1>10, <1>11, <1>12, <1>13
    <2>2. QED BY <2>1, <1>18, <1>20, <1>21, OneMorePiece
  <1>23. length' = len + (ex + n) /\ Stored' = to + n /\ Contents' = d
    <2>1. length' = len + ex + n
      BY <1>1, <1>5, <1>6, <1>7, <1>8
    <2>2. QED BY <2>1, <1>1, <1>6, <1>9, <1>13, <1>14, <1>15
  <1>24. InPieces(Stream', LenEx', Contents', length', Removed', Stored')
    BY <1>2, <1>7, <1>11, <1>12, <1>22, <1>23
  <1>25. pc' \in Sized => length' > 0 /\ Contents[1]' = <<0, size' - LenEx'>>
    <2>1. len > 0 => 1 \in 1..len
      OBVIOUS
    <2>2. pc \in Sized => len > 0 /\ c[1] = <<0, size - LenEx>>
      BY <1>8, <1>10, <1>13
    <2>3. pc \in Sized => d[1] = <<0, size - LenEx>>
      BY <2>1, <2>2, <1>18
    <2>4. len + (ex + n) > 0
      OBVIOUS
    <2>5. QED BY <2>3, <2>4, <1>1, <1>2, <1>23
  <1>26. QED
    BY <1>3, <1>10, <1>24, <1>25 DEF TextRight

\* The header that is peeked at is the one before the first piece.
LEMMA TextPeeked ==
  ASSUME TypeInv, TextRight, PeekHeader
  PROVE  TextRight'
  <1>1. UNCHANGED <<traffic, heard, early>> /\ pc = "peek" /\ pc' = "length"
    BY DEF PeekHeader, ioVars
  <1>2. Contents' = Contents /\ Stored' = Stored /\ UNCHANGED length
    BY MainQuietType
  <1>3. LenEx' = LenEx /\ Stream' = Stream /\ Removed' = Removed
    BY <1>1 DEF LenEx, Stream, Removed, HeardUpTo, Place
  <1>4. TextWhole' = TextWhole
    BY <1>1, <1>3 DEF TextWhole, Mark, HeardUpTo, Place
  <1>5. SUFFICES ASSUME LenEx > 0, ~early
                 PROVE  TextRight'
    BY <1>1, <1>3 DEF TextRight
  <1>6. /\ InPieces(Stream, LenEx, Contents, length, Removed, Stored) /\ TextWhole
    BY <1>5 DEF TextRight
  <1>7. length > 0
    BY PeekedSize, Numbers
  <1>8. PICK n \in Nat \ {0} : Contents[1] = <<0, n>>
    BY <1>5, <1>7, TextFirst
  <1>9. Contents[1][1] = 0 /\ Contents[1][2] = n
    BY <1>8
  <1>10. size' = HeaderSize + n
    BY <1>5, <1>9, PeekedSize
  <1>11. LenEx = HeaderSize /\ LenEx \in Nat
    <2>1. traffic \in Traffic
      BY TypeParts
    <2>2. LenEx \in {0, HeaderSize} /\ LenEx \in Nat
      BY <2>1, Traffics
    <2>3. LenEx # 0
      BY <1>5
    <2>4. QED BY <2>2, <2>3
  <1>12. size' - LenEx' = n
    BY <1>3, <1>10, <1>11
  <1>13. Contents[1]' = <<0, size' - LenEx'>> /\ length' > 0
    BY <1>2, <1>7, <1>8, <1>12
  <1>14. InPieces(Stream', LenEx', Contents', length', Removed', Stored')
    BY <1>2, <1>3, <1>6
  <1>15. QED
    BY <1>4, <1>6, <1>13, <1>14 DEF TextRight

\* OnRecv is given the first piece.
LEMMA TextHeard ==
  ASSUME TypeInv, TextRight, OnRecv
  PROVE  TextRight'
  <1> DEFINE block == [i \in 1..size |-> data[head + i - 1]]
  <1>1. UNCHANGED <<traffic, size, early>> /\ pc = "recv" /\ pc' = "remove" /\ heard' = Append(heard, block)
    BY DEF OnRecv, ioVars
  <1>2. Contents' = Contents /\ Stored' = Stored /\ UNCHANGED length
    BY MainQuietType
  <1>3. LenEx' = LenEx /\ Stream' = Stream
    BY <1>1 DEF LenEx, Stream
  <1>4. heard \in Seq(Seq(Element \cup {Blank})) /\ MainRight
    BY TypeParts
  <1>5. PICK l \in Nat : l = Len(heard)
    BY <1>4, LenProperties
  <1>6. SUFFICES ASSUME LenEx > 0, ~early
                 PROVE  TextRight'
    BY <1>1, <1>3 DEF TextRight
  <1>7. /\ InPieces(Stream, LenEx, Contents, length, Removed, Stored)
        /\ length > 0 /\ Contents[1] = <<0, size - LenEx>> /\ TextWhole
    BY <1>1, <1>6 DEF TextRight, Sized
  <1>8. PICK n \in Nat \ {0} :
          /\ size = LenEx + n /\ LenEx + n <= length
          /\ IsPiece(Brought(LenEx, n, Removed), LenEx, n, Removed)
          /\ \A i \in 1..(LenEx + n) : Contents[i] = Brought(LenEx, n, Removed)[i]
    BY <1>1, <1>6, <1>7, TextFirst DEF Sized
  <1>9. size \in Nat /\ length \in Nat /\ size <= length /\ \A i \in 1..size : data[head + i - 1] = Contents[i]
    BY <1>1, <1>4, Numbers DEF MainRight
  <1>10. block = Brought(LenEx, n, Removed)
    <2>1. PICK xs : xs = Brought(LenEx, n, Removed)
      OBVIOUS
    <2>2. xs \in Seq(Element) /\ Len(xs) = size
      BY <2>1, <1>8 DEF IsPiece
    <2>3. xs = [i \in 1..size |-> xs[i]]
      BY <2>2, LenProperties
    <2>4. \A i \in 1..size : data[head + i - 1] = xs[i]
      BY <2>1, <1>8, <1>9
    <2>5. block = [i \in 1..size |-> xs[i]]
      BY <2>4
    <2> HIDE DEF block
    <2>6. QED BY <2>1, <2>3, <2>5
  <1>11. block \in Seq(Element \cup {Blank}) /\ Len(block) = size
    <2>1. \A i \in 1..size : i \in 1..Len(Contents)
      BY <1>9, Numbers
    <2>2. \A i \in 1..size : data[head + i - 1] \in Element \cup {Blank}
      BY <2>1, <1>9, Numbers, ElementOfSeq
    <2>3. block \in Seq(Element \cup {Blank})
      BY <2>2, <1>9, IsASeq
    <2>4. Len(block) = size
      BY <1>9, LenProperties
    <2>5. QED BY <2>3, <2>4
  <1> HIDE DEF block
  <1>12. /\ Len(heard') = l + 1 /\ heard'[l + 1] = block
         /\ \A i \in 1..l : heard'[i] = heard[i]
    BY <1>1, <1>4, <1>5, <1>11, AppendProperties
  <1>13. \A i \in 0..l : HeardUpTo(i)' = HeardUpTo(i)
    <2>1. SUFFICES ASSUME NEW i \in 0..l PROVE HeardUpTo(i)' = HeardUpTo(i)
      OBVIOUS
    <2>2. CASE i = 0
      BY <2>2 DEF HeardUpTo
    <2>3. CASE i # 0
      <3>1. i \in 1..l
        BY <2>3
      <3>2. heard'[i] = heard[i]
        BY <3>1, <1>12
      <3>3. QED BY <3>2, <1>1 DEF HeardUpTo, Place
    <2>4. QED BY <2>2, <2>3
  <1>14. Removed = HeardUpTo(l) /\ Removed' = HeardUpTo(l)'
    <2>1. Removed = HeardUpTo(l)
      BY <1>1, <1>5 DEF Removed
    <2>2. Len(heard') - 1 = l
      BY <1>12
    <2>3. Removed' = HeardUpTo(Len(heard) - 1)'
      BY <1>1 DEF Removed
    <2>4. QED BY <2>1, <2>2, <2>3
  <1>15. Removed' = Removed
    <2>1. l \in 0..l
      OBVIOUS
    <2>2. QED BY <2>1, <1>13, <1>14
  <1>16. TextWhole'
    <2>1. ASSUME NEW i \in 1..(l + 1)
          PROVE  /\ Len(heard'[i]) - LenEx > 0
                 /\ heard'[i] = Brought(LenEx, Len(heard'[i]) - LenEx, HeardUpTo(i - 1)')
      <3>1. CASE i = l + 1
        <4>1. heard'[i] = block /\ i - 1 = l /\ l \in 0..l
          BY <3>1, <1>12
        <4>2. Len(heard'[i]) - LenEx = n
          <5>1. LenEx \in Nat
            BY Numbers
          <5>2. Len(heard'[i]) = LenEx + n
            BY <4>1, <1>8, <1>11
          <5>3. QED BY <5>1, <5>2
        <4>3. HeardUpTo(i - 1)' = Removed
          BY <4>1, <1>14, <1>15
        <4>4. QED BY <4>1, <4>2, <4>3, <1>10
      <3>2. CASE i # l + 1
        <4>1. i \in 1..l /\ i - 1 \in 0..l
          BY <3>2
        <4>2. Len(heard[i]) - LenEx > 0 /\ heard[i] = Brought(LenEx, Len(heard[i]) - LenEx, HeardUpTo(i - 1))
          BY <4>1, <1>5, <1>6, <1>7 DEF TextWhole, Brought
        <4>3. heard'[i] = heard[i] /\ HeardUpTo(i - 1)' = HeardUpTo(i - 1)
          BY <4>1, <1>12, <1>13
        <4>4. QED BY <4>2, <4>3
      <3>3. QED BY <3>1, <3>2
    <2>2. \A i \in 1..(l + 1) :
            /\ Len(heard'[i]) - LenEx > 0
            /\ heard'[i] = Brought(LenEx, Len(heard'[i]) - LenEx, HeardUpTo(i - 1)')
      BY <2>1
    <2>3. QED BY <2>2, <1>3, <1>12 DEF TextWhole, Brought, Mark
  <1>17. InPieces(Stream', LenEx', Contents', length', Removed', Stored')
    BY <1>2, <1>3, <1>7, <1>15
  <1>18. length' > 0 /\ Contents[1]' = <<0, size' - LenEx'>>
    BY <1>1, <1>2, <1>3, <1>7
  <1>19. QED
    BY <1>16, <1>17, <1>18 DEF TextRight

\* What is left are the pieces after it.
LEMMA TextRemoved ==
  ASSUME TypeInv, TextRight, RemoveFirstPacket
  PROVE  TextRight'
  <1>1. /\ length' = length - size /\ size <= length
        /\ \A i \in 1..length' : (Contents')[i] = Contents[size + i]
        /\ Stored' = Stored /\ UNCHANGED <<traffic, size, heard, early>>
        /\ pc = "remove" /\ pc' = "peek"
    BY RemoveType
  <1>2. LenEx' = LenEx /\ Stream' = Stream
    BY <1>1 DEF LenEx, Stream
  <1>3. TextWhole' = TextWhole
    BY <1>1, <1>2 DEF TextWhole, Mark, HeardUpTo, Place
  <1>4. SUFFICES ASSUME LenEx > 0, ~early
                 PROVE  TextRight'
    BY <1>1, <1>2 DEF TextRight
  <1>5. /\ InPieces(Stream, LenEx, Contents, length, Removed, Stored)
        /\ length > 0 /\ TextWhole
    BY <1>1, <1>4 DEF TextRight, Sized
  <1>6. PICK n \in Nat \ {0} :
          /\ Removed + n <= Stored /\ Stored <= Len(Stream) /\ Removed \in Nat
          /\ size = LenEx + n
          /\ IsPiece(Brought(LenEx, n, Removed), LenEx, n, Removed)
          /\ \A d : (\A i \in 1..(length - (LenEx + n)) : d[i] = Contents[(LenEx + n) + i])
                       => InPieces(Stream, LenEx, d, length - (LenEx + n), Removed + n, Stored)
    BY <1>1, <1>4, <1>5, TextFirst DEF Sized
  <1>7. heard # <<>> /\ Len(heard[Len(heard)]) = size /\ heard \in Seq(Seq(Element \cup {Blank}))
    BY <1>1, TypeParts DEF MainRight
  <1>8. PICK l \in Nat \ {0} : l = Len(heard)
    BY <1>7, LenProperties, EmptySeq
  <1>9. Removed = HeardUpTo(l - 1) /\ Removed' = HeardUpTo(l)
    <2>1. Removed = HeardUpTo(l - 1)
      BY <1>1, <1>8 DEF Removed
    <2>2. HeardUpTo(l)' = HeardUpTo(l)
      BY <1>1 DEF HeardUpTo, Place
    <2>3. Removed' = HeardUpTo(l)'
      BY <1>1, <1>8 DEF Removed
    <2>4. QED BY <2>1, <2>2, <2>3
  <1>10. heard[l] = Brought(LenEx, n, Removed)
    <2>1. l \in 1..Len(heard)
      BY <1>8
    <2>2. Len(heard[l]) - LenEx = n
      <3>1. LenEx \in Nat
        BY Numbers
      <3>2. Len(heard[l]) = LenEx + n
        BY <1>6, <1>7, <1>8
      <3>3. QED BY <3>1, <3>2
    <2>3. heard[l] = Brought(LenEx, Len(heard[l]) - LenEx, HeardUpTo(l - 1))
      BY <2>1, <1>4, <1>5 DEF TextWhole, Brought
    <2>4. QED BY <2>2, <2>3, <1>9
  <1>11. Removed' = Removed + n
    <2>1. PICK xs : xs = heard[l]
      OBVIOUS
    <2>2. Len(xs) = LenEx + n /\ \A j \in 1..n : xs[LenEx + j] = Stream[Removed + j]
      BY <2>1, <1>6, <1>10 DEF IsPiece
    <2>3. n \in 1..n
      OBVIOUS
    <2>4. xs[LenEx + n] = Stream[Removed + n]
      BY <2>2, <2>3
    <2>5. xs[Len(xs)] = Stream[Removed + n]
      BY <2>2, <2>4
    <2>6. PICK j \in 1..Len(Stream) : j = Removed + n
      <3>1. Stored \in Nat /\ Len(Stream) \in Nat
        BY Numbers
      <3>2. Removed + n \in 1..Len(Stream)
        BY <3>1, <1>6
      <3>3. QED BY <3>2
    <2>7. Place(Stream[j]) = j
      BY TypeParts, StreamCell
    <2>8. HeardUpTo(l) = Place(xs[Len(xs)])
      BY <2>1 DEF HeardUpTo
    <2>9. QED BY <2>5, <2>6, <2>7, <2>8, <1>9
  <1>12. InPieces(Stream', LenEx', Contents', length', Removed', Stored')
    <2>1. PICK d : d = Contents'
      OBVIOUS
    <2>2. length' = length - (LenEx + n)
      BY <1>1, <1>6
    <2>3. \A i \in 1..(length - (LenEx + n)) : d[i] = Contents[(LenEx + n) + i]
      BY <2>1, <2>2, <1>1, <1>6
    <2>4. InPieces(Stream, LenEx, d, length - (LenEx + n), Removed + n, Stored)
      BY <2>3, <1>6
    <2>5. QED BY <2>1, <2>2, <2>4, <1>1, <1>2, <1>11
  <1>13. pc' \notin Sized
    BY <1>1 DEF Sized
  <1>14. QED
    BY <1>3, <1>5, <1>12, <1>13 DEF TextRight

-----------------------------------------------------------------------------
RecvInv == TypeInv /\ PacketsRight /\ TextRight

LEMMA RecvInvInit == RecvInit => RecvInv
  <1> SUFFICES ASSUME RecvInit PROVE RecvInv
    OBVIOUS
  <1>1. /\ data = [c \in Cell |-> Blank] /\ head = 0 /\ tail = 0 /\ length = 0
        /\ traffic \in Traffic /\ bound = (LenEx = 0) /\ early = FALSE /\ taken = 0 /\ io = Away
        /\ pc = "peek" /\ size = 0 /\ heard = <<>> /\ removed = FALSE
        /\ unreported = FALSE
    BY DEF RecvInit, QueueInit
  <1>2. /\ LenEx \in Nat /\ Len(Stream) \in Nat /\ traffic.start[1] = 0 /\ Len(traffic.payload) \in Nat
    BY <1>1, Traffics
  <1>3. Size \in Nat \ {0} /\ ExtraSize \in Nat
    BY QueueAssumption
  <1>4. QueueType
    BY <1>1, <1>3 DEF QueueType
  <1>5. IndexAgree /\ Contents = <<>>
    BY <1>1, EmptyRing
  <1>6. io \in [at : {"away", "recv", "store", "again", "overrun"}, len : 0..Size, ex : {0, LenEx}, ret : 0..Size]
        /\ io.at = "away"
    BY <1>1, <1>3 DEF Away
  <1>7. taken \in 0..Len(Stream) /\ size \in 0..(Size + ExtraSize + 1)
    BY <1>1, <1>2, <1>3
  <1>8. heard \in Seq(Seq(Element \cup {Blank})) /\ Len(heard) = 0
    BY <1>1, EmptySeq
  <1>9. bound \in BOOLEAN /\ early \in BOOLEAN /\ removed \in BOOLEAN /\ unreported \in BOOLEAN
    BY <1>1
  <1>10. RecvType
    BY <1>1, <1>4, <1>6, <1>7, <1>8, <1>9 DEF RecvType
  <1>11. IoRight
    BY <1>6 DEF IoRight
  <1>12. 1..length = {} /\ 1..Len(heard) = {}
    BY <1>1, <1>8
  <1>13. MainRight
    BY <1>1, <1>12 DEF MainRight
  <1>14. TypeInv
    BY <1>4, <1>5, <1>10, <1>11, <1>13 DEF TypeInv, RingInv
  <1>15. Stored = 0
    BY <1>1, <1>6 DEF Stored
  <1>16. Done + 1 = 1
    BY <1>1, <1>8 DEF Done
  <1>17. pc \notin Sized
    BY <1>1 DEF Sized
  <1>18. PacketsRight
    <2>1. 1 \in 1..(Len(traffic.payload) + 1)
      BY <1>2
    <2>2. Stored - length = traffic.start[1]
      BY <1>1, <1>2, <1>15
    <2> HIDE DEF Done
    <2>3. QED BY <2>1, <2>2, <1>12, <1>16, <1>17 DEF PacketsRight
  <1>19. Removed = 0
    BY <1>1, <1>8 DEF Removed, HeardUpTo
  <1>20. InPieces(Stream, LenEx, Contents, length, Removed, Stored)
    BY <1>1, <1>15, <1>19, NoPieces
  <1>21. TextWhole
    BY <1>12 DEF TextWhole
  <1>22. TextRight
    BY <1>17, <1>20, <1>21 DEF TextRight
  <1>23. QED BY <1>14, <1>18, <1>22 DEF RecvInv

LEMMA RecvInvStep == RecvInv /\ [RecvNext]_recvVars => RecvInv'
  <1> SUFFICES ASSUME RecvInv, [RecvNext]_recvVars PROVE RecvInv'
    OBVIOUS
  <1>1. TypeInv /\ PacketsRight /\ TextRight
    BY DEF RecvInv
  \* Steps after which the ring holds what it held.
  <1>2. ASSUME TypeInv', Contents' = Contents, Stored' = Stored,
               UNCHANGED <<traffic, length, heard>>, early => early',
               pc' = "remove" <=> pc = "remove",
               pc' \in Sized => pc \in Sized /\ size' = size
        PROVE  RecvInv'
    <2>1. Done' = Done
      BY <1>2 DEF Done
    <2>2. Removed' = Removed
      BY <1>2 DEF Removed, HeardUpTo, Place
    <2>3. PacketsRight'
      BY <1>1, <1>2, <2>1, PacketsSame
    <2>4. TextRight'
      BY <1>1, <1>2, <2>2, TextSame
    <2>5. QED BY <1>2, <2>3, <2>4 DEF RecvInv
  <1>3. CASE EventLost \/ GetRecvParam \/ RecvNothing \/ RecvZero \/ RecvOverruns
    BY <1>1, <1>2, <1>3, IoQuietType
  <1>4. CASE Recv
    BY <1>1, <1>2, <1>4, DepositType
  <1>5. CASE RecvCompletion
    BY <1>1, <1>5, CompletionType, PacketsStored, TextStored DEF RecvInv
  <1>6. CASE Bind
    <2>1. UNCHANGED <<pc, size, heard>>
      BY <1>6 DEF Bind
    <2>2. QED BY <2>1, <1>1, <1>2, <1>6, MainQuietType
  <1>7. CASE PeekHeader
    BY <1>1, <1>7, MainQuietType, PacketsPeeked, TextPeeked DEF RecvInv
  <1>8. CASE CheckLength
    <2>1. pc = "length" /\ pc' \in {"peek", "copy"} /\ UNCHANGED <<size, heard>>
      BY <1>8 DEF CheckLength
    <2>2. pc \in Sized /\ pc' # "remove" /\ pc # "remove"
      BY <2>1 DEF Sized
    <2>3. QED BY <2>1, <2>2, <1>1, <1>2, <1>8, MainQuietType
  <1>9. CASE CopySplit \/ ReadPointer
    <2>1. pc \in {"copy", "pointer"} /\ pc' \in {"pointer", "recv"}
      BY <1>9 DEF CopySplit, ReadPointer
    <2>2. pc \in Sized /\ pc' # "remove" /\ pc # "remove"
      BY <2>1 DEF Sized
    <2>3. QED BY <2>2, <1>1, <1>2, <1>9, ExtraType
  <1>10. CASE Malformed
    <2>1. pc = "recv" /\ pc' = "given up" /\ UNCHANGED <<size, heard>>
      BY <1>10 DEF Malformed
    <2>2. pc' \notin Sized /\ pc' # "remove" /\ pc # "remove"
      BY <2>1 DEF Sized
    <2>3. QED BY <2>1, <2>2, <1>1, <1>2, <1>10, MainQuietType
  <1>11. CASE OnRecv
    BY <1>1, <1>11, MainQuietType, PacketsHeard, TextHeard DEF RecvInv
  <1>12. CASE RemoveFirstPacket
    BY <1>1, <1>12, RemoveType, PacketsRemoved, TextRemoved DEF RecvInv
  <1>13. CASE UNCHANGED recvVars
    <2>1. UNCHANGED <<qvars, traffic, bound, early, taken, io, unreported, pc, size, heard, removed>>
      BY <1>13 DEF recvVars
    <2>2. RingInv' /\ Contents' = Contents /\ UNCHANGED <<head, tail, length, data>> /\ GetWritableLen' = GetWritableLen
      BY <2>1, <1>1, TypeParts, RingUnchanged DEF qvars, GetWritableLen
    <2>3. LenEx' = LenEx /\ Stream' = Stream /\ Known' = Known /\ Packet' = Packet /\ Stored' = Stored
      BY <2>1 DEF LenEx, Stream, Known, Packet, Stored
    <2>4. RecvType'
      BY <2>1, <2>2, <2>3, <1>1, TypeParts DEF RecvType, RingInv
    <2>5. IoRight'
      BY <2>1, <2>2, <2>3, <1>1, TypeParts DEF IoRight
    <2>6. MainRight'
      BY <2>1, <2>2, <2>3, <1>1, TypeParts DEF MainRight
    <2>7. TypeInv'
      BY <2>2, <2>4, <2>5, <2>6 DEF TypeInv
    <2>8. QED BY <2>1, <2>2, <2>3, <2>7, <1>2
  <1>14. QED
    BY <1>3, <1>4, <1>5, <1>6, <1>7, <1>8, <1>9, <1>10, <1>11, <1>12, <1>13
       DEF RecvNext, DoRecv, RecvArrived, ProcessRecvdPacket

\* The ring holds the stream without a gap, cell by cell.
LEMMA PacketsInRing ==
  ASSUME TypeInv, PacketsRight, LenEx = 0
  PROVE  Contents = SubSeq(Stream, Stored - length + 1, Stored)
  <1>1. PICK o \in Nat : o = Stored
    BY Numbers
  <1>2. PICK len \in Nat : len = length
    BY Numbers
  <1>3. /\ Done + 1 \in 1..(Len(traffic.payload) + 1)
        /\ o - len = traffic.start[Done + 1]
        /\ \A i \in 1..len : Contents[i] = Stream[traffic.start[Done + 1] + i]
    BY <1>1, <1>2 DEF PacketsRight
  <1>4. PICK st \in Nat : st = traffic.start[Done + 1]
    BY <1>3, TypeParts, Traffics
  <1>5. o = st + len
    BY <1>3, <1>4
  <1>6. o <= Len(Stream) /\ Stream \in Seq(Element) /\ Len(Stream) \in Nat
    <2>1. /\ taken \in Nat /\ taken <= Len(Stream) /\ Len(Stream) \in Nat /\ io.ret \in Nat
          /\ (io.at # "store" => Stored = taken) /\ (io.at = "store" => Stored = taken - io.ret)
      BY Numbers
    <2>2. Stream \in Seq(Element)
      BY TypeParts, Traffics
    <2>3. Stored <= Len(Stream)
      BY <2>1
    <2>4. QED BY <2>1, <2>2, <2>3, <1>1
  <1>7. PICK part : part = SubSeq(Stream, (o - len) + 1, o)
    OBVIOUS
  <1>8. o - len = st
    BY <1>5
  <1>9. part \in Seq(Element) /\ Len(part) = len /\ \A i \in 1..len : part[i] = Stream[st + i]
    <2>1. \A i \in (st + 1)..o : i \in 1..Len(Stream)
      BY <1>6
    <2>2. \A i \in (st + 1)..o : Stream[i] \in Element
      BY <2>1, <1>6, ElementOfSeq
    <2>3. st + 1 \in Int /\ o \in Int
      OBVIOUS
    <2>4. /\ SubSeq(Stream, st + 1, o) \in Seq(Element)
          /\ Len(SubSeq(Stream, st + 1, o)) = IF st + 1 <= o THEN o - (st + 1) + 1 ELSE 0
          /\ \A i \in 1..(o - (st + 1) + 1) : SubSeq(Stream, st + 1, o)[i] = Stream[(st + 1) + i - 1]
      BY <2>2, <2>3, SubSeqProperties
    <2>5. /\ o - (st + 1) + 1 = len /\ (IF st + 1 <= o THEN len ELSE 0) = len
          /\ \A i \in 1..len : (st + 1) + i - 1 = st + i
      BY <1>5
    <2>6. QED BY <2>4, <2>5, <1>7, <1>8
  <1>10. Contents = part
    <2>1. Contents \in Seq(Element \cup {Blank}) /\ Len(Contents) = len
      BY <1>2, Numbers
    <2>2. Contents = [i \in 1..len |-> Contents[i]] /\ part = [i \in 1..len |-> part[i]]
      BY <2>1, <1>9, LenProperties
    <2>3. \A i \in 1..len : Contents[i] = part[i]
      BY <1>3, <1>4, <1>9
    <2>4. QED BY <2>2, <2>3
  <1>11. part = SubSeq(Stream, Stored - length + 1, Stored)
    BY <1>1, <1>2, <1>7
  <1>12. QED BY <1>10, <1>11

\* The pieces are in the order of the text, and behind their headers.
LEMMA TextIsInRing ==
  ASSUME TypeInv, TextRight, LenEx > 0, ~early
  PROVE  TextInRing
  <1> DEFINE Header(i) == \A k \in 1..LenEx : i + k <= length /\ Contents[i + k] = Contents[i + 1] /\ Contents[i + k][1] = 0
             Text(i, n) == i <= length /\ Contents[i] = Stream[n]
  <1>1. InPieces(Stream, LenEx, Contents, length, Removed, Stored)
    BY DEF TextRight
  <1>2. PICK ex \in Nat \ {0} : ex = LenEx
    BY Numbers
  <1>3. PICK len \in Nat : len = length
    BY Numbers
  <1>4. PICK from \in Nat : from = Removed
    BY <1>1, <1>2, PieceEnds
  <1>5. PICK to \in Nat : to = Stored
    BY Numbers
  <1>6. PICK s : s = Stream
    OBVIOUS
  <1>7. PICK c : c = Contents
    OBVIOUS
  <1>8. InPieces(s, ex, c, len, from, to)
    BY <1>1, <1>2, <1>3, <1>4, <1>5, <1>6, <1>7
  <1>9. to <= Len(Stream)
    <2>1. /\ taken \in Nat /\ taken <= Len(Stream) /\ Len(Stream) \in Nat /\ io.ret \in Nat
          /\ (io.at # "store" => Stored = taken) /\ (io.at = "store" => Stored = taken - io.ret)
      BY Numbers
    <2>2. Stored <= Len(Stream)
      BY <2>1
    <2>3. QED BY <2>2, <1>5
  <1>10. ASSUME NEW i \in Nat, NEW n, \A j \in 1..ex : c[i + j] = <<0, n>>, i + ex <= len
         PROVE  Header(i)
    <2>1. SUFFICES ASSUME NEW k \in 1..ex
                   PROVE  i + k <= len /\ c[i + k] = c[i + 1] /\ c[i + k][1] = 0
      BY <1>2, <1>3, <1>7
    <2>2. i + k <= len /\ 1 \in 1..ex
      BY <1>10
    <2>3. c[i + k] = <<0, n>> /\ c[i + 1] = <<0, n>>
      BY <2>2, <1>10
    <2>4. <<0, n>>[1] = 0
      OBVIOUS
    <2>5. QED BY <2>2, <2>3, <2>4
  <1>11. CASE len = 0
    <2>1. from = to
      BY <1>8, <1>11, PieceEnds
    <2>2. QED BY <2>1, <1>3, <1>4, <1>5, <1>11 DEF TextInRing
  <1>12. CASE len # 0
    <2>1. PICK n \in Nat \ {0} : StartsWith(s, ex, c, len, from, to, n)
      BY <1>8, <1>12, FirstPiece
    <2>2. /\ ex + n <= len
          /\ \A j \in 1..ex : c[j] = <<0, n>>
          /\ \A j \in 1..n : c[ex + j] = s[from + j]
      BY <2>1 DEF StartsWith
    <2>3. Header(0)
      <3>1. \A j \in 1..ex : 0 + j = j
        OBVIOUS
      <3>2. \A j \in 1..ex : c[0 + j] = <<0, n>>
        BY <3>1, <2>2
      <3>3. 0 \in Nat /\ 0 + ex <= len
        BY <2>2
      <3> HIDE DEF Header
      <3>4. QED BY <3>2, <3>3, <1>10
    <2>4. Text(LenEx + 1, Removed + 1)
      <3>1. 1 \in 1..n /\ ex + 1 <= len
        BY <2>2
      <3>2. c[ex + 1] = s[from + 1]
        BY <3>1, <2>2
      <3>3. QED BY <3>1, <3>2, <1>2, <1>3, <1>4, <1>6, <1>7
    <2> HIDE DEF Header, Text
    <2>5. ASSUME NEW i \in 1..len, c[i][1] # 0
          PROVE  \/ i = length /\ Place(Contents[i]) = Stored
                 \/ Text(i + 1, Place(Contents[i]) + 1)
                 \/ Header(i) /\ Text(i + LenEx + 1, Place(Contents[i]) + 1)
      <3>1. \A m : c[i] # <<0, m>>
        <4>1. \A m : <<0, m>>[1] = 0
          OBVIOUS
        <4>2. QED BY <4>1, <2>5
      <3>8. PICK o \in Nat \ {0} : Follows(s, ex, c, len, to, i, o)
        BY <3>1, <1>8, PieceAt
      <3>2. /\ o <= to /\ c[i] = s[o]
            /\ \/ i = len /\ o = to
               \/ i + 1 <= len /\ c[i + 1] = s[o + 1]
               \/ /\ i + ex + 1 <= len /\ c[i + ex + 1] = s[o + 1]
                  /\ \E m : \A j \in 1..ex : c[i + j] = <<0, m>>
        BY <3>8 DEF Follows
      <3>3. Place(Contents[i]) = o
        <4>1. PICK j \in 1..Len(Stream) : j = o
          <5>1. Len(Stream) \in Nat
            BY Numbers
          <5>2. o \in 1..Len(Stream)
            BY <5>1, <3>2, <1>9
          <5>3. QED BY <5>2
        <4>2. Place(Stream[j]) = j
          BY TypeParts, StreamCell
        <4>3. QED BY <4>1, <4>2, <3>2, <1>6, <1>7
      <3>4. CASE i = len /\ o = to
        BY <3>3, <3>4, <1>3, <1>5
      <3>5. CASE i + 1 <= len /\ c[i + 1] = s[o + 1]
        <4>1. Text(i + 1, o + 1)
          BY <3>5, <1>3, <1>6, <1>7 DEF Text
        <4>2. QED BY <4>1, <3>3
      <3>6. CASE /\ i + ex + 1 <= len /\ c[i + ex + 1] = s[o + 1]
                 /\ \E m : \A j \in 1..ex : c[i + j] = <<0, m>>
        <4>1. PICK m : \A j \in 1..ex : c[i + j] = <<0, m>>
          BY <3>6
        <4>2. i \in Nat /\ i + ex <= len
          BY <3>6
        <4>3. Header(i)
          BY <4>1, <4>2, <1>10
        <4>4. Text(i + LenEx + 1, o + 1)
          BY <3>6, <1>2, <1>3, <1>6, <1>7 DEF Text
        <4>5. QED BY <4>3, <4>4, <3>3
      <3>7. QED BY <3>2, <3>4, <3>5, <3>6
    <2>6. \A i \in 1..length : Contents[i][1] # 0 =>
            \/ i = length /\ Place(Contents[i]) = Stored
            \/ Text(i + 1, Place(Contents[i]) + 1)
            \/ Header(i) /\ Text(i + LenEx + 1, Place(Contents[i]) + 1)
      BY <2>5, <1>3, <1>7
    <2>7. length # 0
      BY <1>3, <1>12
    <2>8. QED BY <2>3, <2>4, <2>6, <2>7 DEF TextInRing, Header, Text
  <1>13. QED BY <1>11, <1>12

LEMMA RecvInvIsRight == RecvInv => HeardWhole
  <1> SUFFICES ASSUME RecvInv PROVE HeardWhole
    OBVIOUS
  <1>1. TypeInv /\ PacketsRight /\ TextRight
    BY DEF RecvInv
  <1>2. WholePackets
    BY <1>1 DEF PacketsRight, WholePackets
  <1>3. TextWhole
    <2>1. LenEx > 0 /\ ~early => TextWhole
      BY <1>1 DEF TextRight
    <2>2. QED BY <2>1 DEF TextWhole
  <1>4. RingIntact
    BY <1>1, PacketsInRing, TextIsInRing DEF RingIntact
  <1>5. RecvType
    BY <1>1 DEF TypeInv
  <1>6. QED BY <1>2, <1>3, <1>4, <1>5 DEF HeardWhole

\* Whatever an io thread reads into the ring between two of the main thread's
\* calls, OnRecv is given the packets that were sent, or the text that was, each
\* once, whole and in order, and the header made up for text lies on none of it
\* (Session.cpp:99-109, 191-227, RecvBuffer.h:30-45).
THEOREM HeardIsWhole == RecvSpec => []HeardWhole
  <1>1. QED
    BY RecvInvInit, RecvInvStep, RecvInvIsRight, PTL DEF RecvSpec

=============================================================================
