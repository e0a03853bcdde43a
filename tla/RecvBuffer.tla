----------------------------- MODULE RecvBuffer -----------------------------
(***************************************************************************)
(* Network/RecvBuffer.h between its two threads.  An io thread reads the   *)
(* socket straight into the ring (Session::DoRecv, one io thread at a time *)
(* under m_lockSend); the main thread takes packets out of it and hands    *)
(* them to OnRecv in place (Session::ProcessRecvdPacket).  Only the single *)
(* calls of CircuitQueue are locked, not what the two threads do with      *)
(* them.                                                                   *)
(*                                                                         *)
(* The peer sends the packets 1..Len(Payload), whose sizes are legal.  A   *)
(* client of LoginSrv sends text without headers (NotPackageHeader): there *)
(* recv() is given LenEx cells less, and the header that goes before what  *)
(* it returned is made up, so that a packet is what one recv() returned.   *)
(* A session is watched by epoll before it has its object: what is read by *)
(* then is taken for packets with headers.                                 *)
(***************************************************************************)
EXTENDS CircuitQueue

CONSTANTS
  Traffic,       \* what a session can be, and be sent; a set of records of
                 \*   lenEx    sizeof(WORD) for an object without packet headers, else 0
                 \*   payload  the sizes of what the peer sends
                 \*   stream   its cells, one after the other; <<p, k>> is the
                 \*            k-th cell of packet p
                 \*   start    how many cells there are before each packet
  HeaderSize     \* sizeof(PACKET_HEADER)

VARIABLES
  traffic,       \* which of them it is
  bound,         \* m_pNetworkObject # NULL
  early,         \* text was read before that
  taken,         \* cells of the stream that recv() has returned
  io,            \* DoRecv: what it is at, its len and lenEx, and recv's ret
  unreported,    \* the socket may hold more, and no event will say so
  pc, size,      \* GetFirstPacketPtr and its caller, and nPktSize
  heard,         \* what OnRecv was given, header included
  removed        \* m_bRemove

recvVars == <<qvars, traffic, bound, early, taken, io, unreported, pc, size, heard, removed>>

-----------------------------------------------------------------------------
LenEx == traffic.lenEx

Stream == traffic.stream

Packet == 1..Len(traffic.payload)

SizeIn(t, p) == HeaderSize - t.lenEx + t.payload[p]

PacketSize(p) == SizeIn(traffic, p)

Cells(p) == [k \in 1..PacketSize(p) |-> <<p, k>>]

\* The header that DoRecv writes before n cells, and the size that a header has
\* in it, by its first cell.
Mark(ex, n) == [k \in 1..ex |-> <<0, n>>]

\* Two cells of text say any size.
SizesIn(c) ==
  IF LenEx = 0 THEN {PacketSize(c[1])}
  ELSE IF c[1] = 0 THEN {HeaderSize + c[2]} ELSE HeaderSize..(ExtraSize + 1)

\* The stream is the packets one after the other.
IsStream(t) ==
  LET n == Len(t.payload) IN
  /\ t.payload \in Seq(Nat \ {0}) /\ t.stream \in Seq(Element)
  /\ t.start \in [1..(n + 1) -> Nat] /\ t.start[1] = 0 /\ t.start[n + 1] = Len(t.stream)
  /\ \A p \in 1..n :
       /\ t.start[p + 1] = t.start[p] + SizeIn(t, p)
       /\ \A k \in 1..SizeIn(t, p) : t.stream[t.start[p] + k] = <<p, k>>
  /\ \A i \in 1..Len(t.stream) : \E p \in 1..n : t.start[p] < i /\ i <= t.start[p + 1]

\* The extra area is as long as the longest packet; the ring is longer.
ASSUME RecvConstants ==
  /\ HeaderSize \in Nat \ {0}
  /\ \A t \in Traffic :
       /\ t.lenEx \in {0, HeaderSize} /\ IsStream(t)
       /\ t.lenEx = 0 =>
            \A p \in 1..Len(t.payload) : SizeIn(t, p) <= ExtraSize /\ SizeIn(t, p) <= Size
       /\ t.lenEx > 0 => \A n \in 1..(Size - t.lenEx) : <<0, n>> \in Element

Away == [at |-> "away", len |-> 0, ex |-> 0, ret |-> 0]

RecvInit ==
  /\ QueueInit
  /\ traffic \in Traffic
  /\ bound = (LenEx = 0) /\ early = FALSE
  /\ taken = 0
  /\ io = Away /\ unreported = FALSE
  /\ pc = "peek" /\ size = 0
  /\ heard = <<>>
  /\ removed = FALSE

-----------------------------------------------------------------------------
\* DoRecv.
mainVars == <<traffic, bound, pc, size, heard>>

\* Something has arrived while DoRecv is away, and the event that epoll reports
\* of it, once, is lost: AddIoEvent finds the queue full, or its signal finds no
\* io thread in Wait and no other one follows.
EventLost ==
  /\ io.at = "away" /\ taken < Len(Stream) /\ ~unreported
  /\ unreported' = TRUE
  /\ UNCHANGED <<qvars, early, taken, io, mainVars, removed>>

\* An event is taken up, or DoRecv goes round again.  A full ring ends the
\* session.
GetRecvParam ==
  /\ io.at \in {"away", "again"}
  /\ taken < Len(Stream) \/ io.at = "again"
  /\ unreported' = FALSE
  /\ IF ~removed /\ GetWritableLen > 0
     THEN /\ io' = [at |-> "recv", len |-> GetWritableLen, ex |-> IF bound THEN LenEx ELSE 0, ret |-> 0]
          /\ UNCHANGED removed
     ELSE /\ io' = Away
          /\ removed' = TRUE
  /\ UNCHANGED <<qvars, early, taken, mainVars>>

\* recv() returns some of the stream,
Recv ==
  /\ io.at = "recv"
  /\ \E n \in 1..(io.len - io.ex) :
       /\ taken + n <= Len(Stream)
       /\ Deposit(Mark(io.ex, n) \o SubSeq(Stream, taken + 1, taken + n))
       /\ taken' = taken + n
       /\ io' = [io EXCEPT !.at = "store", !.ret = n]
  /\ early' = (early \/ io.ex < LenEx)
  /\ UNCHANGED <<mainVars, unreported, removed>>

\* or fails with EAGAIN: nothing more has arrived.
RecvNothing ==
  /\ io.at = "recv"
  /\ io' = Away
  /\ UNCHANGED <<qvars, early, taken, unreported, mainVars, removed>>

\* With as many cells as the header needs recv() is asked for none, and its 0
\* is taken for the peer's close.
RecvZero ==
  /\ io.at = "recv" /\ io.len = io.ex /\ taken < Len(Stream)
  /\ io' = Away /\ removed' = TRUE
  /\ UNCHANGED <<qvars, early, taken, unreported, mainVars>>

\* With fewer, its length is that of a negative int: what arrives is written
\* outside the space that is free.  The model goes no further.
RecvOverruns ==
  /\ io.at = "recv" /\ io.len < io.ex /\ taken < Len(Stream)
  /\ io' = [io EXCEPT !.at = "overrun"]
  /\ UNCHANGED <<qvars, early, taken, unreported, mainVars, removed>>

\* Completion(); a read that filled the space goes round again, one that left
\* room for a header does not, though the socket may hold more.
RecvCompletion ==
  /\ io.at = "store"
  /\ EnqueueInPlace(io.ret + io.ex)
  /\ io' = IF io.ret < io.len THEN Away ELSE [Away EXCEPT !.at = "again"]
  /\ unreported' = (io.ex > 0 /\ io.ret + io.ex = io.len)
  /\ UNCHANGED <<early, taken, mainVars, removed>>

\* What the peer has sent has arrived.
RecvArrived == Recv \/ RecvZero \/ RecvOverruns

DoRecv == GetRecvParam \/ RecvArrived \/ RecvNothing \/ RecvCompletion

\* What is bound to happen of it: no thread reads for an event that is lost.
DoRecvReported == DoRecv /\ ~unreported

-----------------------------------------------------------------------------
\* GetFirstPacketPtr and ProcessRecvdPacket.
ioVars == <<traffic, early, taken, io, unreported, removed>>

\* BindNetworkObject, in the Update that accepts the session.
Bind ==
  /\ ~bound /\ bound' = TRUE
  /\ UNCHANGED <<qvars, ioVars, pc, size, heard>>

Overrun == io.at = "overrun"

\* Peek at the header; the size in it is that of the packet it belongs to.
PeekHeader ==
  /\ pc = "peek" /\ CanPeek(HeaderSize) /\ bound /\ ~Overrun
  /\ size' \in SizesIn(PeekData(HeaderSize)[1])
  /\ pc' = "length"
  /\ UNCHANGED <<qvars, ioVars, bound, heard>>

\* Mutant: a packet that fills the buffer exactly is not seen.
CheckLengthLess ==
  /\ pc = "length"
  /\ pc' = IF length <= size THEN "peek" ELSE "copy"
  /\ UNCHANGED <<qvars, ioVars, bound, size, heard>>

CheckLength ==
  /\ pc = "length"
  /\ pc' = IF length < size THEN "peek" ELSE "copy"
  /\ UNCHANGED <<qvars, ioVars, bound, size, heard>>

\* Mutant: left to GetReadPtr, which copies too.
CopySplitNever ==
  /\ pc = "copy"
  /\ UNCHANGED qvars
  /\ pc' = "pointer"
  /\ UNCHANGED <<ioVars, bound, size, heard>>

\* A packet that wraps is completed behind the end of the ring.
CopySplit ==
  /\ pc = "copy"
  /\ IF GetBackDataCount < size
     THEN CopyHeadDataToExtraBuffer(size - GetBackDataCount)
     ELSE UNCHANGED qvars
  /\ pc' = "pointer"
  /\ UNCHANGED <<ioVars, bound, size, heard>>

ReadPointer ==
  /\ pc = "pointer"
  /\ GetReadPtr
  /\ pc' = "recv"
  /\ UNCHANGED <<ioVars, bound, size, heard>>

\* A packet of no size, or longer than dwMaxPacketSize, which is the size of the
\* extra area, has the session removed.
Legal == size > HeaderSize /\ size <= ExtraSize

Malformed ==
  /\ pc = "recv" /\ ~Legal
  /\ pc' = "given up" /\ removed' = TRUE
  /\ UNCHANGED <<qvars, traffic, bound, early, taken, io, unreported, size, heard>>

\* OnRecv reads the packet where it is.
OnRecv ==
  /\ pc = "recv" /\ Legal
  /\ heard' = Append(heard, [i \in 1..size |-> data[head + i - 1]])
  /\ pc' = "remove"
  /\ UNCHANGED <<qvars, ioVars, bound, size>>

RemoveFirstPacket ==
  /\ pc = "remove"
  /\ Dequeue(size)
  /\ pc' = "peek"
  /\ UNCHANGED <<ioVars, bound, size, heard>>

ProcessRecvdPacket ==
  Bind \/ PeekHeader \/ CheckLength \/ CopySplit \/ ReadPointer \/ Malformed \/ OnRecv \/ RemoveFirstPacket

RecvNext == EventLost \/ DoRecv \/ ProcessRecvdPacket

RecvSpec == RecvInit /\ [][RecvNext]_recvVars

\* The main thread calls Update for ever, an io thread that took an event up
\* finishes what it began, and what the peer has sent arrives: recv cannot fail
\* with EAGAIN for ever.  An event is taken up unless it is lost, which nothing
\* prevents.
RecvFairness ==
  WF_recvVars(ProcessRecvdPacket) /\ WF_recvVars(DoRecvReported) /\ SF_recvVars(RecvArrived)

FairRecvSpec == RecvSpec /\ RecvFairness

-----------------------------------------------------------------------------
RecvType ==
  /\ QueueType
  /\ traffic \in Traffic
  /\ taken \in 0..Len(Stream)
  /\ io \in [at : {"away", "recv", "store", "again", "overrun"}, len : 0..Size, ex : {0, LenEx}, ret : 0..Size]
  /\ bound \in BOOLEAN /\ early \in BOOLEAN /\ removed \in BOOLEAN /\ unreported \in BOOLEAN
  /\ size \in 0..(Size + ExtraSize + 1)
  /\ pc \in {"peek", "length", "copy", "pointer", "recv", "remove", "given up"}
  /\ heard \in Seq(Seq(Element \cup {Blank}))

\* Each packet is handed over once, whole and in order, wherever the ring
\* splits it and whatever an io thread stores meanwhile: GetFirstPacketPtr's
\* four locked calls and the unlocked read add up (RecvBuffer.h:30-45,
\* Session.cpp:99-109).
WholePackets ==
  LenEx = 0 => \A i \in 1..Len(heard) : i \in Packet /\ heard[i] = Cells(i)

\* The place of a cell in the stream, and how far the first i pieces come.
Place(c) == traffic.start[c[1]] + c[2]

HeardUpTo(i) == IF i = 0 THEN 0 ELSE Place(heard[i][Len(heard[i])])

\* Text without headers is handed over in pieces, each behind a header that is
\* right for it, and the pieces are the text as it was sent: the header written
\* over the ring by an io thread never lies on text or among it.  Only text that
\* was read before the session had its object is cut up as its own first two
\* cells say (Session.cpp:198-224, SyncHandler.cpp:351-358, RecvBuffer.h:30-45).
TextWhole ==
  LenEx > 0 /\ ~early =>
    \A i \in 1..Len(heard) :
      LET n    == Len(heard[i]) - LenEx
          from == HeardUpTo(i - 1)
      IN  n > 0 /\ heard[i] = Mark(LenEx, n) \o SubSeq(Stream, from + 1, from + n)

\* What has been read, and what of it is not yet stored.
Stored == taken - (IF io.at = "store" THEN io.ret ELSE 0)

\* What has been taken off the ring of what was heard.
Removed == HeardUpTo(IF pc = "remove" THEN Len(heard) - 1 ELSE Len(heard))

\* The queued cells of text are in order: after each one comes the next one of
\* the stream, or a header and then the next one, or nothing has been stored
\* since; and they begin with a header and the first one not yet removed.
TextInRing ==
  LET Header(i) == \A k \in 1..LenEx : i + k <= length /\ Contents[i + k] = Contents[i + 1] /\ Contents[i + k][1] = 0
      Text(i, n) == i <= length /\ Contents[i] = Stream[n]
  IN  IF length = 0 THEN Removed = Stored
      ELSE /\ Header(0) /\ Text(LenEx + 1, Removed + 1)
           /\ \A i \in 1..length :
                Contents[i][1] # 0 =>
                  LET n == Place(Contents[i]) IN
                  \/ i = length /\ n = Stored
                  \/ Text(i + 1, n + 1)
                  \/ Header(i) /\ Text(i + LenEx + 1, n + 1)

\* The ring holds the stream without a gap: a read into GetWritePtr() touches
\* no cell still queued and is where Enqueue(NULL, ret) expects it
\* (Session.cpp:192-224, CircuitQueue.h:110-147).
RingIntact ==
  /\ LenEx = 0 => Contents = SubSeq(Stream, Stored - length + 1, Stored)
  /\ LenEx > 0 /\ ~early => TextInRing

\* What the buffer owes the main thread.
HeardWhole == RecvType /\ WholePackets /\ TextWhole /\ RingIntact

\* The io thread's events may be lost, what it stored may not: everything whole
\* in the ring has been handed over, and all of the stream has been read unless
\* no event tells of the rest.
HeardOrEnded ==
  \/ removed \/ Overrun \/ early
  \/ /\ IF LenEx = 0 THEN \A p \in Packet : traffic.start[p + 1] <= Stored => p <= Len(heard)
                      ELSE length = 0
     /\ taken = Len(Stream) \/ unreported
=============================================================================
