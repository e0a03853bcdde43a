----------------------------- MODULE SendBuffer -----------------------------
(***************************************************************************)
(* Network/SendBuffer.h and the threads around it.  The main thread writes *)
(* header and body of a packet (Session::Send); the send thread queues the *)
(* session when there is something to send (PreSend); an io thread sends   *)
(* from the ring in place (DoSend); the epoll thread tells when a socket   *)
(* that was full can be written again (OnSend).  DoSend and OnSend hold    *)
(* m_lockSend; Send and PreSend do not.                                    *)
(*                                                                         *)
(* One session whose peer stays.  To an object without packet headers      *)
(* (NotPackageHeader, the clients of LoginSrv) DoSend leaves out the first *)
(* LenEx cells of whatever it finds in the ring, and takes them off too.   *)
(***************************************************************************)
EXTENDS CircuitQueue

CONSTANTS
  Traffic,       \* what a session can be, and send; a set of records of
                 \*   lenEx    sizeof(WORD) for an object without packet headers, else 0
                 \*   payload  the sizes of what the application sends
                 \*   start    how many cells are written before each packet
  HeaderSize,    \* sizeof(PACKET_HEADER)
  SocketSize,    \* what the socket takes before it blocks
  MaxEvents      \* bound of the model: events queued for this session

VARIABLES
  traffic,       \* which of them it is
  next, at,      \* Send: the packet it is at, and its header or body
  complete,      \* m_bComplete
  canSend,       \* m_bCanSend
  removed,       \* m_bRemove
  events,        \* entries of the session in the event queue
  sender,        \* DoSend: what it is at, its len and send's ret
  room, wire,    \* space in the socket, and all it was given
  armed, edge,   \* epoll: EPOLLOUT is asked for, and to be reported
  epoll,         \* what the epoll thread is at
  mangled        \* without headers: a DoSend had not one whole packet to send

-----------------------------------------------------------------------------
LenEx == traffic.lenEx

Payload == traffic.payload

Packet == 1..Len(Payload)

\* The k-th cell of packet p is <<p, k>>.
Header(p) == [k \in 1..HeaderSize |-> <<p, k>>]

Body(p) == [k \in 1..Payload[p] |-> <<p, HeaderSize + k>>]

\* Packets are written one after the other.
AreStarts(t) ==
  LET n == Len(t.payload) IN
  /\ t.start \in [1..(n + 1) -> Nat] /\ t.start[1] = 0
  /\ \A p \in 1..n :
       /\ t.start[p + 1] = t.start[p] + HeaderSize + t.payload[p]
       /\ \A q \in (p + 1)..(n + 1) : t.start[p + 1] <= t.start[q]

ASSUME SendConstants ==
  /\ HeaderSize \in Nat \ {0} /\ SocketSize \in Nat \ {0} /\ MaxEvents \in Nat \ {0}
  /\ \A t \in Traffic :
       /\ t.lenEx \in {0, HeaderSize}
       /\ t.payload \in Seq(Nat) /\ AreStarts(t)
       /\ \A p \in 1..Len(t.payload) : \A k \in 1..(HeaderSize + t.payload[p]) : <<p, k>> \in Element

sendVars == <<qvars, traffic, next, at, complete, canSend, removed, events, sender, room, wire, armed, edge,
              epoll, mangled>>

Away == [at |-> "away", len |-> 0, ret |-> 0]

SendInit ==
  /\ QueueInit
  /\ traffic \in Traffic
  /\ next = 1 /\ at = "header"
  /\ complete = TRUE /\ canSend = TRUE /\ removed = FALSE
  /\ events = 0 /\ sender = Away
  /\ room = SocketSize /\ wire = <<>>
  /\ armed = FALSE /\ edge = FALSE /\ epoll = "wait" /\ mangled = FALSE

-----------------------------------------------------------------------------
\* The main thread: NetworkObject::Send, then the two Enqueues of Write.  One
\* that fails removes the session; the header stays.
sendPart == <<traffic, complete, canSend, events, sender, room, wire, armed, edge, epoll, mangled>>

WriteHeader ==
  /\ at = "header" /\ next \in Packet /\ ~removed
  /\ \/ Enqueue(Header(next)) /\ at' = "body" /\ UNCHANGED removed
     \/ GetSpace < HeaderSize /\ removed' = TRUE /\ UNCHANGED <<qvars, at>>
  /\ UNCHANGED <<next, sendPart>>

WriteBody ==
  /\ at = "body"
  /\ \/ Enqueue(Body(next)) /\ next' = next + 1 /\ at' = "header" /\ UNCHANGED removed
     \/ GetSpace < Payload[next] /\ removed' = TRUE /\ at' = "given up" /\ UNCHANGED <<qvars, next>>
  /\ UNCHANGED sendPart

-----------------------------------------------------------------------------
mainPart == <<traffic, next, at, removed>>

IsReadyToSend == complete /\ length > 0

\* The send thread, every ten milliseconds.
PreSend ==
  /\ ~removed /\ canSend /\ IsReadyToSend
  /\ events < MaxEvents
  /\ events' = events + 1
  /\ UNCHANGED <<qvars, mainPart, complete, canSend, sender, room, wire, armed, edge, epoll, mangled>>

\* DoSend, under m_lockSend from here to DoneSending.
TakeEvent ==
  /\ sender.at = "away" /\ events > 0
  /\ events' = events - 1
  /\ sender' = IF canSend /\ ~removed /\ IsReadyToSend THEN [sender EXCEPT !.at = "pointer"] ELSE sender
  /\ UNCHANGED <<qvars, mainPart, complete, canSend, room, wire, armed, edge, epoll, mangled>>

\* Two calls of the ring: the main thread may write between them.
ReadPointer ==
  /\ sender.at = "pointer"
  /\ GetReadPtr
  /\ sender' = [sender EXCEPT !.at = "length"]
  /\ UNCHANGED <<mainPart, complete, canSend, events, room, wire, armed, edge, epoll, mangled>>

ReadLength ==
  /\ sender.at = "length"
  /\ sender' = [sender EXCEPT !.at = "send", !.len = GetReadableLen]
  /\ complete' = FALSE
  /\ UNCHANGED <<qvars, mainPart, canSend, events, room, wire, armed, edge, epoll, mangled>>

\* What lies at the read pointer is not one packet, header and body.
NotOnePacket ==
  [i \in 1..sender.len |-> data[head + i - 1]] \notin {Header(p) \o Body(p) : p \in Packet}

\* send() takes some of it from where it lies, or all,
SendSome ==
  /\ sender.at = "send" /\ sender.len >= LenEx
  /\ \E n \in 0..(sender.len - LenEx) :
       /\ n <= room /\ (n = 0 => sender.len = LenEx)
       /\ wire' = wire \o [i \in 1..n |-> data[head + LenEx + i - 1]]
       /\ room' = room - n
       /\ sender' = [sender EXCEPT !.at = "completion", !.ret = n]
       /\ mangled' = (mangled \/ (LenEx > 0 /\ (NotOnePacket \/ n < sender.len - LenEx)))
  /\ UNCHANGED <<qvars, mainPart, complete, canSend, events, armed, edge, epoll>>

\* or would block.
SendBlocks ==
  /\ sender.at = "send" /\ sender.len > LenEx /\ room = 0
  /\ canSend' = FALSE
  /\ sender' = [sender EXCEPT !.at = "arm"]
  /\ mangled' = (mangled \/ LenEx > 0)
  /\ UNCHANGED <<qvars, mainPart, complete, events, room, wire, armed, edge, epoll>>

\* One cell less than is left out: the length is that of a negative int, and
\* what lies behind the ring is sent.  The model goes no further.
SendOverruns ==
  /\ sender.at = "send" /\ sender.len < LenEx
  /\ sender' = [sender EXCEPT !.at = "overrun"] /\ mangled' = TRUE
  /\ UNCHANGED <<qvars, mainPart, complete, canSend, events, room, wire, armed, edge, epoll>>

\* ModEpollEvent asks for EPOLLOUT, which may hold by now.
Arm ==
  /\ sender.at = "arm"
  /\ armed' = TRUE
  /\ edge' = (edge \/ room > 0)
  /\ sender' = [sender EXCEPT !.at = "completion"]
  /\ UNCHANGED <<qvars, mainPart, complete, canSend, events, room, wire, epoll, mangled>>

\* Mutants: all that could be read counts as sent; a send that blocked does
\* not come to Completion.
DoneSendingAll ==
  /\ sender.at = "completion"
  /\ Dequeue(sender.len)
  /\ complete' = TRUE
  /\ sender' = Away
  /\ UNCHANGED <<mainPart, canSend, events, room, wire, armed, edge, epoll, mangled>>

DoneSendingBlocked ==
  /\ sender.at = "completion"
  /\ Dequeue(sender.ret)
  /\ complete' = (sender.ret > 0)
  /\ sender' = Away
  /\ UNCHANGED <<mainPart, canSend, events, room, wire, armed, edge, epoll, mangled>>

\* Completion(ret + lenEx), after a send that would block as well.
DoneSending ==
  /\ sender.at = "completion"
  /\ Dequeue(sender.ret + LenEx)
  /\ complete' = TRUE
  /\ sender' = Away
  /\ UNCHANGED <<mainPart, canSend, events, room, wire, armed, edge, epoll, mangled>>

DoSend == ReadPointer \/ ReadLength \/ SendSome \/ SendBlocks \/ SendOverruns \/ Arm \/ DoneSending

-----------------------------------------------------------------------------
\* The epoll thread: EPOLLOUT is reported once, then OnSend under the lock,
\* then ModEpollEvent without it.
EpollWait ==
  /\ epoll = "wait" /\ edge
  /\ epoll' = "OnSend"
  /\ edge' = FALSE
  /\ UNCHANGED <<qvars, mainPart, complete, canSend, events, sender, room, wire, armed, mangled>>

OnSend ==
  /\ epoll = "OnSend" /\ sender.at = "away"
  /\ canSend' = TRUE
  /\ epoll' = "mod"
  /\ UNCHANGED <<qvars, mainPart, complete, events, sender, room, wire, armed, edge, mangled>>

Disarm ==
  /\ epoll = "mod"
  /\ armed' = FALSE /\ edge' = FALSE
  /\ epoll' = "wait"
  /\ UNCHANGED <<qvars, mainPart, complete, canSend, events, sender, room, wire, mangled>>

EpollThread == EpollWait \/ OnSend \/ Disarm

\* The peer reads what is in the socket.
PeerReads ==
  /\ room < SocketSize
  /\ room' = SocketSize
  /\ edge' = (edge \/ armed)
  /\ UNCHANGED <<qvars, mainPart, complete, canSend, events, sender, wire, armed, epoll, mangled>>

SendNext ==
  \/ WriteHeader \/ WriteBody
  \/ PreSend \/ TakeEvent \/ DoSend
  \/ EpollThread
  \/ PeerReads

SendSpec == SendInit /\ [][SendNext]_sendVars

\* The threads run, and the peer reads.  A signal lost to a busy io thread is
\* made up for: PreSend signals again while there is something to send.
SendFairness ==
  /\ WF_sendVars(WriteHeader \/ WriteBody)
  /\ WF_sendVars(PreSend) /\ WF_sendVars(TakeEvent \/ DoSend)
  /\ WF_sendVars(EpollThread) /\ SF_sendVars(OnSend)
  /\ WF_sendVars(PeerReads)

FairSendSpec == SendSpec /\ SendFairness

-----------------------------------------------------------------------------
SendType ==
  /\ QueueType
  /\ traffic \in Traffic
  /\ next \in 1..(Len(Payload) + 1) /\ at \in {"header", "body", "given up"}
  /\ {complete, canSend, removed, armed, edge, mangled} \subseteq BOOLEAN
  /\ events \in 0..MaxEvents /\ room \in 0..SocketSize
  /\ sender \in [at : {"away", "pointer", "length", "send", "arm", "completion", "overrun"},
                 len : 0..Size, ret : 0..Size]
  /\ wire \in Seq(Element)
  /\ epoll \in {"wait", "OnSend", "mod"}

\* How many cells main has written: whole packets, and perhaps a header.
Written == traffic.start[next] + (IF at = "header" THEN 0 ELSE HeaderSize)

\* The place of a cell among all that are written, and of one of a body among
\* the bodies.
Place(c) == traffic.start[c[1]] + c[2]

BodyPlace(c) == Place(c) - HeaderSize * c[1]

IsCell(c) == \E p \in Packet : \E k \in 1..(HeaderSize + Payload[p]) : c = <<p, k>>

\* s is what is written after the first n cells.
IsWritten(s, n) ==
  Len(s) = Written - n /\ \A i \in 1..Len(s) : IsCell(s[i]) /\ Place(s[i]) = n + i

\* Between Send and the socket nothing is lost, doubled or reordered: what the
\* socket was given and what is still queued make up what was written, through
\* partial sends, packets that wrap, and packets written while a send is under
\* way (SendBuffer.h:24-43, Session.cpp:141-181).
WireIntact == LenEx = 0 => IsWritten(wire \o SubSeq(Contents, sender.ret + 1, length), 0)

\* What is queued and has not been sent, and the packet it begins with.
Gone == IF sender.at = "completion" THEN sender.ret + LenEx ELSE 0

Rest == SubSeq(Contents, Gone + 1, length)

First == IF Rest # <<>> THEN Rest[1][1] ELSE IF at = "header" THEN next ELSE next + 1

\* A client without headers is sent the bodies of the packets as they were
\* written, and the packets from then on are queued, unless some DoSend found
\* anything but one whole packet in one piece
\* (a header whose body was not yet written, two packets, one that wraps), or
\* could send only a part of it, or would block: then it leaves out two cells
\* of a body or sends a header (Session.cpp:151-180, SendBuffer.h:39-43).
BodiesSent ==
  LenEx > 0 /\ ~mangled =>
    /\ IsWritten(Rest, traffic.start[First])
    /\ Len(wire) = traffic.start[First] - HeaderSize * (First - 1)
    /\ \A i \in 1..Len(wire) : IsCell(wire[i]) /\ wire[i][2] > HeaderSize /\ BodyPlace(wire[i]) = i

\* What the buffer owes the peer.
SentWhole == SendType /\ WireIntact /\ BodiesSent

\* The session waits for EPOLLOUT, and nobody has asked for it.
Deaf == ~canSend /\ ~armed /\ epoll = "wait" /\ sender.at \notin {"arm"}

SentOrStalled == removed \/ Deaf \/ sender.at = "overrun" \/ (next > Len(Payload) /\ length = 0)
=============================================================================
