---------------------------- MODULE SyncHandler ----------------------------
(***************************************************************************)
(* Network/SyncHandler.cpp: the main thread of a server and the accept,    *)
(* connect, epoll, io and send threads, over one set of sessions.          *)
(***************************************************************************)
EXTENDS SyncUpdate, SyncThreads, Functions

\* SessionPool::Create: the sessions of a pool, in order of creation.
Pooled(S) == CHOOSE f \in Bijection(1..Cardinality(S), S) : TRUE

Init ==
  /\ list = [p \in Place |-> CASE p = "acceptPool"  -> Pooled(AcceptSession)
                               [] p = "connectPool" -> Pooled(ConnectSession)
                               [] OTHER             -> <<>>]
  /\ sock = [s \in Session |-> 0]
  /\ remove = [s \in Session |-> FALSE]
  /\ ordered = [s \in Session |-> FALSE]
  /\ canSend = [s \in Session |-> TRUE]
  /\ unsent = [s \in Session |-> FALSE]
  /\ complete = [s \in Session |-> TRUE]
  /\ recvBuf = [s \in Session |-> <<>>]
  /\ obj = [s \in Session |-> 0]
  /\ objSess = [c \in Conn |-> NULL]
  /\ life = [c \in Conn |-> "none"]
  /\ inbox = [c \in Conn |-> <<>>]
  /\ numActive = 0 /\ pc = "idle" /\ cur = 1 /\ net = 0
  /\ ioq = <<>> /\ io = [t \in IoThread |-> Idle]
  /\ fetched = {} /\ reg = [c \in Conn |-> NULL] /\ armed = {} /\ edge = {}
  /\ accSock = 0 /\ sem = 0 /\ draining = FALSE
  /\ made = 0
  /\ peer = [c \in Conn |-> "none"]
  /\ sent = [c \in Conn |-> 0] /\ read = [c \in Conn |-> 0]

Next ==
  \/ Connect \/ Update
  \/ AcceptSocket \/ AcceptPush
  \/ ConnectThread
  \/ EpollWait \/ EpollHandle
  \/ PreSend
  \/ \E t \in IoThread : IoTake(t) \/ IoStep(t)
  \/ Peer

Spec == Init /\ [][Next]_vars

\* The threads run; an io thread that has taken an event deals with it.  It is
\* not assumed that an io thread is ever woken up, nor that a peer does anything.
Fairness ==
  /\ WF_vars(Update)
  /\ WF_vars(AcceptPush) /\ WF_vars(ConnectThread)
  /\ WF_vars(EpollWait) /\ WF_vars(EpollHandle)
  /\ \A t \in IoThread : WF_vars(IoStep(t))

FairSpec == Spec /\ Fairness

-----------------------------------------------------------------------------
Packet == Conn \X (1..MaxSent)

TypeOK ==
  /\ list \in [Place -> Seq(Session)]
  /\ sock \in [Session -> Conn \cup {0}]
  /\ {remove, ordered, canSend, unsent, complete} \subseteq [Session -> BOOLEAN]
  /\ recvBuf \in [Session -> Seq(Packet)]
  /\ obj \in [Session -> Conn \cup {0}]
  /\ objSess \in [Conn -> Session \cup {NULL}]
  /\ life \in [Conn -> {"none", "opening", "open", "failed", "closed"}]
  /\ inbox \in [Conn -> Seq(Packet)]
  /\ numActive \in 0..Cardinality(Session)
  /\ net \in Conn \cup {0} /\ accSock \in Conn \cup {0} /\ sem \in Nat
  /\ ioq \in Seq(Session \X {"recv", "send"}) /\ Len(ioq) <= QueueSize
  /\ reg \in [Conn -> Session \cup {NULL}]
  /\ armed \subseteq Conn /\ edge \subseteq Conn \X {"in", "out", "hup"}
  /\ \A s \in Session : Len(recvBuf[s]) <= RecvSize

On(p) == {list[p][i] : i \in 1..Len(list[p])}

\* Every session is on exactly one list, or held by exactly one thread,
\* whatever pops and pushes the five threads make under the lists' separate
\* locks: SessionPool::Free's assertion (SessionPool.cpp:97) and the links
\* inside the sessions depend on it.
ImplementsLists == Lists!Spec

\* The callbacks an application gets are those of NetworkObjects: an object
\* hears its own peer only, in order, and nothing once it is told that it is
\* closed, although its session is used again while the epoll and io threads
\* still hold events of the connection before (SyncHandler.cpp:22-41, 65-84,
\* 265-277).
ImplementsObjects == Objects!Spec

\* m_numActiveSessions, changed in three places of Update and tested in a
\* fourth, counts the sessions that are active, about to join, or being kicked
\* (SyncHandler.cpp:308, 342, 361, 430).
CountAgrees ==
  numActive = Len(list["active"])
              + (IF pc \in {"accepted", "accept"} THEN Len(list["joining"]) ELSE 0)
              + (IF pc \in {"scan", "kick", "kicked"} THEN Len(list["template"]) ELSE 0)

\* Session and NetworkObject point at each other, a running session at the
\* object of its own connection, and a session goes back to its pool with
\* neither object nor socket (Session.cpp:249-263, SyncHandler.cpp:265-330).
BoundRight ==
  /\ \A s \in Session, c \in Conn : obj[s] = c <=> objSess[c] = s
  /\ \A s \in On("active") \cup On("joining") : obj[s] = sock[s] /\ life[obj[s]] = "open"
  /\ \A s \in On("acceptPool") \cup On("connectPool") : obj[s] = 0 /\ sock[s] = 0

\* epoll reports a socket to the session that has it, and only to sessions the
\* main thread has in hand: none in a pool or on its way to the main thread
\* (SyncHandler.cpp:297, 350, 434).
RegisteredRight ==
  \A c \in Conn : reg[c] # NULL =>
     /\ sock[reg[c]] = c
     /\ reg[c] \in On("active") \cup On("joining") \cup On("main") \cup On("template")

\* What a session is bound to and what epoll knows of it agree at every step of
\* every thread, and the state stays within its bounds (SyncHandler.cpp:265-371,
\* 407-445).
SessionsRight == TypeOK /\ BoundRight /\ RegisteredRight

\* What io threads have read from the socket of s and not yet stored.
InFlight(s) ==
  LET busy == {t \in IoThread : io[t].s = s /\ io[t].got # <<>>}
  IN  IF busy = {} THEN <<>> ELSE io[CHOOSE t \in busy : TRUE].got

\* Until a session is removed, nothing that was read from its socket is lost,
\* repeated or out of order: the object has heard the start of it, the receive
\* buffer has the rest but for what an io thread is about to store, however
\* many io threads work for the session (Session.cpp:93-119, 183-230).
StreamIntact ==
  \A s \in On("active") \cup On("joining") :
    ~remove[s] =>
      inbox[sock[s]] \o recvBuf[s] \o InFlight(s) = [i \in 1..read[sock[s]] |-> <<sock[s], i>>]

\* While the peer has not reset the connection, a session that still runs is
\* not stuck with m_bComplete unset, which would stop its sends for good: the
\* io thread that unset it is about to set it again, whichever threads compete
\* for the buffer (SendBuffer.h:22-38, Session.cpp:129-181).
SendNotStuck ==
  \A s \in On("active") \cup On("joining") :
    ~complete[s] /\ ~remove[s] /\ peer[sock[s]] # "rst" =>
      \E t \in IoThread : io[t].s = s /\ io[t].at = "send"

\* A connection that is reset is closed in the end: the epoll thread alone
\* sees to it, without an io thread (SyncHandler.cpp:24-27, 407-445).
ResetIsClosed ==
  \A c \in Conn : peer[c] = "rst" /\ life[c] = "open" ~> life[c] = "closed"

\* Every Connect is answered by a call of OnConnect, of either kind, although
\* the connect thread counts wake-ups and empties the list at each
\* (Connector.cpp:11-54, SyncHandler.cpp:206-228, 284-330).
ConnectAnswered ==
  \A c \in Conn : life[c] = "opening" ~> life[c] \in {"open", "failed", "closed"}

\* A connection of which the peer has closed, reset and sent nothing is not to
\* be removed once a session that served another one has been accepted for it:
\* the first thing OnAccept does is to reset the flag (Session.cpp:267,
\* Session.h:57).  With AppOps empty the application does not set it again.
AcceptResetsFlag ==
  [][\A s \in Session :
       /\ AppOps = {}
       /\ pc = "accept" /\ s = At("main") /\ pc' = "accepted"
       /\ peer[sock[s]] = "up" /\ sent[sock[s]] = 0
       /\ \E c \in 1..(sock[s] - 1) : life[c] = "closed"
       => ~remove'[s]]_vars
=============================================================================
