------------------------------ MODULE Session ------------------------------
(***************************************************************************)
(* The state the threads of one SyncHandler share, and the operations of   *)
(* Network/Session, SessionPool, SendBuffer, RecvBuffer and the session    *)
(* lists on it.                                                            *)
(*                                                                         *)
(* A connection is named by a number; the socket of a session is that      *)
(* number, 0 for INVALID_SOCKET, and the NetworkObject created for it (or  *)
(* that asked for it) has its number too.  What a peer sends is abstracted *)
(* to whole packets <<c, n>>, the n-th of connection c.                    *)
(***************************************************************************)
EXTENDS Naturals, Sequences, FiniteSets

CONSTANTS
  AcceptSession,   \* m_pAcceptSessionPool
  ConnectSession,  \* m_pConnectSessionPool
  IoThread,        \* m_hIoThread
  MaxAccept,       \* m_dwMaxAcceptSession
  QueueSize,       \* capacity of m_pEvents
  RecvSize,        \* capacity of a receive buffer, in packets
  HasTimeOut,      \* m_dwTimeOut # 0
  AppOps,          \* what the application does in its callbacks
  MaxConns,        \* bound of the model: connections ever made
  MaxSent,         \* bound of the model: packets a peer sends
  NULL

Session == AcceptSession \cup ConnectSession

ASSUME SyncAssumption ==
  /\ AcceptSession \cap ConnectSession = {}
  /\ IsFiniteSet(AcceptSession) /\ IsFiniteSet(ConnectSession)
  /\ MaxAccept \in Nat /\ QueueSize \in Nat /\ RecvSize \in Nat
  /\ MaxConns \in Nat /\ MaxSent \in Nat
  /\ HasTimeOut \in BOOLEAN
  /\ AppOps \subseteq {"send", "disconnect", "order"}
  /\ NULL \notin Session

VARIABLES
  list,        \* the session lists, and the sessions threads hold
  sock,        \* m_socket
  remove,      \* m_bRemove
  ordered,     \* m_bDisconnectOrdered
  canSend,     \* m_bCanSend
  unsent,      \* the send buffer is not empty
  complete,    \* the send buffer's m_bComplete
  recvBuf,     \* the packets in the receive buffer
  obj,         \* m_pNetworkObject, 0 = NULL
  objSess,     \* objSess[o]: m_pSession of NetworkObject o
  life,        \* what NetworkObject o has been told
  inbox,       \* what its OnRecv was given
  numActive,   \* m_numActiveSessions
  pc, cur,     \* the main thread: where in Update, and its iterator
  net,         \* KickDeadSession's pNet, 0 = none
  ioq,         \* m_pEvents
  io,          \* what an io thread is doing
  fetched,     \* the epoll thread's events array, what is left of it
  reg,         \* epoll: the session a socket is registered with
  armed,       \* epoll: sockets registered for EPOLLOUT
  edge,        \* epoll: events not yet fetched, <<socket, kind>>
  accSock,     \* the accept thread's sock, 0 = it is in accept()
  sem,         \* m_semConnect
  draining,    \* the connect thread is in its inner loop
  made,        \* connections made so far
  peer,        \* the other end: none, up, fin (closed), rst (reset)
  sent, read   \* packets sent by the peer, and received from the socket

sessVars == <<sock, remove, ordered, canSend, unsent, complete, recvBuf>>
objVars  == <<obj, objSess, life, inbox>>
mainVars == <<numActive, pc, cur, net>>
ioVars   == <<ioq, io>>
pollVars == <<fetched, reg, armed, edge>>
makeVars == <<accSock, sem, draining>>
peerVars == <<made, peer, sent, read>>
vars == <<list, sessVars, objVars, mainVars, ioVars, pollVars, makeVars, peerVars>>

-----------------------------------------------------------------------------
Conn == 1..MaxConns

\* The SessionLists, and the threads between a pop and a push: main is
\* ProcessAcceptedSessionList and ProcessConnectSuccessList's pSession, and
\* joining their local activeList.
Place == {"acceptPool", "connectPool", "active", "accepted", "success", "fail",
          "template", "connecting", "joining", "main", "acceptor", "connector"}

Lists == INSTANCE SessionLists

Objects == INSTANCE NetworkObjects WITH Object <- Conn

IsAcceptSocket(s) == s \in AcceptSession

PoolOf(s) == IF IsAcceptSocket(s) THEN "acceptPool" ELSE "connectPool"

MoveHead(p, q) == list[p] # <<>> /\ list' = Lists!Moved(list, p, 1, q)

Splice(p, q) == list' = Lists!Spliced(list, p, q)

Removed(s) == remove' = [remove EXCEPT ![s] = TRUE]

\* Mutant: the flag is reset.
ResetKillFlagReally(s) == [remove EXCEPT ![s] = FALSE]

\* m_bRemove after ResetKillFlag(), which adds 0 to the flag of s.
ResetKillFlag(s) == remove

InitSession(s) ==
  /\ recvBuf' = [recvBuf EXCEPT ![s] = <<>>]
  /\ unsent' = [unsent EXCEPT ![s] = FALSE]
  /\ complete' = [complete EXCEPT ![s] = TRUE]
  /\ ordered' = [ordered EXCEPT ![s] = FALSE]
  /\ canSend' = [canSend EXCEPT ![s] = TRUE]
  /\ remove' = ResetKillFlag(s)

\* CloseSocket(): the kernel drops the socket from the epoll set too.
CloseSocket(s) ==
  /\ sock' = [sock EXCEPT ![s] = 0]
  /\ reg' = [c \in Conn |-> IF c = sock[s] THEN NULL ELSE reg[c]]
  /\ edge' = {e \in edge : e[1] # sock[s]}
  /\ armed' = armed \ {sock[s]}

\* FreeSession(pSession) of the session at the head of p.
FreeSession(p) ==
  LET s == Head(list[p])
  IN  /\ CloseSocket(s)
      /\ InitSession(s)
      /\ MoveHead(p, PoolOf(s))

\* BindNetworkObject and UnbindNetworkObject, on the functions obj, objSess.
Bind(s, o) ==
  /\ obj' = [obj EXCEPT ![s] = o]
  /\ objSess' = [objSess EXCEPT ![o] = s]

\* Mutant: the object keeps its pointer to the session.
UnbindHalf(s) == obj' = [obj EXCEPT ![s] = 0] /\ UNCHANGED objSess

Unbind(s) ==
  /\ objSess' = [o \in Conn |-> IF o = obj[s] THEN NULL ELSE objSess[o]]
  /\ obj' = [obj EXCEPT ![s] = 0]

Told(o, what) == life' = [life EXCEPT ![o] = what]

\* What the application does with session s in a callback: nothing, Send,
\* Disconnect(TRUE) or Disconnect(FALSE) (NetworkObject.cpp:15-31); r, u and o
\* are remove, unsent and ordered as the callback finds them.
AppNothing(r, u, o) == remove' = r /\ unsent' = u /\ ordered' = o

\* Send(): when the send buffer has no room the session is removed.
AppSend(s, r, u, o) ==
  /\ "send" \in AppOps /\ ~o[s] /\ ~r[s]
  /\ unsent' = [u EXCEPT ![s] = TRUE]
  /\ ordered' = o
  /\ remove' \in {r, [r EXCEPT ![s] = TRUE]}

AppDisconnect(s, r, u, o) ==
  /\ "disconnect" \in AppOps
  /\ remove' = [r EXCEPT ![s] = TRUE]
  /\ unsent' = u /\ ordered' = o

AppOrder(s, r, u, o) ==
  /\ "order" \in AppOps
  /\ ordered' = [o EXCEPT ![s] = TRUE]
  /\ unsent' = u
  /\ remove' = r

AppReacts(s, r, u, o) ==
  \/ AppNothing(r, u, o) \/ AppSend(s, r, u, o)
  \/ AppDisconnect(s, r, u, o) \/ AppOrder(s, r, u, o)

-----------------------------------------------------------------------------
\* epoll, as the code uses it.  The events that hold now of a socket; ADD and
\* MOD report them again, edge-triggered or not.
Holds(c) ==
  (IF peer[c] = "rst" THEN {<<c, "hup">>} ELSE {})
    \cup (IF read[c] < sent[c] \/ peer[c] \in {"fin", "rst"} THEN {<<c, "in">>} ELSE {})

AddEpollEvent(s) ==
  /\ reg' = [reg EXCEPT ![sock[s]] = s]
  /\ edge' = edge \cup Holds(sock[s])
  /\ UNCHANGED <<armed, fetched>>

ModEpollEvent(s, out) ==
  LET c == sock[s]
  IN  IF c # 0 /\ reg[c] # NULL
      THEN /\ armed' = IF out THEN armed \cup {c} ELSE armed \ {c}
           /\ edge' = (IF out THEN edge ELSE edge \ {<<c, "out">>}) \cup Holds(c)
      ELSE UNCHANGED <<armed, edge>>

\* The result of Enqueue is ignored.
AddIoEvent(s, kind) ==
  ioq' = IF Len(ioq) < QueueSize THEN Append(ioq, <<s, kind>>) ELSE ioq
=============================================================================
