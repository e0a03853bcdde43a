---------------------------- MODULE SyncThreads ----------------------------
(***************************************************************************)
(* The other threads of a SyncHandler - accept, connect, epoll, io and     *)
(* send - and the peers.                                                   *)
(***************************************************************************)
EXTENDS Session

\* Session::m_lockSend, which DoRecv, DoSend and OnSend hold.
Idle == [at |-> "idle", s |-> NULL, got |-> <<>>]

\* Mutant: two io threads work for one session at a time.
NeverLocked(s) == FALSE

Locked(s) == \E t \in IoThread : io[t].s = s /\ io[t].at \notin {"idle", "took recv", "took send"}

At1(p) == Head(list[p])

-----------------------------------------------------------------------------
\* accept_thread: accept() returns, and a session is taken from the pool; if
\* there is none, the socket is forgotten, still open.
AcceptSocket ==
  /\ accSock = 0
  /\ AcceptSession # {}
  /\ made < MaxConns
  /\ made' = made + 1
  /\ peer' = [peer EXCEPT ![made + 1] = "up"]
  /\ IF list["acceptPool"] = <<>>
     THEN UNCHANGED <<list, accSock>>
     ELSE /\ MoveHead("acceptPool", "acceptor")
          /\ accSock' = made + 1
  /\ UNCHANGED <<sessVars, objVars, mainVars, ioVars, pollVars, sem, draining, sent, read>>

AcceptPush ==
  /\ accSock # 0
  /\ sock' = [sock EXCEPT ![At1("acceptor")] = accSock]
  /\ MoveHead("acceptor", "accepted")
  /\ accSock' = 0
  /\ UNCHANGED <<remove, ordered, canSend, unsent, complete, recvBuf, objVars, mainVars,
                 ioVars, pollVars, sem, draining, peerVars>>

-----------------------------------------------------------------------------
\* connect_thread: sem_wait, then connect() for each session of the list.
ConnectWait ==
  /\ ~draining /\ sem > 0
  /\ sem' = sem - 1
  /\ draining' = TRUE
  /\ UNCHANGED <<list, sessVars, objVars, mainVars, ioVars, pollVars, accSock, peerVars>>

ConnectTake ==
  /\ draining /\ list["connector"] = <<>>
  /\ MoveHead("connecting", "connector")
  /\ UNCHANGED <<sessVars, objVars, mainVars, ioVars, pollVars, makeVars, peerVars>>

ConnectDone(result) ==
  /\ draining /\ list["connector"] # <<>>
  /\ MoveHead("connector", result)
  /\ peer' = IF result = "success"
             THEN [peer EXCEPT ![sock[At1("connector")]] = "up"] ELSE peer
  /\ UNCHANGED <<sessVars, objVars, mainVars, ioVars, pollVars, makeVars, made, sent, read>>

ConnectDrained ==
  /\ draining /\ list["connector"] = <<>> /\ list["connecting"] = <<>>
  /\ draining' = FALSE
  /\ UNCHANGED <<list, sessVars, objVars, mainVars, ioVars, pollVars, accSock, sem, peerVars>>

ConnectThread ==
  ConnectWait \/ ConnectTake \/ ConnectDone("success") \/ ConnectDone("fail") \/ ConnectDrained

-----------------------------------------------------------------------------
\* epoll_wait: all there is, one event for each socket.
Flags(c) == {e[2] : e \in {x \in edge : x[1] = c}}

EpollWait ==
  /\ fetched = {} /\ edge # {}
  /\ fetched' = {[s |-> reg[c], flags |-> Flags(c)] : c \in {e[1] : e \in edge}}
  /\ edge' = {}
  /\ UNCHANGED <<list, sessVars, objVars, mainVars, ioVars, reg, armed, makeVars, peerVars>>

\* One event after the other; its session may have been freed, and used again,
\* since.  A hang-up is all that is seen of its event.  OnSend lets go of the
\* lock before ModEpollEvent: "out" becomes "mod" in between.
Rest(ev, flags) == fetched' = (fetched \ {ev}) \cup (IF flags = {} THEN {} ELSE {[ev EXCEPT !.flags = flags]})

\* Mutant: a hang-up is left for an io thread to find out.
EpollHupToIo(ev) ==
  /\ "hup" \in ev.flags
  /\ AddIoEvent(ev.s, "recv")
  /\ Rest(ev, {})
  /\ UNCHANGED <<remove, canSend, edge, armed>>

EpollHup(ev) ==
  /\ "hup" \in ev.flags
  /\ Removed(ev.s)
  /\ Rest(ev, {})
  /\ UNCHANGED <<canSend, edge, armed, ioq>>

EpollOnSend(ev) ==
  /\ "hup" \notin ev.flags /\ "out" \in ev.flags
  /\ ~Locked(ev.s)
  /\ canSend' = [canSend EXCEPT ![ev.s] = TRUE]
  /\ Rest(ev, (ev.flags \ {"out"}) \cup {"mod"})
  /\ UNCHANGED <<remove, edge, armed, ioq>>

EpollMod(ev) ==
  /\ "mod" \in ev.flags
  /\ ModEpollEvent(ev.s, FALSE)
  /\ Rest(ev, ev.flags \ {"mod"})
  /\ UNCHANGED <<remove, canSend, ioq>>

EpollIn(ev) ==
  /\ ev.flags = {"in"}
  /\ AddIoEvent(ev.s, "recv")
  /\ Rest(ev, {})
  /\ UNCHANGED <<remove, canSend, edge, armed>>

EpollHandle ==
  /\ \E ev \in fetched : EpollHup(ev) \/ EpollOnSend(ev) \/ EpollMod(ev) \/ EpollIn(ev)
  /\ UNCHANGED <<list, sock, ordered, unsent, complete, recvBuf, objVars, mainVars, io, reg,
                 makeVars, peerVars>>

-----------------------------------------------------------------------------
\* send_thread: ProcessSend and PreSend for one active session.
PreSend ==
  \E i \in 1..Len(list["active"]) :
    LET s == list["active"][i]
    IN  /\ ~remove[s] /\ canSend[s] /\ complete[s] /\ unsent[s]
        /\ AddIoEvent(s, "send")
        /\ UNCHANGED <<list, sessVars, objVars, mainVars, io, pollVars, makeVars, peerVars>>

-----------------------------------------------------------------------------
\* io_thread: one event is taken; whether a wake-up comes is left open.
IoTake(t) ==
  /\ io[t] = Idle /\ ioq # <<>>
  /\ io' = [io EXCEPT ![t] = [Idle EXCEPT !.s = Head(ioq)[1],
                                          !.at = IF Head(ioq)[2] = "send" THEN "took send"
                                                 ELSE "took recv"]]
  /\ ioq' = Tail(ioq)
  /\ UNCHANGED <<list, sessVars, objVars, mainVars, pollVars, makeVars, peerVars>>

\* DoRecv: the lock, then the test of the loop and the space in the buffer.
RecvCheck(t) ==
  LET s == io[t].s
  IN  /\ \/ io[t].at = "took recv" /\ ~Locked(s)
         \/ io[t].at = "again"
      /\ IF ~remove[s] /\ Len(recvBuf[s]) < RecvSize
         THEN io' = [io EXCEPT ![t].at = "recv"] /\ UNCHANGED remove
         ELSE io' = [io EXCEPT ![t] = Idle] /\ Removed(s)
      /\ UNCHANGED <<list, sock, ordered, canSend, unsent, complete, recvBuf, objVars, mainVars,
                     ioq, pollVars, makeVars, peerVars>>

\* recv() on the socket the session has by now.
RecvSome(t, c, n) ==
  /\ io' = [io EXCEPT ![t].at = IF n = RecvSize - Len(recvBuf[io[t].s]) THEN "stored, full"
                                ELSE "stored",
                      ![t].got = [i \in 1..n |-> <<c, read[c] + i>>]]
  /\ read' = [read EXCEPT ![c] = @ + n]
  /\ UNCHANGED remove

RecvCall(t) ==
  LET s     == io[t].s
      c     == sock[s]
      there == IF c = 0 THEN 0 ELSE sent[c] - read[c]
      room  == RecvSize - Len(recvBuf[s])
  IN  /\ io[t].at = "recv"
      /\ \/ /\ there > 0
            /\ RecvSome(t, c, IF there < room THEN there ELSE room)
         \/ /\ there = 0
            /\ IF c # 0 /\ peer[c] = "up" THEN UNCHANGED remove ELSE Removed(s)
            /\ io' = [io EXCEPT ![t] = Idle]
            /\ UNCHANGED read
      /\ UNCHANGED <<list, sock, ordered, canSend, unsent, complete, recvBuf, objVars, mainVars,
                     ioq, pollVars, makeVars, made, peer, sent>>

\* Completion(): the bytes are in the ring now; a full read goes round again.
RecvStore(t) ==
  /\ io[t].at \in {"stored", "stored, full"}
  /\ recvBuf' = [recvBuf EXCEPT ![io[t].s] =
                   IF Len(@) + Len(io[t].got) <= RecvSize THEN @ \o io[t].got ELSE @]
  /\ io' = [io EXCEPT ![t] = IF @.at = "stored" THEN Idle ELSE [@ EXCEPT !.at = "again", !.got = <<>>]]
  /\ UNCHANGED <<list, sock, remove, ordered, canSend, unsent, complete, objVars, mainVars,
                 ioq, pollVars, makeVars, peerVars>>

\* DoSend: the lock, the test and GetSendParam.
SendCheck(t) ==
  LET s == io[t].s
  IN  /\ io[t].at = "took send" /\ ~Locked(s)
      /\ IF canSend[s] /\ ~remove[s] /\ complete[s] /\ unsent[s]
         THEN /\ io' = [io EXCEPT ![t].at = "send"]
              /\ complete' = [complete EXCEPT ![s] = FALSE]
         ELSE io' = [io EXCEPT ![t] = Idle] /\ UNCHANGED complete
      /\ UNCHANGED <<list, sock, remove, ordered, canSend, unsent, recvBuf, objVars, mainVars,
                     ioq, pollVars, makeVars, peerVars>>

Writable(c) == IF c = 0 THEN FALSE ELSE peer[c] # "rst"

\* send() takes all or some of it,
SendSome(s) ==
  /\ Writable(sock[s])
  /\ complete' = [complete EXCEPT ![s] = TRUE]
  /\ unsent' \in {unsent, [unsent EXCEPT ![s] = FALSE]}
  /\ UNCHANGED <<canSend, armed, edge>>

\* Mutant: returns without Completion when the socket would block.
SendBlocksForgets(s) ==
  /\ Writable(sock[s])
  /\ canSend' = [canSend EXCEPT ![s] = FALSE]
  /\ ModEpollEvent(s, TRUE)
  /\ UNCHANGED <<complete, unsent>>

\* or would block, and waits for EPOLLOUT,
SendBlocks(s) ==
  /\ Writable(sock[s])
  /\ complete' = [complete EXCEPT ![s] = TRUE]
  /\ canSend' = [canSend EXCEPT ![s] = FALSE]
  /\ ModEpollEvent(s, TRUE)
  /\ UNCHANGED unsent

\* or fails, which leaves m_bComplete as it is.
SendFails(s) ==
  /\ ~Writable(sock[s])
  /\ UNCHANGED <<complete, canSend, unsent, armed, edge>>

SendCall(t) ==
  /\ io[t].at = "send"
  /\ SendSome(io[t].s) \/ SendBlocks(io[t].s) \/ SendFails(io[t].s)
  /\ io' = [io EXCEPT ![t] = Idle]
  /\ UNCHANGED <<list, sock, remove, ordered, recvBuf, objVars, mainVars, ioq, fetched, reg,
                 makeVars, peerVars>>

IoStep(t) == RecvCheck(t) \/ RecvCall(t) \/ RecvStore(t) \/ SendCheck(t) \/ SendCall(t)

-----------------------------------------------------------------------------
\* The peers.  A peer we connect to answers, it does not speak first: the
\* servers send nothing in OnAccept.
Reaches(c) == accSock = c \/ \E s \in Session : sock[s] = c

PeerSend(c) ==
  /\ peer[c] = "up" /\ Reaches(c) /\ sent[c] < MaxSent
  /\ life[c] # "opening"
  /\ sent' = [sent EXCEPT ![c] = @ + 1]
  /\ edge' = IF reg[c] # NULL THEN edge \cup {<<c, "in">>} ELSE edge
  /\ UNCHANGED <<list, sessVars, objVars, mainVars, ioVars, fetched, reg, armed, makeVars,
                 made, peer, read>>

PeerLeave(c, how) ==
  /\ peer[c] = "up" /\ Reaches(c)
  /\ peer' = [peer EXCEPT ![c] = how]
  /\ edge' = IF reg[c] # NULL
             THEN edge \cup {<<c, "in">>} \cup (IF how = "rst" THEN {<<c, "hup">>} ELSE {})
             ELSE edge
  /\ UNCHANGED <<list, sessVars, objVars, mainVars, ioVars, fetched, reg, armed, makeVars,
                 made, sent, read>>

\* The peer has read: there is room to write again.
PeerDrain(c) ==
  /\ c \in armed /\ <<c, "out">> \notin edge
  /\ edge' = edge \cup {<<c, "out">>}
  /\ UNCHANGED <<list, sessVars, objVars, mainVars, ioVars, fetched, reg, armed, makeVars,
                 peerVars>>

Peer == \E c \in Conn : PeerSend(c) \/ PeerLeave(c, "fin") \/ PeerLeave(c, "rst") \/ PeerDrain(c)
=============================================================================
