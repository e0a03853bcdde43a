----------------------------- MODULE SyncUpdate -----------------------------
(***************************************************************************)
(* The main thread of a server: Connect, and SyncHandler::Update with the  *)
(* callbacks it makes.  Only this thread changes the active list, so the   *)
(* iterator of ProcessActiveSessionList and KickDeadSession is an index.   *)
(***************************************************************************)
EXTENDS Session

threadVars == <<ioVars, makeVars, peerVars, fetched>>

At(p) == Head(list[p])

Goto(where) == pc' = where /\ cur' = 1

-----------------------------------------------------------------------------
\* sem_post, in Connector::Connect; the mutant forgets it.
PostNothing == UNCHANGED sem

Post == sem' = sem + 1

\* SyncHandler::Connect.  The assertion on the pool is the caller's duty.
Connect ==
  /\ pc = "idle"
  /\ made < MaxConns
  /\ list["connectPool"] # <<>>
  /\ LET s == At("connectPool")
         c == made + 1
     IN  /\ made' = c
         /\ sock' = [sock EXCEPT ![s] = c]
         /\ Bind(s, c)
         /\ Told(c, "opening")
         /\ MoveHead("connectPool", "connecting")
         /\ Post
  /\ UNCHANGED <<remove, ordered, canSend, unsent, complete, recvBuf, inbox, mainVars,
                 ioVars, pollVars, accSock, draining, peer, sent, read>>

UpdateBegin ==
  /\ pc = "idle"
  /\ Goto("active")
  /\ UNCHANGED <<list, sessVars, objVars, numActive, net, pollVars, ioVars, makeVars, peerVars>>

-----------------------------------------------------------------------------
\* ProcessActiveSessionList.
Current == list["active"][cur]

NextSession == pc' = "active" /\ cur' = cur + 1

CheckSession ==
  /\ pc = "active" /\ cur <= Len(list["active"])
  /\ \/ /\ remove[Current]
        /\ NextSession
        /\ UNCHANGED remove
     \/ /\ ~remove[Current] /\ ordered[Current]
        /\ NextSession
        /\ IF unsent[Current] THEN UNCHANGED remove ELSE Removed(Current)
     \/ /\ ~remove[Current] /\ ~ordered[Current]
        /\ HasTimeOut /\ IsAcceptSocket(Current)
        /\ NextSession
        /\ Removed(Current)
     \/ /\ ~remove[Current] /\ ~ordered[Current]
        /\ pc' = "packets"
        /\ UNCHANGED <<cur, remove>>
  /\ UNCHANGED <<list, sock, ordered, canSend, unsent, complete, recvBuf, objVars,
                 numActive, net, pollVars, ioVars, makeVars, peerVars>>

\* ProcessRecvdPacket: OnRecv, for every packet there is; the flag is not
\* looked at again.
RecvPacket ==
  /\ pc = "packets" /\ recvBuf[Current] # <<>>
  /\ inbox' = [inbox EXCEPT ![obj[Current]] = Append(@, Head(recvBuf[Current]))]
  /\ recvBuf' = [recvBuf EXCEPT ![Current] = Tail(@)]
  /\ AppReacts(Current, remove, unsent, ordered)
  /\ UNCHANGED <<list, sock, canSend, complete, obj, objSess, life, mainVars, pollVars,
                 ioVars, makeVars, peerVars>>

\* The size in the header is none a packet can have.
RecvMalformed ==
  /\ pc = "packets" /\ recvBuf[Current] # <<>>
  /\ Removed(Current)
  /\ NextSession
  /\ UNCHANGED <<list, sock, ordered, canSend, unsent, complete, recvBuf, objVars,
                 numActive, net, pollVars, ioVars, makeVars, peerVars>>

RecvDone ==
  /\ pc = "packets" /\ recvBuf[Current] = <<>>
  /\ NextSession
  /\ UNCHANGED <<list, sessVars, objVars, numActive, net, pollVars, ioVars, makeVars, peerVars>>

-----------------------------------------------------------------------------
\* ProcessAcceptedSessionList.
TakeAccepted ==
  /\ pc = "active" /\ cur > Len(list["active"])
  /\ Splice("accepted", "template")
  /\ Goto("accepted")
  /\ UNCHANGED <<sessVars, objVars, numActive, net, pollVars, ioVars, makeVars, peerVars>>

\* No room for another session, or epoll_ctl fails.
RefuseAccepted ==
  /\ pc = "accepted" /\ list["template"] # <<>>
  /\ FreeSession("template")
  /\ UNCHANGED <<objVars, mainVars, threadVars>>

AddAccepted ==
  /\ pc = "accepted" /\ list["template"] # <<>>
  /\ numActive < MaxAccept
  /\ AddEpollEvent(At("template"))
  /\ MoveHead("template", "main")
  /\ Goto("accept")
  /\ UNCHANGED <<sessVars, objVars, numActive, net, ioVars, makeVars, peerVars>>

\* The object is created and bound; OnAccept calls ResetKillFlag and tells it.
OnAccept ==
  /\ pc = "accept"
  /\ LET s == At("main")
     IN  /\ Bind(s, sock[s])
         /\ Told(sock[s], "open")
         /\ AppReacts(s, ResetKillFlag(s), unsent, ordered)
  /\ numActive' = numActive + 1
  /\ MoveHead("main", "joining")
  /\ Goto("accepted")
  /\ UNCHANGED <<sock, canSend, complete, recvBuf, inbox, net, pollVars, ioVars,
                 makeVars, peerVars>>

JoinAccepted ==
  /\ pc = "accepted" /\ list["template"] = <<>>
  /\ Splice("joining", "active")
  /\ Goto("take")
  /\ UNCHANGED <<sessVars, objVars, numActive, net, pollVars, ioVars, makeVars, peerVars>>

-----------------------------------------------------------------------------
\* ProcessConnectSuccessList.
TakeSuccess ==
  /\ pc = "take"
  /\ Splice("success", "template")
  /\ Goto("success")
  /\ UNCHANGED <<sessVars, objVars, numActive, net, pollVars, ioVars, makeVars, peerVars>>

AddConnected ==
  /\ pc = "success" /\ list["template"] # <<>>
  /\ AddEpollEvent(At("template"))
  /\ MoveHead("template", "main")
  /\ Goto("connect")
  /\ UNCHANGED <<sessVars, objVars, numActive, net, ioVars, makeVars, peerVars>>

\* OnConnect(TRUE) begins with Init(), whatever has arrived by then.
OnConnect ==
  /\ pc = "connect"
  /\ LET s == At("main")
     IN  /\ recvBuf' = [recvBuf EXCEPT ![s] = <<>>]
         /\ complete' = [complete EXCEPT ![s] = TRUE]
         /\ canSend' = [canSend EXCEPT ![s] = TRUE]
         /\ AppReacts(s, ResetKillFlag(s), [unsent EXCEPT ![s] = FALSE],
                      [ordered EXCEPT ![s] = FALSE])
         /\ Told(obj[s], "open")
  /\ MoveHead("main", "joining")
  /\ Goto("success")
  /\ UNCHANGED <<sock, obj, objSess, inbox, numActive, net, pollVars, ioVars, makeVars, peerVars>>

\* FreeSession, then OnConnect(FALSE), which initialises the session again.
FailConnect(p) ==
  LET s == At(p)
  IN  /\ FreeSession(p)
      /\ Unbind(s)
      /\ Told(obj[s], "failed")
      /\ UNCHANGED <<inbox, mainVars, threadVars>>

\* epoll_ctl fails.
RefuseConnected ==
  /\ pc = "success" /\ list["template"] # <<>>
  /\ FailConnect("template")

JoinConnected ==
  /\ pc = "success" /\ list["template"] = <<>>
  /\ numActive' = numActive + Len(list["joining"])
  /\ Splice("joining", "active")
  /\ Goto("fail")
  /\ UNCHANGED <<sessVars, objVars, net, pollVars, ioVars, makeVars, peerVars>>

\* ProcessConnectFailList.
OnConnectFail ==
  /\ pc = "fail" /\ list["fail"] # <<>>
  /\ FailConnect("fail")

FailDone ==
  /\ pc = "fail" /\ list["fail"] = <<>>
  /\ Goto("scan")
  /\ UNCHANGED <<list, sessVars, objVars, numActive, net, pollVars, ioVars, makeVars, peerVars>>

-----------------------------------------------------------------------------
\* KickDeadSession.
\* Mutant: the session is queued for kicking and stays on the active list.
ScanSessionKeeps ==
  /\ pc = "scan" /\ cur <= Len(list["active"])
  /\ cur' = cur + 1
  /\ list' = IF remove[Current]
             THEN [list EXCEPT !["template"] = Append(@, Current)] ELSE list
  /\ UNCHANGED <<sessVars, objVars, numActive, pc, net, pollVars, ioVars, makeVars, peerVars>>

ScanSession ==
  /\ pc = "scan" /\ cur <= Len(list["active"])
  /\ IF remove[Current]
     THEN /\ list' = Lists!Moved(list, "active", cur, "template")
          /\ UNCHANGED cur
     ELSE /\ cur' = cur + 1
          /\ UNCHANGED list
  /\ UNCHANGED <<sessVars, objVars, numActive, pc, net, pollVars, ioVars, makeVars, peerVars>>

ScanDone ==
  /\ pc = "scan" /\ cur > Len(list["active"])
  /\ Goto("kick")
  /\ UNCHANGED <<list, sessVars, objVars, numActive, net, pollVars, ioVars, makeVars, peerVars>>

\* Mutant: the count is not taken back.
KickSessionUncounted ==
  /\ pc = "kick" /\ list["template"] # <<>>
  /\ net' = obj[At("template")]
  /\ Unbind(At("template"))
  /\ FreeSession("template")
  /\ Goto("kicked")
  /\ UNCHANGED <<life, inbox, numActive, threadVars>>

KickSession ==
  /\ pc = "kick" /\ list["template"] # <<>>
  /\ LET s == At("template")
     IN  /\ net' = obj[s]
         /\ Unbind(s)
  /\ FreeSession("template")
  /\ numActive' = numActive - 1
  /\ Goto("kicked")
  /\ UNCHANGED <<life, inbox, threadVars>>

\* OnDisconnect, and the object is destroyed.
OnDisconnect ==
  /\ pc = "kicked"
  /\ Told(net, "closed")
  /\ net' = 0
  /\ Goto("kick")
  /\ UNCHANGED <<list, sessVars, obj, objSess, inbox, numActive, pollVars, ioVars,
                 makeVars, peerVars>>

UpdateEnd ==
  /\ pc = "kick" /\ list["template"] = <<>>
  /\ Goto("idle")
  /\ UNCHANGED <<list, sessVars, objVars, numActive, net, pollVars, ioVars, makeVars, peerVars>>

-----------------------------------------------------------------------------
Update ==
  \/ UpdateBegin \/ CheckSession \/ RecvPacket \/ RecvMalformed \/ RecvDone
  \/ TakeAccepted \/ RefuseAccepted \/ AddAccepted \/ OnAccept \/ JoinAccepted
  \/ TakeSuccess \/ AddConnected \/ OnConnect \/ RefuseConnected \/ JoinConnected
  \/ OnConnectFail \/ FailDone
  \/ ScanSession \/ ScanDone \/ KickSession \/ OnDisconnect \/ UpdateEnd
=============================================================================
