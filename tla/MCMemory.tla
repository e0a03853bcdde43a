------------------------------ MODULE MCMemory ------------------------------
(***************************************************************************)
(* Where objects and bytes are kept until they are wanted: the pool of     *)
(* objects of Utility, and the receive buffer of a session; one of them in *)
(* each behaviour, which one is chosen at the start.                       *)
(*                                                                         *)
(* The pool has a first band of two objects and two more of two objects    *)
(* each (the default extension of 2 is 2 div 2 + 1 = 2), so that objects   *)
(* end on the stacks of other bands than their own.                        *)
(*                                                                         *)
(* The buffer takes nine packets of three to five cells through a ring of  *)
(* seven with five extra cells.  The first two end with the ring; later    *)
(* ones are split after one cell (in the header), two, three and four.  Or *)
(* a client without headers sends seven cells of text: a read may bring up *)
(* to five, and leave space for less than a header behind itself.          *)
(***************************************************************************)
EXTENDS RecvBuffer, MemoryFactory, SequencesExt

MCElement == (0..9) \X (1..7)

Packets == <<2, 1, 1, 1, 3, 3, 1, 3, 3>>

\* One that is sent packets of these sizes, with headers unless ex is their size.
Sends(ex, sizes) ==
  LET cells == [p \in DOMAIN sizes |-> [k \in 1..(HeaderSize - ex + sizes[p]) |-> <<p, k>>]]
  IN  [lenEx |-> ex, payload |-> sizes, stream |-> FlattenSeq(cells),
       start |-> [p \in 1..(Len(sizes) + 1) |-> Len(FlattenSeq(SubSeq(cells, 1, p - 1)))]]

MCTraffic == {Sends(0, Packets), Sends(HeaderSize, <<7>>)}

VARIABLE part

allVars == <<part, recvVars, vars>>

MCInit ==
  /\ part \in {"buffer", "pool"} /\ RecvInit /\ Init
  /\ part = "pool" => traffic.lenEx = 0

InBuffer(A) == part = "buffer" /\ A /\ UNCHANGED <<part, vars>>

InPool(A) == part = "pool" /\ A /\ UNCHANGED <<part, recvVars>>

MCNext == InBuffer(RecvNext) \/ InPool(Next)

\* The fairness of RecvBuffer; nobody has to call the pool.
MCSpec ==
  /\ MCInit /\ [][MCNext]_allVars
  /\ WF_allVars(InBuffer(ProcessRecvdPacket)) /\ WF_allVars(InBuffer(DoRecvReported))
  /\ SF_allVars(InBuffer(RecvArrived))

-----------------------------------------------------------------------------
\* What DoRecv has stored is handed over although no other event follows it,
\* and everything the peer sent is read; for good.  Or the session is removed,
\* since the ring was full or a piece of text too long or no space left for one;
\* or the read runs over the space, or is done before the session has its
\* object; or the event of what is still in the socket was lost, or text that
\* filled the space left some there: then only what was stored is heard
\* (RecvBuffer.h:33-38, Session.cpp:99-117, 191-227, SyncHandler.cpp:59, 574).
AllHeard == <>[](part = "pool" \/ HeardOrEnded)
=============================================================================
