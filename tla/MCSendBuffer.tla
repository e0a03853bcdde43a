---------------------------- MODULE MCSendBuffer ----------------------------
(***************************************************************************)
(* What goes out: the send buffer of a session, and the queue of events    *)
(* from which an io thread learns of it; one of them in each behaviour,    *)
(* which one is chosen at the start.                                       *)
(*                                                                         *)
(* Sent are packets of three to five cells through a ring of seven and a   *)
(* socket of three: most sends are partial, packets wrap in header and     *)
(* body, and the ring can be too full for a header or for a body.  Without *)
(* headers two packets are sent, and one more, which wrap.                 *)
(*                                                                         *)
(* Six events are posted to a queue of four with two io threads: it is     *)
(* filled, and overflows, only if a signal was not heard.                  *)
(***************************************************************************)
EXTENDS SendBuffer, IoQueue

MCElement == (1..4) \X (1..5)

Sends(ex, sizes) ==
  LET start[p \in 1..(Len(sizes) + 1)] ==
        IF p = 1 THEN 0 ELSE start[p - 1] + HeaderSize + sizes[p - 1]
  IN  [lenEx |-> ex, payload |-> sizes, start |-> start]

MCTraffic == {Sends(0, <<2, 3, 1, 3>>), Sends(HeaderSize, <<2, 3, 1>>)}

ASSUME IoConstants == IoQueueConstants

VARIABLE part

allVars == <<part, sendVars, eventVars>>

MCInit ==
  /\ part \in {"buffer", "events"} /\ SendInit /\ EventInit
  /\ part = "events" => traffic.lenEx = 0

InBuffer(A) == part = "buffer" /\ A /\ UNCHANGED <<part, eventVars>>

InQueue(A) == part = "events" /\ A /\ UNCHANGED <<part, sendVars>>

MCNext == InBuffer(SendNext) \/ InQueue(EventNext)

\* The fairness of the two modules.  A behaviour is of one part only, so that
\* what is the main thread's in both can be stated at once.
MainThread == InBuffer(WriteHeader \/ WriteBody) \/ InQueue(ShutdownStep)

SendThread == InBuffer(PreSend) \/ InQueue(PosterStep("send"))

EpollThreads == InBuffer(EpollThread) \/ InQueue(PosterStep("epoll"))

MCSpec ==
  /\ MCInit /\ [][MCNext]_allVars
  /\ WF_allVars(MainThread) /\ WF_allVars(SendThread) /\ WF_allVars(EpollThreads)
  /\ WF_allVars(InBuffer(TakeEvent \/ DoSend)) /\ SF_allVars(InBuffer(OnSend))
  /\ WF_allVars(InBuffer(PeerReads))
  /\ \A t \in IoThread : WF_allVars(InQueue(IoStep(t)))

-----------------------------------------------------------------------------
\* All that is written has left the ring in the end, unless the session is
\* removed, or EPOLLOUT has been disarmed by the epoll thread after an io thread
\* re-armed it: that race is the only way to stall, but for an overrun without
\* headers (SyncHandler.cpp:28-32, Session.cpp:163-180).
SentOrDisarmed == <>(part = "events" \/ SentOrStalled)
=============================================================================
