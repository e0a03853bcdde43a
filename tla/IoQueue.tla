------------------------------ MODULE IoQueue -------------------------------
(***************************************************************************)
(* The queue of events of a SyncHandler: the epoll thread and the send     *)
(* thread of the IOCPServer post events, io threads take them, one for     *)
(* each time they are woken, and Shutdown stops them all.  An io thread    *)
(* waits on the condition without looking at the queue; what is signalled  *)
(* while all of them are busy wakes nobody.                                *)
(*                                                                         *)
(* What an event does to its session is in SyncThreads; here only how many *)
(* events there are matters.                                               *)
(***************************************************************************)
EXTENDS Integers, FiniteSets

CONSTANTS
  IoThread,      \* the io threads of the handler
  QueueSize,     \* SOCKET_HOLDER_SIZE * 2
  MaxPosts       \* bound of the model: calls of AddIoEvent

IoQueueConstants ==
  IsFiniteSet(IoThread) /\ QueueSize \in Nat \ {0} /\ MaxPosts \in Nat

Poster == {"epoll", "send"}

VARIABLES
  queued,        \* GetBackDataCount of m_pEvents
  poster,        \* where the epoll thread and the send thread are
  io,            \* where each io thread is
  main,          \* where Shutdown is
  serverDown,    \* m_bShutdown of the IOCPServer
  m_bShutdown,   \* of the SyncHandler
  posts,         \* calls of AddIoEvent
  unheard,       \* signals that found no io thread in Wait
  dropped,       \* an event found the queue full
  late           \* the io threads that were busy at the broadcast

flags == <<main, serverDown, m_bShutdown, late>>
eventVars == <<queued, poster, io, posts, unheard, dropped, flags>>

\* The io threads in Wait, and those that are woken and have not yet looked.
Waiting == {t \in IoThread : io[t] = "wait"}

Woken == {t \in IoThread : io[t] = "woken"}

\* The threads that have posted and not yet signalled.
Signalling == {p \in Poster : poster[p] = "signal"}

EventInit ==
  /\ queued = 0
  /\ poster = [p \in Poster |-> "idle"]
  /\ io = [t \in IoThread |-> "start"]
  /\ main = "run" /\ serverDown = FALSE /\ m_bShutdown = FALSE
  /\ posts = 0 /\ unheard = 0 /\ dropped = FALSE /\ late = {}

-----------------------------------------------------------------------------
(* AddIoEvent, by either thread: the event is queued, or dropped when the  *)
(* queue is full, and then the condition is signalled without the lock.    *)

\* Mutant: a full queue takes one more.
AddIoEventOver(p) ==
  /\ poster[p] = "idle" /\ posts < MaxPosts
  /\ queued' = IF queued <= QueueSize THEN queued + 1 ELSE queued
  /\ dropped' = (dropped \/ (queued >= QueueSize /\ ~m_bShutdown))
  /\ poster' = [poster EXCEPT ![p] = "signal"] /\ posts' = posts + 1
  /\ UNCHANGED <<io, unheard, flags>>

AddIoEvent(p) ==
  /\ poster[p] = "idle" /\ posts < MaxPosts
  /\ queued' = IF queued < QueueSize THEN queued + 1 ELSE queued
  /\ dropped' = (dropped \/ (queued >= QueueSize /\ ~m_bShutdown))
  /\ poster' = [poster EXCEPT ![p] = "signal"] /\ posts' = posts + 1
  /\ UNCHANGED <<io, unheard, flags>>

Signal(p) ==
  /\ poster[p] = "signal" /\ poster' = [poster EXCEPT ![p] = "idle"]
  /\ \/ \E t \in Waiting : io' = [io EXCEPT ![t] = "woken"] /\ UNCHANGED unheard
     \/ Waiting = {} /\ unheard' = unheard + 1 /\ UNCHANGED io
  /\ UNCHANGED <<queued, posts, dropped, flags>>

\* Both threads look at their flag between two rounds; the epoll thread is
\* also cancelled, and is so only in epoll_wait.
PosterExit(p) ==
  /\ poster[p] = "idle" /\ (IF p = "send" THEN serverDown ELSE m_bShutdown)
  /\ poster' = [poster EXCEPT ![p] = "exit"]
  /\ UNCHANGED <<queued, io, posts, unheard, dropped, flags>>

-----------------------------------------------------------------------------
(* io_thread.                                                              *)

Wait(t) ==
  /\ io[t] = "start" /\ io' = [io EXCEPT ![t] = "wait"]
  /\ UNCHANGED <<queued, poster, posts, unheard, dropped, flags>>

\* Wait may return without a signal.
WakeUp(t) ==
  /\ io[t] = "wait" /\ io' = [io EXCEPT ![t] = "woken"]
  /\ UNCHANGED <<queued, poster, posts, unheard, dropped, flags>>

\* Mutants: the event is not taken from the queue; the flag is not looked at.
TakeLeaves(t) ==
  /\ io[t] = "woken"
  /\ io' = [io EXCEPT ![t] = IF m_bShutdown THEN "exit" ELSE IF queued = 0 THEN "start" ELSE "work"]
  /\ UNCHANGED <<queued, poster, posts, unheard, dropped, flags>>

TakeAnyway(t) ==
  /\ io[t] = "woken"
  /\ queued' = IF queued = 0 THEN 0 ELSE queued - 1
  /\ io' = [io EXCEPT ![t] = IF queued = 0 THEN "start" ELSE "work"]
  /\ UNCHANGED <<poster, posts, unheard, dropped, flags>>

\* Under the lock again: the flag, and Dequeue of one event.
Take(t) ==
  /\ io[t] = "woken"
  /\ \/ m_bShutdown /\ io' = [io EXCEPT ![t] = "exit"] /\ UNCHANGED queued
     \/ ~m_bShutdown /\ queued = 0 /\ io' = [io EXCEPT ![t] = "start"] /\ UNCHANGED queued
     \/ ~m_bShutdown /\ queued > 0 /\ io' = [io EXCEPT ![t] = "work"] /\ queued' = queued - 1
  /\ UNCHANGED <<poster, posts, unheard, dropped, flags>>

\* DoSend or DoRecv of the session of the event.
Work(t) ==
  /\ io[t] = "work" /\ io' = [io EXCEPT ![t] = "start"]
  /\ UNCHANGED <<queued, poster, posts, unheard, dropped, flags>>

IoStep(t) == Wait(t) \/ Take(t) \/ Work(t)

-----------------------------------------------------------------------------
(* Shutdown of the IOCPServer, which ends its thread and then each handler. *)

ServerShutdown ==
  /\ main = "run" /\ main' = "joinSend" /\ serverDown' = TRUE
  /\ UNCHANGED <<queued, poster, io, posts, unheard, dropped, m_bShutdown, late>>

\* SyncHandler::Shutdown; the sessions are kicked, the acceptor and the
\* connector stopped, the epoll thread cancelled.
HandlerShutdown ==
  /\ main = "joinSend" /\ poster["send"] = "exit"
  /\ main' = "joinEpoll" /\ m_bShutdown' = TRUE
  /\ UNCHANGED <<queued, poster, io, posts, unheard, dropped, serverDown, late>>

\* Mutant: one thread is signalled.
BroadcastOne ==
  /\ main = "joinEpoll" /\ poster["epoll"] = "exit"
  /\ main' = "joinIo" /\ late' = {t \in IoThread : io[t] \in {"start", "work"}}
  /\ IF Waiting = {} THEN UNCHANGED io ELSE \E t \in Waiting : io' = [io EXCEPT ![t] = "woken"]
  /\ UNCHANGED <<queued, poster, posts, unheard, dropped, serverDown, m_bShutdown>>

Broadcast ==
  /\ main = "joinEpoll" /\ poster["epoll"] = "exit"
  /\ main' = "joinIo"
  /\ io' = [t \in IoThread |-> IF t \in Waiting THEN "woken" ELSE io[t]]
  /\ late' = {t \in IoThread : io[t] \in {"start", "work"}}
  /\ UNCHANGED <<queued, poster, posts, unheard, dropped, serverDown, m_bShutdown>>

\* The join, and the handler is deleted with its pools of sessions.
Join ==
  /\ main = "joinIo" /\ \A t \in IoThread : io[t] = "exit"
  /\ main' = "off"
  /\ UNCHANGED <<queued, poster, io, posts, unheard, dropped, serverDown, m_bShutdown, late>>

ShutdownStep == HandlerShutdown \/ Broadcast \/ Join

PosterStep(p) == Signal(p) \/ PosterExit(p)

-----------------------------------------------------------------------------
EventNext ==
  \/ \E p \in Poster : AddIoEvent(p) \/ PosterStep(p)
  \/ \E t \in IoThread : IoStep(t) \/ WakeUp(t)
  \/ ServerShutdown \/ ShutdownStep

EventSpec == EventInit /\ [][EventNext]_eventVars

\* Threads run.  Nothing need be posted and the server need not be stopped.
Fairness ==
  /\ WF_eventVars(ShutdownStep)
  /\ \A p \in Poster : WF_eventVars(PosterStep(p))
  /\ \A t \in IoThread : WF_eventVars(IoStep(t))

EventFairSpec == EventSpec /\ Fairness

-----------------------------------------------------------------------------
(* The type of the state: SyncHandler.h:66-80.                             *)
EventTypeOK ==
  /\ queued \in 0..QueueSize /\ posts \in 0..MaxPosts /\ unheard \in Nat /\ dropped \in BOOLEAN
  /\ poster \in [Poster -> {"idle", "signal", "exit"}]
  /\ io \in [IoThread -> {"start", "wait", "woken", "work", "exit"}]
  /\ main \in {"run", "joinSend", "joinEpoll", "joinIo", "off"}
  /\ serverDown \in BOOLEAN /\ m_bShutdown \in BOOLEAN /\ late \subseteq IoThread

\* While the handler runs, a queued event has a signal on its way, an io thread
\* that is awake for it, or one signal that nobody heard: the events that lie
\* in the queue behind the sleeping io threads are never more than the signals
\* that came while all were busy.  Only these fill the queue, so that no event is
\* dropped before all places but one for each io thread and one for the other
\* poster are taken by them (SyncHandler.cpp:59-73, 571-578).
BacklogHeard ==
  /\ ~m_bShutdown => queued <= Cardinality(Woken) + Cardinality(Signalling) + unheard
  /\ dropped => QueueSize <= Cardinality(IoThread) + 1 + unheard

\* If every signal is heard, the queue becomes empty again and again, or the
\* handler is shut down (SyncHandler.cpp:47-86, 571-578).
Drained == (queued > 0) ~> (queued = 0 \/ unheard > 0 \/ m_bShutdown)

\* Once Shutdown has made its one broadcast, which nothing repeats, an io thread
\* can go to sleep, and main wait for it for ever, only if it was busy at the
\* broadcast: whichever slept or was about to look at the flag ends
\* (SyncHandler.cpp:58-66, 500-524).
SleepersWereBusy ==
  main = "joinIo" => {t \in IoThread : io[t] \in {"start", "wait", "work"}} \subseteq late

\* Shutdown returns if no io thread was busy at its one broadcast
\* (SyncHandler.cpp:521-524).
ShutdownEnds == (main = "joinIo" /\ late = {}) ~> (main = "off")

\* What the threads owe: events are taken, and Shutdown comes to an end, but
\* for the signals and the broadcast that busy io threads do not hear
\* (SyncHandler.cpp:47-86, 500-525, 571-578).
Progress == Drained /\ ShutdownEnds
=============================================================================
