----------------------------- MODULE QueryQueue -----------------------------
(***************************************************************************)
(* HyDatabase and its workers (QueryExecuteProcessor): one thread gives    *)
(* queries and takes results, the workers execute them.  The two result    *)
(* lists are switched so that the results are handed over without a lock.  *)
(* The workers wait on a condition without looking at the list first.      *)
(***************************************************************************)
EXTENDS Naturals, Sequences, FiniteSets

CONSTANTS
  Query,     \* the queries that are given, each once
  Worker,    \* m_wQueryProcessorNum threads
  NoQuery,
  Spurious,  \* whether Wait may return without a signal
  MaxRun     \* bound: how often Initialize is called

QueryConstants ==
  /\ NoQuery \notin Query /\ Spurious \in BOOLEAN /\ MaxRun \in Nat

VARIABLES
  m_pQueryList,      \* the queries given
  list, push,        \* the two result lists, and which one is m_pQueryResultPushList
  m_bEndProcess,
  main,              \* where the thread of the server is
  worker, pQuery,    \* where each worker is, and its query
  run,               \* calls of Initialize
  issued, handed,    \* queries given so far, and handed to the callback
  missed,            \* a signal found every worker past its last look and before Wait, or gone
  late               \* the workers that were busy at the broadcast

mainVars == <<m_bEndProcess, main, run, late>>
vars == <<m_pQueryList, list, push, worker, pQuery, issued, handed, missed, mainVars>>

pop == 1 - push

Init ==
  /\ m_pQueryList = <<>> /\ list = [i \in {0, 1} |-> <<>>] /\ push = 0
  /\ m_bEndProcess = FALSE /\ main = "off"
  /\ worker = [w \in Worker |-> "none"] /\ pQuery = [w \in Worker |-> NoQuery]
  /\ run = 0 /\ issued = {} /\ handed = <<>> /\ missed = FALSE /\ late = {}

-----------------------------------------------------------------------------
(* The thread of the server.                                              *)

\* A worker in Wait, or still in the loop in which it looks at the list.
Waits(w) == worker[w] = "wait"

Looks(w) == worker[w] \in {"woken", "count", "take", "execute", "store"}

\* One that is neither in Wait nor about to look at m_bEndProcess.
Deaf(w) == worker[w] = "start" \/ (Looks(w) /\ worker[w] # "woken")

\* Initialize: the instances, and, if all of them connect, the workers, which
\* start at once.
Initialize ==
  /\ main = "off" /\ run < MaxRun
  /\ run' = run + 1
  /\ \/ main' = "failed" /\ UNCHANGED worker
     \/ main' = "starting" /\ worker' = [w \in Worker |-> "start"]
  /\ UNCHANGED <<m_pQueryList, list, push, m_bEndProcess, pQuery, issued, handed, missed, late>>

\* The last lines of Initialize.
Started ==
  /\ main = "starting"
  /\ main' = "idle" /\ m_bEndProcess' = FALSE
  /\ UNCHANGED <<m_pQueryList, list, push, worker, pQuery, run,
                 issued, handed, missed, late>>

\* DBQuery: first the list,
DBQuery(q) ==
  /\ main = "idle" /\ ~m_bEndProcess /\ q \notin issued
  /\ m_pQueryList' = Append(m_pQueryList, q) /\ issued' = issued \union {q}
  /\ main' = "signal"
  /\ UNCHANGED <<list, push, m_bEndProcess, worker, pQuery, run, handed,
                 missed, late>>

\* then the signal, which wakes one waiting worker, or nobody.
Signal ==
  /\ main = "signal" /\ main' = "idle"
  /\ \/ \E w \in Worker : Waits(w) /\ worker' = [worker EXCEPT ![w] = "woken"]
     \/ (\A w \in Worker : ~Waits(w)) /\ UNCHANGED worker
  /\ missed' = (missed \/ \A w \in Worker : ~Waits(w) /\ ~Looks(w))
  /\ UNCHANGED <<m_pQueryList, list, push, m_bEndProcess, pQuery, run,
                 issued, handed, late>>

\* Mutant: the lists are switched although results are left to hand over.
UpdateEarly ==
  /\ main \in {"idle", "deliver"} /\ list[push] # <<>>
  /\ push' = pop /\ main' = "deliver"
  /\ UNCHANGED <<m_pQueryList, list, m_bEndProcess, worker, pQuery, run,
                 issued, handed, missed, late>>

\* Update, when the list of results is not empty: SwitchQueryResultList.
Update ==
  /\ main = "idle" /\ list[push] # <<>>
  /\ push' = pop /\ main' = "deliver"
  /\ UNCHANGED <<m_pQueryList, list, m_bEndProcess, worker, pQuery, run,
                 issued, handed, missed, late>>

\* The loop of Update: DeleteHead and m_fnQueryResult, until the list is empty.
Deliver ==
  /\ main = "deliver"
  /\ IF list[pop] = <<>> THEN main' = "idle" /\ UNCHANGED <<list, handed>>
     ELSE /\ handed' = Append(handed, Head(list[pop]))
          /\ list' = [list EXCEPT ![pop] = Tail(@)] /\ UNCHANGED main
  /\ UNCHANGED <<m_pQueryList, push, m_bEndProcess, worker, pQuery, run,
                 issued, missed, late>>

\* Release sets the flag
Release ==
  /\ main \in {"idle", "failed"}
  /\ m_bEndProcess' = TRUE /\ main' = "broadcast"
  /\ UNCHANGED <<m_pQueryList, list, push, worker, pQuery, run, issued,
                 handed, missed, late>>

\* Mutant: one worker is signalled.
BroadcastOne ==
  /\ main = "broadcast" /\ main' = "join"
  /\ \/ \E w \in Worker : Waits(w) /\ worker' = [worker EXCEPT ![w] = "woken"]
     \/ (\A w \in Worker : ~Waits(w)) /\ UNCHANGED worker
  /\ late' = {w \in Worker : Deaf(w)}
  /\ UNCHANGED <<m_pQueryList, list, push, m_bEndProcess, pQuery, run, issued, handed, missed>>

\* and broadcasts once;
Broadcast ==
  /\ main = "broadcast" /\ main' = "join"
  /\ worker' = [w \in Worker |-> IF Waits(w) THEN "woken" ELSE worker[w]]
  /\ late' = {w \in Worker : Deaf(w)}
  /\ UNCHANGED <<m_pQueryList, list, push, m_bEndProcess, pQuery, run,
                 issued, handed, missed>>

\* the thread pool joins every worker, and the lists, the instances and the
\* locks are deleted with what is in them.
Join ==
  /\ main = "join" /\ \A w \in Worker : worker[w] \in {"none", "exit"}
  /\ main' = "off"
  /\ m_pQueryList' = <<>> /\ list' = [i \in {0, 1} |-> <<>>]
  /\ worker' = [w \in Worker |-> "none"] /\ late' = {}
  /\ UNCHANGED <<push, m_bEndProcess, pQuery, run, issued, handed, missed>>

-----------------------------------------------------------------------------
(* The workers: QueryExecuteProcessor::run.                               *)

\* What a step of a worker leaves alone.
Others == UNCHANGED <<mainVars, push, issued, handed, missed>>

Go(w, from, to) == worker[w] = from /\ worker' = [worker EXCEPT ![w] = to]

Wait(w) == Go(w, "start", "wait") /\ Others /\ UNCHANGED <<m_pQueryList, list, pQuery>>

WakeUp(w) ==
  /\ Spurious /\ Go(w, "wait", "woken")
  /\ Others /\ UNCHANGED <<m_pQueryList, list, pQuery>>

CheckEnd(w) ==
  /\ Go(w, "woken", IF m_bEndProcess THEN "exit" ELSE "count")
  /\ Others /\ UNCHANGED <<m_pQueryList, list, pQuery>>

\* GetCount, without a lock.
Count(w) ==
  /\ Go(w, "count", IF m_pQueryList = <<>> THEN "start" ELSE "take")
  /\ Others /\ UNCHANGED <<m_pQueryList, list, pQuery>>

\* DeleteHead, under the lock; the list may have become empty.
Take(w) ==
  /\ Go(w, "take", IF m_pQueryList = <<>> THEN "start" ELSE "execute")
  /\ IF m_pQueryList = <<>> THEN UNCHANGED <<m_pQueryList, pQuery>>
     ELSE /\ pQuery' = [pQuery EXCEPT ![w] = Head(m_pQueryList)]
          /\ m_pQueryList' = Tail(m_pQueryList)
  /\ Others /\ UNCHANGED list

\* Execute or ExecuteLargeData, whose failure is ignored.
Execute(w) ==
  Go(w, "execute", "store") /\ Others /\ UNCHANGED <<m_pQueryList, list, pQuery>>

\* Mutant: back to Wait after one query.
StoreOnce(w) ==
  /\ Go(w, "store", "start")
  /\ list' = [list EXCEPT ![push] = Append(@, pQuery[w])]
  /\ pQuery' = [pQuery EXCEPT ![w] = NoQuery]
  /\ Others /\ UNCHANGED m_pQueryList

\* AddTail to the list that is m_pQueryResultPushList now, under the lock.
Store(w) ==
  /\ Go(w, "store", "count")
  /\ list' = [list EXCEPT ![push] = Append(@, pQuery[w])]
  /\ pQuery' = [pQuery EXCEPT ![w] = NoQuery]
  /\ Others /\ UNCHANGED m_pQueryList

WorkerStep(w) == CheckEnd(w) \/ Count(w) \/ Take(w) \/ Execute(w) \/ Store(w) \/ Wait(w)

MainStep == Started \/ Signal \/ Deliver \/ Broadcast \/ Join \/ Update

Next ==
  \/ Initialize \/ MainStep \/ Release
  \/ \E q \in Query : DBQuery(q)
  \/ \E w \in Worker : WorkerStep(w) \/ WakeUp(w)

Spec == Init /\ [][Next]_vars

\* Threads run; the server calls Update in its loop.  Nobody has to call
\* DBQuery, Initialize or Release.
FairSpec == Spec /\ WF_vars(MainStep) /\ \A w \in Worker : WF_vars(WorkerStep(w))

-----------------------------------------------------------------------------
(* The type of the state: HyDatabase.h:33-49.                             *)
TypeOK ==
  /\ m_pQueryList \in Seq(Query) /\ list \in [{0, 1} -> Seq(Query)] /\ push \in {0, 1}
  /\ m_bEndProcess \in BOOLEAN
  /\ main \in {"off", "failed", "starting", "idle", "signal", "deliver", "broadcast", "join"}
  /\ worker \in [Worker -> {"none", "start", "wait", "woken", "count", "take", "execute",
                            "store", "exit"}]
  /\ pQuery \in [Worker -> Query \union {NoQuery}]
  /\ run \in Nat /\ issued \in SUBSET Query /\ handed \in Seq(Query)
  /\ missed \in BOOLEAN /\ late \subseteq Worker

\* The two lists and the hands of the workers are a queue in front of the
\* workers and a queue behind them: nothing is lost, doubled or reordered by
\* the switch of the lists (HyDatabase.cpp:191-227, QueryExecuteProcessor.cpp:46-83).
Service == INSTANCE QueryService WITH
  asked <- m_pQueryList, running <- {pQuery[w] : w \in Worker} \ {NoQuery},
  answers <- list[pop] \o list[push]

ServiceSpec == Service!Spec

\* A worker that sleeps, or is about to without another look, has a reason: a
\* query lies in the list with no worker that will look at it only if a signal
\* came while every worker was past its last look and before its Wait, or had
\* ended; and when Release waits for the workers after its one broadcast, only
\* those that were busy at it can be asleep (QueryExecuteProcessor.cpp:33-46,
\* HyDatabase.cpp:40-50, 165, 170-186).
AsleepOnlyIfMissed ==
  /\ (m_pQueryList # <<>> /\ main # "signal" /\ ~m_bEndProcess /\ ~missed)
       => \E w \in Worker : Looks(w)
  /\ main = "join" => {w \in Worker : Waits(w) \/ Deaf(w)} \subseteq late

\* A query that is given is answered, unless such a signal was missed or the
\* database is released (HyDatabase.cpp:170-227).
Answered ==
  \A q \in Query :
    (\E i \in DOMAIN m_pQueryList : m_pQueryList[i] = q)
      ~> (missed \/ m_bEndProcess \/ \E i \in 1..Len(handed) : handed[i] = q)

\* Release returns if no worker was busy at the broadcast; it is one broadcast
\* (HyDatabase.cpp:44-50, QueryExecuteProcessor.cpp:35-41).
ReleaseEnds == (main = "join" /\ late = {}) ~> (main = "off")

\* What the workers owe: answers, and the end of Release, but for the signals
\* and the broadcast that busy workers do not hear (HyDatabase.cpp:33-53,
\* 170-227).
Progress == Answered /\ ReleaseEnds
=============================================================================
