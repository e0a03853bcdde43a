--------------------------- MODULE HyMysqlProofs ----------------------------
(***************************************************************************)
(* The two parts of HyMysql, each by itself.                               *)
(*                                                                         *)
(* The queue of queries for any queries, any number of workers and any     *)
(* number of starts: a worker is asleep beside a query, or while Release   *)
(* waits for it, only if it missed a signal or the broadcast, and the two  *)
(* result lists with their switch are one queue.                           *)
(*                                                                         *)
(* The rows that one connection delivers and what it holds on to, for any  *)
(* statements, whatever the server answers to them, for any bounds, and    *)
(* whichever calls of the library fail.                                    *)
(***************************************************************************)
EXTENDS QueryQueue, MysqlClient, SequenceTheorems, TLAPS

\* A worker that has a query is executing or storing it.
Busy(w) == worker[w] \in {"execute", "store"}

HandsRight == \A w \in Worker : pQuery[w] # NoQuery <=> Busy(w)

\* The workers are there between Initialize and the join.
Phases ==
  main \in {"off", "failed"} => \A w \in Worker : worker[w] = "none"

\* No query is there when m_bEndProcess is taken back, and it is set while Release
\* waits.
Flagged ==
  /\ main \in {"off", "failed", "starting"} => m_pQueryList = <<>>
  /\ main \in {"broadcast", "join"} => m_bEndProcess

AsleepInv == Flagged /\ AsleepOnlyIfMissed

\* A query is in one place only: each is given once.
Given ==
  /\ \A i \in 1..Len(m_pQueryList) : m_pQueryList[i] \in issued
  /\ \A w \in Worker : pQuery[w] # NoQuery => pQuery[w] \in issued

Once ==
  /\ \A i, j \in 1..Len(m_pQueryList) : m_pQueryList[i] = m_pQueryList[j] => i = j
  /\ \A w \in Worker, i \in 1..Len(m_pQueryList) : m_pQueryList[i] # pQuery[w]
  /\ \A v, w \in Worker : pQuery[v] # NoQuery /\ pQuery[v] = pQuery[w] => v = w

\* Outside Update's loop the list that it empties is empty.
PopEmpty == main # "deliver" => list[pop] = <<>>

IInv == TypeOK /\ HandsRight /\ Phases /\ AsleepInv /\ Given /\ Once /\ PopEmpty

-----------------------------------------------------------------------------
\* What the proofs need of sequences.
LEMMA AppendToSecond ==
  ASSUME NEW S, NEW s \in Seq(S), NEW t \in Seq(S), NEW e \in S
  PROVE  s \o Append(t, e) = Append(s \o t, e)
  <1>1. Append(t, e) = t \o <<e>> /\ <<e>> \in Seq(S)
    BY AppendIsConcat
  <1>2. s \o t \in Seq(S) /\ Append(s \o t, e) = (s \o t) \o <<e>>
    BY AppendIsConcat
  <1>3. QED
    BY <1>1, <1>2, ConcatAssociative

LEMMA HeadTailOfFirst ==
  ASSUME NEW S, NEW s \in Seq(S), NEW t \in Seq(S), s # <<>>
  PROVE  /\ s \o t # <<>> /\ Head(s \o t) = Head(s)
         /\ Tail(s \o t) = Tail(s) \o t
  BY HeadTailProperties, ConcatProperties

LEMMA HeadTailOf ==
  ASSUME NEW S, NEW s \in Seq(S), s # <<>>
  PROVE  /\ Len(s) \in Nat \ {0} /\ Head(s) = s[1] /\ Tail(s) \in Seq(S)
         /\ Len(Tail(s)) = Len(s) - 1
         /\ \A i \in 1..Len(Tail(s)) : Tail(s)[i] = s[i + 1]
  BY HeadTailProperties, EmptySeq
-----------------------------------------------------------------------------
LEMMA PushPop == ASSUME push \in {0, 1} PROVE pop \in {0, 1} /\ pop # push /\ 1 - pop = push
  BY DEF pop

LEMMA InitHolds == ASSUME QueryConstants, Init PROVE IInv
  <1>1. push \in {0, 1} /\ list \in [{0, 1} -> Seq(Query)] /\ m_pQueryList \in Seq(Query)
    BY DEF Init
  <1>2. handed \in Seq(Query) /\ issued \in SUBSET Query /\ run \in Nat
    BY DEF Init
  <1>3. pQuery \in [Worker -> Query \union {NoQuery}]
    BY DEF Init
  <1>4. worker \in [Worker -> {"none", "start", "wait", "woken", "count", "take", "execute",
                               "store", "exit"}]
    BY DEF Init
  <1>5. TypeOK
    BY <1>1, <1>2, <1>3, <1>4 DEF Init, TypeOK
  <1>6. HandsRight /\ Phases /\ AsleepInv
    BY DEF Init, HandsRight, Busy, Phases, AsleepInv, Flagged, AsleepOnlyIfMissed
  <1>7. Given /\ Once
    BY DEF Init, Given, Once
  <1>8. PopEmpty
    BY <1>1, PushPop DEF Init, PopEmpty
  <1>9. QED
    BY <1>5, <1>6, <1>7, <1>8 DEF IInv

-----------------------------------------------------------------------------
LEMMA NextTyped == ASSUME QueryConstants, TypeOK, HandsRight, [Next]_vars PROVE TypeOK'
  <1> USE DEF TypeOK, mainVars, Others, Go
  <1>1. CASE Initialize
    BY <1>1 DEF Initialize
  <1>2. CASE Started
    BY <1>2 DEF Started
  <1>3. ASSUME NEW q \in Query, DBQuery(q) PROVE TypeOK'
    BY <1>3, AppendProperties DEF DBQuery
  <1>4. CASE Signal
    <2>1. missed' \in BOOLEAN
      BY <1>4 DEF Signal
    <2>2. worker' \in [Worker -> {"none", "start", "wait", "woken", "count", "take", "execute",
                                 "store", "exit"}]
      BY <1>4 DEF Signal
    <2>3. QED
      BY <1>4, <2>1, <2>2 DEF Signal
  <1>5. CASE Update
    BY <1>5, PushPop DEF Update
  <1>6. CASE Deliver
    <2>1. pop \in {0, 1} /\ list[pop] \in Seq(Query)
      BY PushPop
    <2>2. CASE list[pop] = <<>>
      BY <1>6, <2>2 DEF Deliver
    <2>3. CASE list[pop] # <<>>
      <3>1. Head(list[pop]) \in Query /\ Tail(list[pop]) \in Seq(Query)
        BY <2>1, <2>3, HeadTailProperties
      <3>2. handed' = Append(handed, Head(list[pop])) /\ list' = [list EXCEPT ![pop] = Tail(@)]
        BY <1>6, <2>3 DEF Deliver
      <3>3. handed' \in Seq(Query)
        BY <3>1, <3>2, AppendProperties
      <3>4. list' \in [{0, 1} -> Seq(Query)]
        BY <2>1, <3>1, <3>2
      <3>5. QED
        BY <1>6, <3>3, <3>4 DEF Deliver
    <2>4. QED
      BY <2>2, <2>3
  <1>7. CASE Release
    BY <1>7 DEF Release
  <1>8. CASE Broadcast
    <2>1. late' \subseteq Worker
      BY <1>8 DEF Broadcast
    <2>2. worker' \in [Worker -> {"none", "start", "wait", "woken", "count", "take", "execute",
                                 "store", "exit"}]
      BY <1>8 DEF Broadcast
    <2>3. QED
      BY <1>8, <2>1, <2>2 DEF Broadcast
  <1>9. CASE Join
    <2>1. worker' = [w \in Worker |-> "none"] /\ late' = {} /\ m_pQueryList' = <<>> /\ list' = [i \in {0, 1} |-> <<>>]
      BY <1>9 DEF Join
    <2>2. worker' \in [Worker -> {"none", "start", "wait", "woken", "count", "take", "execute", "store", "exit"}]
      BY <2>1
    <2>3. << >> \in Seq(Query)
      BY EmptySeq
    <2>4. m_pQueryList' \in Seq(Query) /\ list' \in [{0, 1} -> Seq(Query)]
      BY <2>1, <2>3
    <2>5. /\ UNCHANGED <<push, m_bEndProcess, pQuery, run, issued, handed, missed>>
          /\ main' = "off" /\ late' \subseteq Worker
      BY <1>9, <2>1 DEF Join
    <2>6. QED BY <2>2, <2>4, <2>5
  <1>10. ASSUME NEW w \in Worker, Wait(w) \/ WakeUp(w) \/ CheckEnd(w) \/ Count(w) \/ Execute(w)
         PROVE  TypeOK'
    <2>1. UNCHANGED <<m_pQueryList, list, push, mainVars, pQuery, issued, handed, missed>>
      BY <1>10 DEF Wait, WakeUp, CheckEnd, Count, Execute
    <2>2. PICK from, to \in {"start", "wait", "woken", "count", "take", "execute", "store", "exit"} :
            Go(w, from, to)
      BY <1>10 DEF Wait, WakeUp, CheckEnd, Count, Execute
    <2>3. worker' \in [Worker -> {"none", "start", "wait", "woken", "count", "take", "execute",
                                 "store", "exit"}]
      BY <2>2
    <2>4. QED
      BY <2>1, <2>3
  <1>11. ASSUME NEW w \in Worker, Take(w) PROVE TypeOK'
    <2>1. CASE m_pQueryList = <<>>
      BY <1>11, <2>1 DEF Take
    <2>2. CASE m_pQueryList # <<>>
      <3>1. Head(m_pQueryList) \in Query /\ Tail(m_pQueryList) \in Seq(Query)
        BY <2>2, HeadTailProperties
      <3>2. QED
        BY <1>11, <2>2, <3>1 DEF Take
    <2>3. QED
      BY <2>1, <2>2
  <1>12. ASSUME NEW w \in Worker, Store(w), HandsRight PROVE TypeOK'
    <2>1. pQuery[w] \in Query /\ list[push] \in Seq(Query)
      BY <1>12 DEF Store, HandsRight, Busy
    <2>2. Append(list[push], pQuery[w]) \in Seq(Query)
      BY <2>1, AppendProperties
    <2>3. QED
      BY <1>12, <2>2 DEF Store
  <1>13. CASE UNCHANGED vars
    BY <1>13 DEF vars
  <1>14. QED
    BY <1>1, <1>2, <1>3, <1>4, <1>5, <1>6, <1>7, <1>8, <1>9, <1>10, <1>11, <1>12, <1>13
    DEF Next, MainStep, WorkerStep

-----------------------------------------------------------------------------
LEMMA NextHands ==
  ASSUME QueryConstants, TypeOK, HandsRight, Phases, [Next]_vars
  PROVE  HandsRight' /\ Phases'
  <1> DEFINE Goal == HandsRight' /\ Phases'
  <1> USE DEF TypeOK, HandsRight, Busy, Phases, mainVars, Others, Go
  <1>1. CASE Initialize
    BY <1>1 DEF Initialize
  <1>2. CASE Started
    BY <1>2 DEF Started
  <1>3. ASSUME NEW q \in Query, DBQuery(q) PROVE Goal
    BY <1>3 DEF DBQuery
  <1>4. CASE Signal
    BY <1>4 DEF Signal, Waits, Looks
  <1>5. CASE Update
    BY <1>5 DEF Update
  <1>6. CASE Deliver
    BY <1>6 DEF Deliver
  <1>7. CASE Release
    BY <1>7 DEF Release
  <1>8. CASE Broadcast
    BY <1>8 DEF Broadcast, Waits, Looks
  <1>9. CASE Join
    BY <1>9 DEF Join
  <1>10. ASSUME NEW w \in Worker, Wait(w) \/ WakeUp(w) \/ CheckEnd(w) \/ Count(w) \/ Execute(w)
         PROVE  Goal
    BY <1>10 DEF Wait, WakeUp, CheckEnd, Count, Execute
  <1>11. ASSUME NEW w \in Worker, Take(w) PROVE Goal
    <2>1. CASE m_pQueryList = <<>>
      BY <1>11, <2>1 DEF Take
    <2>2. CASE m_pQueryList # <<>>
      <3>1. Head(m_pQueryList) \in Query /\ NoQuery \notin Query
        BY <2>2, HeadTailProperties DEF QueryConstants
      <3>2. QED
        BY <1>11, <2>2, <3>1 DEF Take
    <2>3. QED
      BY <2>1, <2>2
  <1>12. ASSUME NEW w \in Worker, Store(w) PROVE Goal
    BY <1>12 DEF Store
  <1>13. CASE UNCHANGED vars
    BY <1>13 DEF vars
  <1>14. QED
    BY <1>1, <1>2, <1>3, <1>4, <1>5, <1>6, <1>7, <1>8, <1>9, <1>10, <1>11, <1>12, <1>13
    DEF Next, MainStep, WorkerStep

-----------------------------------------------------------------------------
\* A worker stops looking only when it has seen the list empty or the flag set.
LEMMA NextAsleep ==
  ASSUME TypeOK, AsleepInv, [Next]_vars
  PROVE  AsleepInv'
  <1> USE DEF TypeOK, AsleepInv, Flagged, AsleepOnlyIfMissed, Waits, Looks, Deaf, mainVars, Others, Go
  <1>1. CASE Initialize
    BY <1>1 DEF Initialize
  <1>2. CASE Started
    BY <1>2 DEF Started
  <1>3. ASSUME NEW q \in Query, DBQuery(q) PROVE AsleepInv'
    BY <1>3 DEF DBQuery
  <1>4. CASE Signal
    <2>1. main = "signal" /\ main' = "idle" /\ m_pQueryList' = m_pQueryList
      BY <1>4 DEF Signal
    <2>2. ASSUME ~missed' PROVE \E w \in Worker : Looks(w)'
      <3>1. PICK w \in Worker : Waits(w) \/ Looks(w)
        BY <1>4, <2>2 DEF Signal
      <3>2. CASE \E v \in Worker : Waits(v) /\ worker' = [worker EXCEPT ![v] = "woken"]
        BY <3>2
      <3>3. CASE (\A v \in Worker : ~Waits(v)) /\ UNCHANGED worker
        BY <3>1, <3>3
      <3>4. QED BY <1>4, <3>2, <3>3 DEF Signal
    <2>3. QED BY <2>1, <2>2
  <1>5. CASE Update
    BY <1>5 DEF Update
  <1>6. CASE Deliver
    BY <1>6 DEF Deliver
  <1>7. CASE Release
    BY <1>7 DEF Release
  <1>8. CASE Broadcast
    BY <1>8 DEF Broadcast
  <1>9. CASE Join
    BY <1>9 DEF Join
  <1>10. ASSUME NEW w \in Worker, Wait(w) \/ WakeUp(w) \/ CheckEnd(w) \/ Count(w) \/ Execute(w) \/ Store(w)
         PROVE  AsleepInv'
    <2>1. UNCHANGED <<m_pQueryList, main, m_bEndProcess, missed, late>>
      BY <1>10 DEF Wait, WakeUp, CheckEnd, Count, Execute, Store
    <2>2. Flagged'
      BY <2>1
    <2>3. \A v \in Worker : v # w => worker'[v] = worker[v]
      BY <1>10 DEF Wait, WakeUp, CheckEnd, Count, Execute, Store
    <2>4. (m_pQueryList # <<>> /\ ~m_bEndProcess /\ Looks(w)) => Looks(w)'
      BY <1>10 DEF Wait, WakeUp, CheckEnd, Count, Execute, Store
    <2>5. (m_bEndProcess /\ (Waits(w)' \/ Deaf(w)')) => Waits(w) \/ Deaf(w)
      BY <1>10 DEF Wait, WakeUp, CheckEnd, Count, Execute, Store
    <2>6. QED BY <2>1, <2>2, <2>3, <2>4, <2>5
  <1>11. ASSUME NEW w \in Worker, Take(w) PROVE AsleepInv'
    <2>1. /\ UNCHANGED <<main, m_bEndProcess, missed, late>>
          /\ \A v \in Worker : v # w => worker'[v] = worker[v]
      BY <1>11 DEF Take
    <2>2. /\ worker[w] = "take" /\ worker'[w] \in {"start", "execute"}
          /\ m_pQueryList = <<>> => m_pQueryList' = <<>>
          /\ m_pQueryList # <<>> => worker'[w] = "execute"
      BY <1>11 DEF Take
    <2>3. QED BY <2>1, <2>2
  <1>12. CASE UNCHANGED vars
    BY <1>12 DEF vars
  <1>13. QED
    BY <1>1, <1>2, <1>3, <1>4, <1>5, <1>6, <1>7, <1>8, <1>9, <1>10, <1>11, <1>12
    DEF Next, MainStep, WorkerStep

-----------------------------------------------------------------------------
\* A step that neither gives nor takes a query.
LEMMA SameQueries ==
  ASSUME Given, Once, m_pQueryList' \in {m_pQueryList, <<>>}, pQuery' = pQuery, issued' = issued
  PROVE  Given' /\ Once'
  BY DEF Given, Once

LEMMA NextOnce ==
  ASSUME QueryConstants, TypeOK, HandsRight, Given, Once, [Next]_vars
  PROVE  Given' /\ Once'
  <1> DEFINE Goal == Given' /\ Once'
  <1> USE DEF mainVars, Others, Go
  <1>1. CASE Initialize \/ Started \/ Signal \/ Update \/ Deliver \/ Release \/ Broadcast
    BY <1>1, SameQueries
    DEF Initialize, Started, Signal, Update, Deliver, Release, Broadcast
  <1>2. CASE Join
    BY <1>2, SameQueries DEF Join
  <1>3. ASSUME NEW q \in Query, DBQuery(q) PROVE Goal
    <2>1. /\ m_pQueryList' = Append(m_pQueryList, q) /\ issued' = issued \union {q}
          /\ q \notin issued /\ pQuery' = pQuery
      BY <1>3 DEF DBQuery
    <2>2. /\ Len(m_pQueryList') = Len(m_pQueryList) + 1 /\ Len(m_pQueryList) \in Nat
          /\ \A i \in 1..Len(m_pQueryList) : m_pQueryList'[i] = m_pQueryList[i]
          /\ m_pQueryList'[Len(m_pQueryList) + 1] = q
      BY <2>1, AppendProperties DEF TypeOK
    <2>3. \A i \in 1..Len(m_pQueryList') :
            i \in 1..Len(m_pQueryList) \/ i = Len(m_pQueryList) + 1
      BY <2>2
    <2>4. q # NoQuery
      BY DEF QueryConstants
    <2>5. Given'
      BY <2>1, <2>2, <2>3 DEF Given
    <2>6. \A i, j \in 1..Len(m_pQueryList') : m_pQueryList'[i] = m_pQueryList'[j] => i = j
      BY <2>1, <2>2, <2>3 DEF Given, Once
    <2>7. \A w \in Worker, i \in 1..Len(m_pQueryList') : m_pQueryList'[i] # pQuery'[w]
      BY <2>1, <2>2, <2>3, <2>4 DEF Given, Once
    <2>8. QED
      BY <2>1, <2>5, <2>6, <2>7 DEF Once
  <1>4. ASSUME NEW w \in Worker, Wait(w) \/ WakeUp(w) \/ CheckEnd(w) \/ Count(w) \/ Execute(w)
        PROVE  Goal
    BY <1>4, SameQueries DEF Wait, WakeUp, CheckEnd, Count, Execute
  <1>5. ASSUME NEW w \in Worker, Take(w) PROVE Goal
    <2>1. CASE m_pQueryList = <<>>
      BY <1>5, <2>1, SameQueries DEF Take
    <2>2. CASE m_pQueryList # <<>>
      <3>1. /\ m_pQueryList' = Tail(m_pQueryList)
            /\ pQuery' = [pQuery EXCEPT ![w] = Head(m_pQueryList)] /\ issued' = issued
        BY <1>5, <2>2 DEF Take
      <3>2. /\ Len(m_pQueryList) \in Nat \ {0} /\ Head(m_pQueryList) = m_pQueryList[1]
            /\ Len(m_pQueryList') = Len(m_pQueryList) - 1
            /\ \A i \in 1..Len(m_pQueryList') : m_pQueryList'[i] = m_pQueryList[i + 1]
        BY <2>2, <3>1, HeadTailOf DEF TypeOK
      <3>3. \A i \in 1..Len(m_pQueryList') : i + 1 \in 1..Len(m_pQueryList) /\ i + 1 # 1
        BY <3>2
      <3>4. 1 \in 1..Len(m_pQueryList)
        BY <3>2
      <3>5. \A v \in Worker : pQuery'[v] = IF v = w THEN m_pQueryList[1] ELSE pQuery[v]
        BY <3>1, <3>2 DEF TypeOK
      <3>6. Given'
        BY <3>1, <3>2, <3>3, <3>4, <3>5 DEF Given
      <3>7. \A i, j \in 1..Len(m_pQueryList') : m_pQueryList'[i] = m_pQueryList'[j] => i = j
        <4>1. SUFFICES ASSUME NEW i \in 1..Len(m_pQueryList'), NEW j \in 1..Len(m_pQueryList'),
                              m_pQueryList'[i] = m_pQueryList'[j]
                       PROVE  i = j
          OBVIOUS
        <4>2. i + 1 = j + 1
          BY <3>2, <3>3, <4>1 DEF Once
        <4>3. QED
          BY <4>2
      <3>8. \A v \in Worker, i \in 1..Len(m_pQueryList') : m_pQueryList'[i] # pQuery'[v]
        BY <3>2, <3>3, <3>4, <3>5 DEF Once
      <3>9. \A u, v \in Worker : pQuery'[u] # NoQuery /\ pQuery'[u] = pQuery'[v] => u = v
        BY <3>4, <3>5 DEF Once
      <3>10. QED
        BY <3>6, <3>7, <3>8, <3>9 DEF Once
    <2>3. QED
      BY <2>1, <2>2
  <1>6. ASSUME NEW w \in Worker, Store(w) PROVE Goal
    <2>1. /\ m_pQueryList' = m_pQueryList /\ issued' = issued
          /\ pQuery' = [pQuery EXCEPT ![w] = NoQuery]
      BY <1>6 DEF Store
    <2>2. \A i \in 1..Len(m_pQueryList) : m_pQueryList[i] # NoQuery
      BY DEF TypeOK, QueryConstants
    <2>3. \A v \in Worker : pQuery'[v] = IF v = w THEN NoQuery ELSE pQuery[v]
      BY <2>1 DEF TypeOK
    <2>4. QED
      BY <2>1, <2>2, <2>3 DEF Given, Once
  <1>7. CASE UNCHANGED vars
    BY <1>7, SameQueries DEF vars
  <1>8. QED
    BY <1>1, <1>2, <1>3, <1>4, <1>5, <1>6, <1>7 DEF Next, MainStep, WorkerStep

-----------------------------------------------------------------------------
LEMMA NextPopEmpty == ASSUME TypeOK, PopEmpty, [Next]_vars PROVE PopEmpty'
  <1> USE DEF PopEmpty, mainVars, Others, Go
  <1>0. /\ push \in {0, 1} /\ pop \in {0, 1} /\ pop # push
        /\ list \in [{0, 1} -> Seq(Query)]
    BY PushPop DEF TypeOK
  <1>1. CASE \/ Initialize \/ Started \/ Signal \/ Release \/ Broadcast
             \/ \E q \in Query : DBQuery(q)
    BY <1>1 DEF Initialize, Started, Signal, Release, Broadcast, DBQuery, pop
  <1>2. CASE Update
    BY <1>2 DEF Update
  <1>3. CASE Deliver
    BY <1>3 DEF Deliver, pop
  <1>4. CASE Join
    BY <1>0, <1>4 DEF Join, pop
  <1>5. ASSUME NEW w \in Worker,
               Wait(w) \/ WakeUp(w) \/ CheckEnd(w) \/ Count(w) \/ Take(w) \/ Execute(w)
        PROVE  PopEmpty'
    BY <1>5 DEF Wait, WakeUp, CheckEnd, Count, Take, Execute, pop
  <1>6. ASSUME NEW w \in Worker, Store(w) PROVE PopEmpty'
    <2>1. list'[pop] = list[pop] /\ pop' = pop /\ main' = main
      BY <1>0, <1>6 DEF Store, pop
    <2>2. QED
      BY <2>1
  <1>7. CASE UNCHANGED vars
    BY <1>7 DEF vars, pop
  <1>8. QED
    BY <1>1, <1>2, <1>3, <1>4, <1>5, <1>6, <1>7 DEF Next, MainStep, WorkerStep

-----------------------------------------------------------------------------
\* The abstract service: what is running, and what is to be handed over.
running == {pQuery[w] : w \in Worker} \ {NoQuery}

answers == list[pop] \o list[push]

StepOrStutter == [Service!Next]_(Service!vars)

LEMMA Stutters ==
  ASSUME m_pQueryList' = m_pQueryList, pQuery' = pQuery, list' = list, push' = push,
         handed' = handed
  PROVE  StepOrStutter
  BY DEF StepOrStutter, Service!vars, pop

LEMMA InitRefines == ASSUME QueryConstants, Init PROVE Service!Init
  <1>1. list[pop] = <<>> /\ list[push] = <<>>
    BY PushPop DEF Init
  <1>2. list[pop] \o list[push] = <<>>
    BY <1>1, ConcatEmptySeq, EmptySeq
  <1>3. {pQuery[w] : w \in Worker} \ {NoQuery} = {}
    BY DEF Init
  <1>4. QED
    BY <1>2, <1>3 DEF Init, Service!Init

LEMMA NextRefines ==
  ASSUME QueryConstants, IInv, [Next]_vars
  PROVE  StepOrStutter
  <1> USE DEF mainVars, Others, Go
  <1>0. /\ TypeOK /\ HandsRight /\ Phases /\ Given /\ Once /\ PopEmpty
        /\ push \in {0, 1} /\ pop \in {0, 1} /\ pop # push /\ 1 - pop = push
        /\ list[pop] \in Seq(Query) /\ list[push] \in Seq(Query)
    BY PushPop DEF IInv, TypeOK
  <1>1. CASE Initialize \/ Started \/ Signal \/ Release \/ Broadcast
    BY <1>1, Stutters DEF Initialize, Started, Signal, Release, Broadcast
  <1>2. ASSUME NEW w \in Worker, Wait(w) \/ WakeUp(w) \/ CheckEnd(w) \/ Count(w) \/ Execute(w)
        PROVE  StepOrStutter
    BY <1>2, Stutters DEF Wait, WakeUp, CheckEnd, Count, Execute
  <1>3. ASSUME NEW q \in Query, DBQuery(q) PROVE StepOrStutter
    <2>1. Service!Submit(q)
      BY <1>3 DEF DBQuery, Service!Submit, pop
    <2>2. QED
      BY <2>1 DEF StepOrStutter, Service!Next
  <1>4. CASE Update
    <2>1. push' = pop /\ pop' = push /\ list' = list /\ list[pop] = <<>>
      BY <1>0, <1>4 DEF Update, PopEmpty, pop
    <2>2. list'[pop'] \o list'[push'] = list[pop] \o list[push]
      BY <1>0, <2>1, ConcatEmptySeq
    <2>3. QED
      BY <1>4, <2>2 DEF Update, StepOrStutter, Service!vars
  <1>5. CASE Deliver
    <2>1. CASE list[pop] = <<>>
      BY <1>5, <2>1, Stutters DEF Deliver
    <2>2. CASE list[pop] # <<>>
      <3>1. /\ handed' = Append(handed, Head(list[pop]))
            /\ list' = [list EXCEPT ![pop] = Tail(@)]
            /\ pop' = pop /\ push' = push
        BY <1>5, <2>2 DEF Deliver, pop
      <3>2. list'[pop'] = Tail(list[pop]) /\ list'[push'] = list[push]
        BY <1>0, <3>1 DEF TypeOK
      <3>3. /\ list[pop] \o list[push] # <<>>
            /\ Head(list[pop] \o list[push]) = Head(list[pop])
            /\ Tail(list[pop] \o list[push]) = Tail(list[pop]) \o list[push]
        BY <1>0, <2>2, HeadTailOfFirst
      <3>4. m_pQueryList' = m_pQueryList /\ pQuery' = pQuery
        BY <1>5 DEF Deliver
      <3>5. Service!HandOver
        BY <3>1, <3>2, <3>3, <3>4 DEF Service!HandOver
      <3>6. QED
        BY <3>5 DEF StepOrStutter, Service!Next
    <2>3. QED
      BY <2>1, <2>2
  <1>6. CASE Join
    <2>1. {pQuery[w] : w \in Worker} \ {NoQuery} = {}
      BY <1>0, <1>6 DEF Join, HandsRight, Busy
    <2>2. list'[pop'] = <<>> /\ list'[push'] = <<>>
      BY <1>0, <1>6 DEF Join, pop
    <2>3. list'[pop'] \o list'[push'] = <<>>
      BY <2>2, ConcatEmptySeq, EmptySeq
    <2>4. Service!Close
      BY <1>6, <2>1, <2>3 DEF Join, Service!Close
    <2>5. QED
      BY <2>4 DEF StepOrStutter, Service!Next
  <1>7. ASSUME NEW w \in Worker, Take(w) PROVE StepOrStutter
    <2>1. CASE m_pQueryList = <<>>
      BY <1>7, <2>1, Stutters DEF Take
    <2>2. CASE m_pQueryList # <<>>
      <3>1. /\ m_pQueryList' = Tail(m_pQueryList)
            /\ pQuery' = [pQuery EXCEPT ![w] = Head(m_pQueryList)]
            /\ list' = list /\ push' = push /\ handed' = handed /\ pop' = pop
        BY <1>7, <2>2 DEF Take, pop
      <3>2. pQuery[w] = NoQuery /\ Head(m_pQueryList) \in Query /\ NoQuery \notin Query
        BY <1>0, <1>7, <2>2, HeadTailProperties DEF Take, HandsRight, Busy, TypeOK, QueryConstants
      <3>3. \A v \in Worker : pQuery'[v] = IF v = w THEN Head(m_pQueryList) ELSE pQuery[v]
        BY <1>0, <3>1 DEF TypeOK
      <3>4. {pQuery'[v] : v \in Worker} \ {NoQuery}
              = ({pQuery[v] : v \in Worker} \ {NoQuery}) \union {Head(m_pQueryList)}
        BY <3>2, <3>3
      <3>5. Service!Take
        BY <2>2, <3>1, <3>4 DEF Service!Take
      <3>6. QED
        BY <3>5 DEF StepOrStutter, Service!Next
    <2>3. QED
      BY <2>1, <2>2
  <1>8. ASSUME NEW w \in Worker, Store(w) PROVE StepOrStutter
    <2>0. /\ pQuery[w] \in Query /\ pQuery[w] # NoQuery
      BY <1>0, <1>8 DEF Store, HandsRight, Busy, TypeOK, QueryConstants
    <2> PICK q \in Query : q = pQuery[w]
      BY <2>0
    <2>1. q \in {pQuery[v] : v \in Worker} \ {NoQuery}
      BY <2>0
    <2>2. /\ list' = [list EXCEPT ![push] = Append(@, q)]
          /\ pQuery' = [pQuery EXCEPT ![w] = NoQuery]
          /\ m_pQueryList' = m_pQueryList /\ push' = push /\ handed' = handed /\ pop' = pop
      BY <1>8 DEF Store, pop
    <2>3. \A v \in Worker : pQuery'[v] = IF v = w THEN NoQuery ELSE pQuery[v]
      BY <1>0, <2>2 DEF TypeOK
    <2>4. {pQuery'[v] : v \in Worker} \ {NoQuery}
            = ({pQuery[v] : v \in Worker} \ {NoQuery}) \ {q}
      BY <1>0, <2>0, <2>3 DEF Once
    <2>5. list'[pop'] = list[pop] /\ list'[push'] = Append(list[push], q)
      BY <1>0, <2>2 DEF TypeOK
    <2>6. list[pop] \o Append(list[push], q) = Append(list[pop] \o list[push], q)
      <3>1. \A s, t \in Seq(Query) : s \o Append(t, q) = Append(s \o t, q)
        BY AppendToSecond
      <3>2. list[pop] \in Seq(Query) /\ list[push] \in Seq(Query)
        BY <1>0
      <3>3. QED
        BY <3>1, <3>2, Zenon
    <2>7. Service!Finish(q)
      BY <2>1, <2>2, <2>4, <2>5, <2>6 DEF Service!Finish
    <2>8. QED
      BY <2>1, <2>7 DEF StepOrStutter, Service!Next
  <1>9. CASE UNCHANGED vars
    BY <1>9, Stutters DEF vars
  <1>10. QED
    BY <1>1, <1>2, <1>3, <1>4, <1>5, <1>6, <1>7, <1>8, <1>9 DEF Next, MainStep, WorkerStep

-----------------------------------------------------------------------------
\* The invariant holds in every state, for any workers, queries and starts
\* (HyDatabase.cpp:19-227, QueryExecuteProcessor.cpp:22-89).
THEOREM Invariance == ASSUME QueryConstants PROVE Spec => []IInv
  <1>1. Init => IInv
    BY InitHolds
  <1>2. IInv /\ [Next]_vars => IInv'
    BY NextTyped, NextHands, NextAsleep, NextOnce, NextPopEmpty DEF IInv
  <1>3. QED
    BY <1>1, <1>2, PTL DEF Spec

\* Type correctness (HyDatabase.h:33-49).
THEOREM TypeCorrect == ASSUME QueryConstants PROVE Spec => []TypeOK
  <1>1. IInv => TypeOK
    BY DEF IInv
  <1>2. QED
    BY <1>1, Invariance, PTL

\* For any number of workers, queries and starts: a query lies in the list with
\* no worker that will look at it only if a signal was missed, and once Release
\* has made its broadcast only a worker that was busy at it can be asleep
\* (QueryExecuteProcessor.cpp:33-46, HyDatabase.cpp:40-50, 165, 170-186).
THEOREM SleepersMissed == ASSUME QueryConstants PROVE Spec => []AsleepOnlyIfMissed
  <1>1. IInv => AsleepOnlyIfMissed
    BY DEF IInv, AsleepInv
  <1>2. QED
    BY <1>1, Invariance, PTL

\* Queries are taken in the order in which they were given and handed over in
\* the order in which they were finished, each once, whatever the workers and
\* the switch of the lists do (HyDatabase.cpp:170-227,
\* QueryExecuteProcessor.cpp:46-83).
THEOREM QueueIsService == ASSUME QueryConstants PROVE Spec => ServiceSpec
  <1>1. Init => Service!Init
    BY InitRefines
  <1>2. IInv /\ [Next]_vars => [Service!Next]_(Service!vars)
    BY NextRefines DEF StepOrStutter
  <1>3. QED
    BY <1>1, <1>2, Invariance, PTL DEF Spec, ServiceSpec, Service!Spec

-----------------------------------------------------------------------------
\* Where Execute and ExecuteLargeData are, between TryConnect and their end.
InGeneral == pc \in {"query", "store", "row"}

InLarge == pc \in {"prepare", "blob", "execute", "buffer", "fetch", "drain"}

\* What is left to read belongs to the statement in hand, once it was sent; a
\* result set is there for mysql_stmt_store_result while the connection is.
AnswerInv ==
  /\ pc \in {"store", "row", "buffer", "fetch"} => unread.of = stmt
  /\ pc = "buffer" /\ conn = "ready" => unread.rows # << >> /\ Head(unread.rows) # NoSet

\* A general query has filled every row it has; no row is counted before.
RowInv ==
  /\ pc \in {"off", "failed"} => ulRow = 0 /\ stmt = NoStmt
  /\ pc \notin {"off", "failed", "idle"} => stmt \in Stmt
  /\ InGeneral => ~IsLarge[stmt] /\ Len(data) = ulRow
  /\ InLarge => IsLarge[stmt]
  /\ pc = "query" => m_ulResultRowNum = 0

\* What is held, at every step: a result set in hand, or one's columns.
HeldInv ==
  /\ results = overwritten + (IF pc = "row" \/ "rs_bind" \in binds THEN 1 ELSE 0)
  /\ ~InLarge \/ pc = "prepare" => binds = {}
  /\ pc \in {"blob", "execute"} => "rs_bind" \notin binds
  /\ handles = unprepared + (IF InLarge /\ pc # "prepare" THEN 1 ELSE 0)

\* What the server has of the blob is its beginning.
InOrder(b) == b = [i \in 1..Len(b) |-> i]

BlobInv == InOrder(blob) /\ Len(blob) <= BlobSize /\ BlobWhole

CInv == ClientType /\ OwnRows /\ RowNumOrZero /\ AnswerInv /\ RowInv /\ HeldInv /\ BlobInv

-----------------------------------------------------------------------------
Row == Stmt \union {NoStmt}

\* A row is allocated at the end and row n + 1 is filled.
LEMMA FilledFacts ==
  ASSUME NEW d \in Seq(Row), NEW n \in Nat, n <= Len(d), NEW x \in Row
  PROVE  LET e == [Append(d, NoStmt) EXCEPT ![n + 1] = x]
         IN  /\ e \in Seq(Row) /\ Len(e) = Len(d) + 1 /\ e[n + 1] = x
             /\ \A i \in 1..n : e[i] = d[i]
  <1> DEFINE a == Append(d, NoStmt)
             e == [a EXCEPT ![n + 1] = x]
  <1>1. /\ a \in Seq(Row) /\ Len(a) = Len(d) + 1 /\ Len(d) \in Nat
        /\ \A i \in 1..Len(d) : a[i] = d[i]
    BY AppendProperties, LenProperties DEF Row
  <1> HIDE DEF a
  <1>2. n + 1 \in 1..Len(a) /\ \A i \in 1..n : i \in 1..Len(d) /\ i # n + 1
    BY <1>1
  <1>3. e \in Seq(Row) /\ Len(e) = Len(a) /\ e[n + 1] = x /\ \A i \in 1..n : e[i] = a[i]
    BY <1>1, <1>2, ExceptSeq
  <1>4. QED BY <1>1, <1>2, <1>3 DEF a

\* SendLongData appends the next lPutSize bytes.
LEMMA BytesFacts ==
  ASSUME NEW b \in Seq(Nat), b = [i \in 1..Len(b) |-> i], NEW k \in Nat
  PROVE  LET c == b \o [i \in 1..k |-> Len(b) + i]
         IN  c \in Seq(Nat) /\ Len(c) = Len(b) + k /\ c = [i \in 1..Len(c) |-> i]
  <1> DEFINE n == Len(b)
             t == [i \in 1..k |-> n + i]
             c == b \o t
  <1>1. n \in Nat /\ \A i \in 1..n : b[i] = i
    <2>1. n \in Nat
      BY LenProperties
    <2> DEFINE m == Len(b)
    <2>2. b = [i \in 1..m |-> i]
      OBVIOUS
    <2> HIDE DEF m
    <2>3. \A i \in 1..m : b[i] = i
      BY <2>2
    <2>4. QED BY <2>1, <2>3 DEF m
  <1> HIDE DEF n
  <1>2. t \in Seq(Nat) /\ Len(t) = k /\ \A i \in 1..k : t[i] = n + i
    BY <1>1
  <1> HIDE DEF t
  <1>3. /\ c \in Seq(Nat) /\ Len(c) = n + k
        /\ \A i \in 1..Len(c) : c[i] = IF i <= n THEN b[i] ELSE t[i - n]
    BY <1>1, <1>2, ConcatProperties DEF n
  <1> HIDE DEF c
  <1>4. \A i \in 1..Len(c) : c[i] = i
    <2>1. TAKE i \in 1..Len(c)
    <2>2. CASE i <= n
      BY <1>1, <1>3, <2>2
    <2>3. CASE ~(i <= n)
      <3>1. i - n \in 1..k /\ c[i] = t[i - n]
        BY <1>1, <1>3, <2>3
      <3>2. t[i - n] = n + (i - n)
        BY <1>2, <3>1
      <3>3. QED BY <1>1, <3>1, <3>2
    <2>4. QED BY <2>2, <2>3
  <1>5. c = [i \in 1..Len(c) |-> i]
    <2>1. c = [i \in 1..Len(c) |-> c[i]]
      BY <1>3
    <2>2. QED BY <1>4, <2>1
  <1>6. QED BY <1>3, <1>5 DEF c, t, n

-----------------------------------------------------------------------------
\* What is held, in each step.
LEMMA HeldStep ==
  ASSUME ClientType, HeldInv, ClientNext
  PROVE  HeldInv' /\ results' \in Nat /\ overwritten' \in Nat /\ handles' \in Nat /\ unprepared' \in Nat
                  /\ binds' \subseteq {"ps_bind", "rs_bind"}
  <1>1. results \in Nat /\ overwritten \in Nat /\ handles \in Nat /\ unprepared \in Nat
        /\ binds \subseteq {"ps_bind", "rs_bind"}
    BY DEF ClientType
  <1> USE DEF HeldInv, InLarge, heldVars, At
  <1>2. CASE Connect \/ ConnectFails \/ Lose \/ (\E s \in Stmt : Begin(s)) \/ TryConnect
    BY <1>1, <1>2 DEF Connect, ConnectFails, Lose, Begin, TryConnect, Prepared, FirstStep
  <1>3. CASE RealQuery \/ RealQueryFails \/ StoreResult \/ StoreNothing \/ FetchRow
    BY <1>1, <1>3 DEF RealQuery, RealQueryFails, Fail, StoreResult, StoreNothing, FetchRow
  <1>4. CASE NextResult
    BY <1>1, <1>4 DEF NextResult
  <1>5. CASE StmtInitFails
    BY <1>1, <1>5 DEF StmtInitFails, Fail
  <1>12. CASE PrepareFails
    <2>1. /\ pc = "prepare" /\ pc' = "idle" /\ handles' = handles + 1 /\ unprepared' = unprepared + 1
          /\ UNCHANGED <<results, overwritten, binds>>
      BY <1>12 DEF PrepareFails
    <2>2. binds = {} /\ results = overwritten /\ handles = unprepared
      BY <1>1, <2>1
    <2>3. QED BY <1>1, <2>1, <2>2
  <1>11. CASE Prepare
    <2>1. /\ pc' = "blob" /\ binds' = {"ps_bind"} /\ handles' = handles + 1
          /\ UNCHANGED <<results, overwritten, unprepared>> /\ results = overwritten /\ handles = unprepared
      BY <1>1, <1>11 DEF Prepare
    <2>2. "rs_bind" \notin binds' /\ binds' \subseteq {"ps_bind", "rs_bind"}
      BY <2>1
    <2>3. HeldInv'
      BY <1>1, <2>1, <2>2
    <2>4. QED BY <1>1, <2>1, <2>2, <2>3
  <1>6. CASE SendLongData \/ BlobSent
    BY <1>1, <1>6 DEF SendLongData, BlobSent
  <1>7. CASE StmtExecute
    <2>1. /\ pc = "execute" /\ pc' \in {"drain", "buffer"} /\ UNCHANGED <<overwritten, handles, unprepared>>
          /\ \/ UNCHANGED <<results, binds>>
             \/ results' = results + 1 /\ binds' = binds \union {"rs_bind"}
      BY <1>7 DEF StmtExecute
    <2>2. handles = unprepared + 1 /\ results = overwritten /\ "rs_bind" \notin binds
      BY <1>1, <2>1
    <2>3. CASE UNCHANGED <<results, binds>>
      BY <1>1, <2>1, <2>2, <2>3
    <2>4. CASE results' = results + 1 /\ binds' = binds \union {"rs_bind"}
      <3>1. "rs_bind" \in binds' /\ binds' \subseteq {"ps_bind", "rs_bind"}
        BY <1>1, <2>4
      <3>2. QED BY <1>1, <2>1, <2>2, <2>4, <3>1
    <2>5. QED BY <2>1, <2>3, <2>4
  <1>8. CASE Buffer \/ Fetch \/ FetchStops \/ FetchDone
    BY <1>1, <1>8 DEF Buffer, Fetch, FetchStops, FetchDone
  <1>9. CASE Cleanup \/ CleanupFail
    <2>1. /\ pc \in {"drain", "blob", "execute", "buffer", "fetch"} /\ pc' = "idle"
          /\ results' = IF "rs_bind" \in binds THEN results - 1 ELSE results
          /\ handles' = handles - 1 /\ binds' = {} /\ UNCHANGED <<overwritten, unprepared>>
      BY <1>9 DEF Cleanup, CleanupFail, Failing, Freed
    <2>2. handles = unprepared + 1 /\ results = overwritten + (IF "rs_bind" \in binds THEN 1 ELSE 0)
      BY <2>1
    <2>3. results' = overwritten' /\ handles' = unprepared' /\ handles' \in Nat
      BY <1>1, <2>1, <2>2
    <2>4. "rs_bind" \notin binds' /\ binds' \subseteq {"ps_bind", "rs_bind"}
      BY <2>1
    <2>5. QED BY <1>1, <2>1, <2>3, <2>4
  <1>10. QED
    BY <1>2, <1>3, <1>4, <1>5, <1>6, <1>7, <1>8, <1>9, <1>11, <1>12
       DEF ClientNext, General, Large

\* What the server has of the blob, in each step.
LEMMA BlobStep ==
  ASSUME ClientType, BlobInv, ClientNext
  PROVE  BlobInv' /\ blob' \in Seq(Nat)
  <1>1. blob \in Seq(Nat) /\ Len(blob) \in Nat /\ BlobSize \in Nat /\ Chunk \in Nat
    BY LenProperties, ClientConstants DEF ClientType
  <1>2. ASSUME UNCHANGED blob, pc' # "execute"
        PROVE  BlobInv' /\ blob' \in Seq(Nat)
    BY <1>1, <1>2 DEF BlobInv, BlobWhole
  <1>3. CASE SendLongData
    <2> DEFINE k == SmallerOf(Chunk, BlobSize - Len(blob))
    <2>1. Len(blob) < BlobSize /\ blob' = blob \o [i \in 1..k |-> Len(blob) + i] /\ pc' # "execute"
      BY <1>3 DEF SendLongData
    <2>2. k \in Nat /\ Len(blob) + k <= BlobSize
      BY <1>1, <2>1 DEF SmallerOf
    <2> HIDE DEF k
    <2>3. blob' \in Seq(Nat) /\ Len(blob') = Len(blob) + k /\ InOrder(blob')
      <3> DEFINE c == blob \o [i \in 1..k |-> Len(blob) + i]
      <3>1. c \in Seq(Nat) /\ Len(c) = Len(blob) + k /\ c = [i \in 1..Len(c) |-> i]
        BY <1>1, <2>2, BytesFacts DEF BlobInv, InOrder
      <3>2. blob' = c
        BY <2>1
      <3> HIDE DEF c
      <3>3. InOrder(c)
        BY <3>1 DEF InOrder
      <3>4. QED BY <3>1, <3>2, <3>3
    <2>4. QED BY <2>1, <2>2, <2>3 DEF BlobInv, BlobWhole
  <1>4. CASE BlobSent
    <2>1. UNCHANGED blob /\ Len(blob) = BlobSize
      BY <1>4 DEF BlobSent
    <2>2. BlobWhole'
      BY <2>1 DEF BlobInv, InOrder, BlobWhole
    <2>3. QED BY <1>1, <2>1, <2>2 DEF BlobInv
  <1>5. ASSUME NEW s \in Stmt, Begin(s)
        PROVE  BlobInv' /\ blob' \in Seq(Nat)
    <2>1. blob' = << >> /\ pc' # "execute"
      BY <1>5 DEF Begin, At
    <2>2. << >> \in Seq(Nat) /\ Len(<< >>) = 0 /\ InOrder(<< >>)
      BY DEF InOrder
    <2>3. blob' \in Seq(Nat) /\ Len(blob') = 0 /\ InOrder(blob')
      BY <2>1, <2>2
    <2>4. QED BY <1>1, <2>1, <2>3 DEF BlobInv, BlobWhole
  <1>6. CASE Connect \/ ConnectFails \/ TryConnect \/ General
    BY <1>2, <1>6 DEF Connect, ConnectFails, TryConnect, Prepared, FirstStep, General, RealQuery,
                      RealQueryFails, Fail, StoreResult, StoreNothing, FetchRow, NextResult, At
  <1>7. CASE Lose
    BY <1>1, <1>7 DEF Lose, BlobInv, BlobWhole
  <1>8. CASE \/ StmtInitFails \/ PrepareFails \/ Prepare \/ StmtExecute \/ Buffer \/ Fetch
             \/ FetchStops \/ FetchDone \/ Cleanup \/ CleanupFail
    BY <1>2, <1>8 DEF StmtInitFails, Fail, PrepareFails, Prepare, StmtExecute, Buffer, Fetch,
                      FetchStops, FetchDone, Cleanup, CleanupFail, Failing, Freed, At
  <1>9. QED BY <1>3, <1>4, <1>5, <1>6, <1>7, <1>8 DEF ClientNext, Large

\* What is left to read on the connection, in each step.
UnreadType == unread \in [of : Row, rows : Seq(Nat \union {NoSet})]

LEMMA UnreadStep ==
  ASSUME ClientType, AnswerInv, RowInv, ClientNext
  PROVE  AnswerInv' /\ UnreadType' /\ set' \in Nat /\ conn' \in {"none", "closed", "ready", "lost"}
  <1> DEFINE Goal == /\ AnswerInv' /\ UnreadType' /\ set' \in Nat
                     /\ conn' \in {"none", "closed", "ready", "lost"}
             R == Seq(Nat \union {NoSet})
  <1>1. /\ UnreadType /\ set \in Nat /\ conn \in {"none", "closed", "ready", "lost"}
        /\ stmt \in Row
    BY DEF ClientType, UnreadType, Row
  <1>2. << >> \in R
    BY EmptySeq
  <1>3. /\ \A r \in R : r # << >> => Tail(r) \in R /\ Head(r) \in Nat \union {NoSet}
        /\ stmt \in Stmt => AnswerOf[stmt] \in R
    BY HeadTailProperties, ClientConstants
  <1> HIDE DEF R
  <1>4. unread = [of |-> unread.of, rows |-> unread.rows] /\ unread.of \in Row /\ unread.rows \in R
    BY <1>1 DEF UnreadType, R
  <1>5. ASSUME UNCHANGED <<unread, conn, stmt, set>>,
               pc' \in {"store", "row", "fetch"} => pc \in {"store", "row", "buffer", "fetch"},
               pc' # "buffer"
        PROVE  Goal
    BY <1>1, <1>5 DEF AnswerInv, UnreadType
  <1>6. CASE Connect \/ ConnectFails \/ (\E s \in Stmt : Begin(s))
    BY <1>1, <1>6 DEF Connect, ConnectFails, Begin, At, connVars, AnswerInv, UnreadType
  <1>7. CASE Lose
    BY <1>1, <1>2, <1>4, <1>7 DEF Lose, AnswerInv, UnreadType, R
  <1>8. CASE TryConnect
    <2>1. Nothing \in [of : Row, rows : R]
      BY <1>2 DEF Nothing, Row
    <2>2. pc' \in {"prepare", "query"} /\ UNCHANGED set
      BY <1>8 DEF TryConnect, Prepared, FirstStep
    <2>3. UNCHANGED connVars \/ (conn' \in {"ready", "closed"} /\ unread' = Nothing)
      BY <1>8 DEF TryConnect
    <2>4. QED BY <1>1, <2>1, <2>2, <2>3 DEF connVars, AnswerInv, UnreadType, R
  <1>9. CASE RealQuery
    BY <1>1, <1>3, <1>9 DEF RealQuery, AnswerInv, RowInv, UnreadType, R
  <1>10. CASE RealQueryFails \/ StmtInitFails \/ PrepareFails \/ Prepare \/ SendLongData \/ BlobSent
    BY <1>5, <1>10 DEF RealQueryFails, StmtInitFails, Fail, PrepareFails, Prepare, SendLongData,
                       BlobSent, At, connVars
  <1>11. CASE StoreResult
    BY <1>1, <1>3, <1>4, <1>11 DEF StoreResult, At, AnswerInv, UnreadType, R
  <1>12. CASE StoreNothing
    BY <1>1, <1>3, <1>4, <1>12 DEF StoreNothing, At, AnswerInv, UnreadType, R
  <1>13. CASE FetchRow \/ Fetch
    BY <1>1, <1>13 DEF FetchRow, Fetch, connVars, AnswerInv, UnreadType
  <1>14. CASE NextResult \/ FetchStops \/ FetchDone
    BY <1>5, <1>14 DEF NextResult, FetchStops, FetchDone, At, connVars
  <1>15. CASE StmtExecute
    BY <1>1, <1>3, <1>15 DEF StmtExecute, AnswerInv, RowInv, UnreadType, R
  <1>16. CASE Buffer
    BY <1>1, <1>3, <1>4, <1>16 DEF Buffer, At, AnswerInv, UnreadType, R
  <1>17. CASE Cleanup \/ CleanupFail
    BY <1>1, <1>2, <1>4, <1>17 DEF Cleanup, CleanupFail, Failing, Freed, At, connVars, AnswerInv, UnreadType, R
  <1>18. QED
    BY <1>6, <1>7, <1>8, <1>9, <1>10, <1>11, <1>12, <1>13, <1>14, <1>15, <1>16, <1>17
       DEF ClientNext, General, Large

-----------------------------------------------------------------------------
\* The rows of the QueryResult, in each step.
RowTypes ==
  /\ pc \in {"off", "failed", "idle", "try", "query", "store", "row", "prepare", "blob",
             "execute", "buffer", "fetch", "drain"}
  /\ stmt \in Row /\ data \in Seq(Row)
  /\ ulRow \in Nat /\ m_ulResultRowNum \in Nat /\ m_ulResultColNum \in Nat
  /\ count \in 0..MaxStmts

RowsInv == RowTypes /\ OwnRows /\ RowNumOrZero /\ RowInv

\* A step that fills no row.
LEMMA RowsKept ==
  ASSUME RowsInv, UNCHANGED <<stmt, data, ulRow, count>>, m_ulResultColNum' \in {m_ulResultColNum, 0, 1},
         \/ pc \in {"off"} /\ pc' \in {"failed", "idle"} /\ UNCHANGED m_ulResultRowNum
         \/ pc = "query" /\ pc' \in {"store", "idle"} /\ UNCHANGED m_ulResultRowNum
         \/ pc = "store" /\ pc' = "row" /\ UNCHANGED m_ulResultRowNum
         \/ pc = "store" /\ pc' = "idle" /\ m_ulResultRowNum' = 0
         \/ pc = "row" /\ pc' \in {"store", "idle"} /\ m_ulResultRowNum' = ulRow
         \/ InLarge /\ pc' \in {"idle", "blob", "execute", "buffer", "fetch", "drain"}
              /\ m_ulResultRowNum' \in {m_ulResultRowNum, 0}
         \/ pc' = pc /\ UNCHANGED m_ulResultRowNum
  PROVE  RowsInv'
  <1>1. RowTypes'
    BY DEF RowsInv, RowTypes
  <1>2. OwnRows'
    <2>1. CASE pc = "off"
      <3>1. ulRow' = 0
        BY <2>1 DEF RowsInv, RowInv
      <3>2. QED BY <3>1 DEF OwnRows
    <2>2. CASE pc # "off"
      <3>1. pc' \notin {"off", "failed", "try"} => pc \notin {"off", "failed", "try"}
        BY <2>2 DEF InLarge
      <3>2. QED BY <3>1 DEF RowsInv, OwnRows
    <2>3. QED BY <2>1, <2>2
  <1>3. RowNumOrZero'
    BY DEF RowsInv, RowTypes, RowNumOrZero, RowInv, InGeneral, InLarge
  <1>4. RowInv'
    BY DEF RowsInv, RowInv, InGeneral, InLarge
  <1>5. QED BY <1>1, <1>2, <1>3, <1>4 DEF RowsInv

\* A row is filled in either way, and a statement begins.
LEMMA RowFilled ==
  ASSUME RowsInv, AnswerInv, FetchRow \/ Fetch
  PROVE  RowsInv'
  <1>1. /\ pc \in {"row", "fetch"} /\ ulRow' = ulRow + 1
        /\ data' = [Append(data, NoStmt) EXCEPT ![ulRow + 1] = unread.of]
        /\ UNCHANGED <<pc, stmt, count, m_ulResultRowNum, m_ulResultColNum>>
    BY DEF FetchRow, Fetch
  <1>2. unread.of = stmt /\ data \in Seq(Row) /\ ulRow \in Nat /\ stmt \in Row
    BY <1>1 DEF AnswerInv, RowsInv, RowTypes
  <1>3. Len(data) \in Nat /\ DOMAIN data = 1..Len(data)
    BY <1>2, LenProperties
  <1>4. \A i \in 1..ulRow : i \in DOMAIN data /\ data[i] = stmt
    BY <1>1 DEF RowsInv, OwnRows
  <1>5. ulRow <= Len(data)
    <2>1. CASE ulRow = 0
      BY <1>3, <2>1
    <2>2. CASE ulRow # 0
      <3>1. ulRow \in 1..ulRow
        BY <1>2, <2>2
      <3>2. QED BY <1>3, <1>4, <3>1
    <2>3. QED BY <2>1, <2>2
  <1>6. /\ data' \in Seq(Row) /\ Len(data') = Len(data) + 1 /\ data'[ulRow + 1] = stmt
        /\ \A i \in 1..ulRow : data'[i] = data[i]
    BY <1>1, <1>2, <1>5, FilledFacts
  <1>7. DOMAIN data' = 1..(Len(data) + 1)
    BY <1>6, LenProperties
  <1>8. \A i \in 1..ulRow' : i \in DOMAIN data' /\ data'[i] = stmt
    <2>1. TAKE i \in 1..ulRow'
    <2>2. i \in 1..(Len(data) + 1) /\ (i = ulRow + 1 \/ i \in 1..ulRow)
      BY <1>1, <1>2, <1>3, <1>5
    <2>3. QED BY <1>4, <1>6, <1>7, <2>2
  <1>9. OwnRows'
    BY <1>1, <1>8 DEF OwnRows
  <1>10. RowTypes'
    BY <1>1, <1>2, <1>6 DEF RowsInv, RowTypes
  <1>11. RowNumOrZero'
    BY <1>1 DEF RowNumOrZero
  <1>12. RowInv'
    <2>1. pc = "row" => Len(data') = ulRow'
      BY <1>1, <1>6 DEF RowsInv, RowInv, InGeneral
    <2>2. QED BY <1>1, <2>1 DEF RowsInv, RowInv, InGeneral, InLarge
  <1>13. QED BY <1>9, <1>10, <1>11, <1>12 DEF RowsInv

LEMMA RowsBegin ==
  ASSUME RowsInv, NEW s \in Stmt, Begin(s)
  PROVE  RowsInv'
  <1>1. /\ pc = "idle" /\ pc' = "try" /\ stmt' = s /\ count < MaxStmts /\ count' = count + 1
        /\ UNCHANGED <<data, ulRow, m_ulResultRowNum, m_ulResultColNum>>
    BY DEF Begin, At, rowVars
  <1>2. MaxStmts \in Nat /\ count' \in 0..MaxStmts
    BY <1>1, ClientConstants DEF RowsInv, RowTypes
  <1>3. RowTypes'
    BY <1>1, <1>2 DEF RowsInv, RowTypes, Row
  <1>4. OwnRows' /\ RowNumOrZero'
    BY <1>1 DEF OwnRows, RowNumOrZero
  <1>5. RowInv'
    BY <1>1 DEF RowInv, InGeneral, InLarge
  <1>6. QED BY <1>3, <1>4, <1>5 DEF RowsInv

LEMMA RowsConnected ==
  ASSUME RowsInv, TryConnect
  PROVE  RowsInv'
  <1>1. /\ pc = "try" /\ pc' = IF IsLarge[stmt] THEN "prepare" ELSE "query"
        /\ data' = IF IsLarge[stmt] THEN data ELSE << >>
        /\ ulRow' = 0 /\ m_ulResultRowNum' = 0 /\ m_ulResultColNum' = 0 /\ UNCHANGED <<stmt, count>>
    BY DEF TryConnect, Prepared, FirstStep, Emptied
  <1>2. stmt \in Stmt /\ IsLarge[stmt] \in BOOLEAN
    BY <1>1, ClientConstants DEF RowsInv, RowInv
  <1>3. << >> \in Seq(Row) /\ Len(<< >>) = 0
    BY EmptySeq
  <1>4. RowTypes'
    BY <1>1, <1>2, <1>3 DEF RowsInv, RowTypes
  <1>5. OwnRows'
    BY <1>1 DEF OwnRows
  <1>6. RowNumOrZero' /\ RowInv'
    BY <1>1, <1>2, <1>3 DEF RowNumOrZero, RowInv, InGeneral, InLarge
  <1>7. QED BY <1>4, <1>5, <1>6 DEF RowsInv

\* The row that was allocated and not filled.
LEMMA RowsStop ==
  ASSUME RowsInv, pc = "fetch", pc' \in {"drain", "idle"}, data' = Append(data, NoStmt),
         UNCHANGED <<stmt, count, ulRow>>, m_ulResultRowNum' \in Nat, m_ulResultColNum' \in Nat
  PROVE  RowsInv'
  <1>1. /\ pc = "fetch" /\ pc' \in {"drain", "idle"} /\ data' = Append(data, NoStmt)
        /\ UNCHANGED <<stmt, count, ulRow>>
    OBVIOUS
  <1>2. data \in Seq(Row) /\ NoStmt \in Row /\ Len(data) \in Nat /\ DOMAIN data = 1..Len(data)
    BY LenProperties DEF RowsInv, RowTypes, Row
  <1>3. /\ data' \in Seq(Row) /\ Len(data') = Len(data) + 1
        /\ \A i \in 1..Len(data) : data'[i] = data[i]
    BY <1>1, <1>2, AppendProperties
  <1>4. DOMAIN data' = 1..(Len(data) + 1)
    BY <1>3, LenProperties
  <1>5. OwnRows'
    <2>1. \A i \in 1..ulRow : i \in 1..Len(data) /\ data[i] = stmt
      BY <1>1, <1>2 DEF RowsInv, OwnRows
    <2>2. \A i \in 1..Len(data) : i \in 1..(Len(data) + 1)
      BY <1>2
    <2>3. QED BY <1>1, <1>3, <1>4, <2>1, <2>2 DEF OwnRows
  <1>6. RowTypes'
    BY <1>1, <1>3 DEF RowsInv, RowTypes
  <1>7. RowNumOrZero' /\ RowInv'
    BY <1>1 DEF RowsInv, RowNumOrZero, RowInv, InGeneral, InLarge
  <1>8. QED BY <1>5, <1>6, <1>7 DEF RowsInv

LEMMA RowStep ==
  ASSUME RowsInv, AnswerInv, ClientNext
  PROVE  RowsInv'
  <1> USE DEF At, rowVars, InLarge
  <1>1. CASE Connect \/ ConnectFails \/ Lose
    BY <1>1, RowsKept DEF Connect, ConnectFails, Lose
  <1>2. CASE RealQuery \/ RealQueryFails \/ StoreResult
    BY <1>2, RowsKept DEF RealQuery, RealQueryFails, Fail, StoreResult
  <1>3. CASE StoreNothing
    BY <1>3, RowsKept DEF StoreNothing, Zeroed
  <1>4. CASE NextResult
    BY <1>4, RowsKept DEF NextResult
  <1>5. CASE StmtInitFails \/ PrepareFails \/ Prepare \/ SendLongData \/ BlobSent
    BY <1>5, RowsKept DEF StmtInitFails, Fail, PrepareFails, Prepare, SendLongData, BlobSent
  <1>6. CASE StmtExecute
    BY <1>6, RowsKept DEF StmtExecute
  <1>7. CASE Buffer \/ FetchDone
    BY <1>7, RowsKept DEF Buffer, FetchDone
  <1>8. CASE Cleanup
    BY <1>8, RowsKept DEF Cleanup, Freed
  <1>9. CASE CleanupFail /\ pc # "fetch"
    BY <1>9, RowsKept DEF CleanupFail, Failing, Freed, Zeroed
  <1>10. CASE CleanupFail /\ pc = "fetch"
    BY <1>10, RowsStop DEF CleanupFail, Failing, Freed, Zeroed
  <1>11. CASE FetchStops
    BY <1>11, RowsStop DEF FetchStops, RowsInv, RowTypes
  <1>12. QED
    BY <1>1, <1>2, <1>3, <1>4, <1>5, <1>6, <1>7, <1>8, <1>9, <1>10, <1>11, RowFilled, RowsBegin, RowsConnected
       DEF ClientNext, General, Large

-----------------------------------------------------------------------------
LEMMA ClientInitHolds == ClientInit => CInv
  <1> SUFFICES ASSUME ClientInit PROVE CInv
    OBVIOUS
  <1>1. \A S : << >> \in Seq(S) /\ Len(<< >>) = 0
    BY EmptySeq
  <1>2. ClientType
    BY <1>1, ClientConstants DEF ClientInit, ClientType, Nothing
  <1>3. OwnRows /\ RowNumOrZero /\ RowInv
    BY <1>1 DEF ClientInit, OwnRows, RowNumOrZero, RowInv, InGeneral, InLarge
  <1>4. AnswerInv
    BY DEF ClientInit, AnswerInv
  <1>5. HeldInv
    BY DEF ClientInit, HeldInv, InLarge
  <1>6. BlobInv
    BY <1>1, ClientConstants DEF ClientInit, BlobInv, InOrder, BlobWhole
  <1>7. QED BY <1>2, <1>3, <1>4, <1>5, <1>6 DEF CInv

LEMMA NextHolds == CInv /\ [ClientNext]_clientVars => CInv'
  <1> SUFFICES ASSUME CInv, [ClientNext]_clientVars PROVE CInv'
    OBVIOUS
  <1>1. /\ ClientType /\ AnswerInv /\ RowInv /\ HeldInv /\ BlobInv /\ RowsInv
    BY DEF CInv, RowsInv, ClientType, RowTypes, Row
  <1>2. CASE ClientNext
    <2>1. HeldInv' /\ results' \in Nat /\ overwritten' \in Nat /\ handles' \in Nat /\ unprepared' \in Nat
          /\ binds' \subseteq {"ps_bind", "rs_bind"}
      BY <1>1, <1>2, HeldStep
    <2>2. BlobInv' /\ blob' \in Seq(Nat)
      BY <1>1, <1>2, BlobStep
    <2>3. AnswerInv' /\ UnreadType' /\ set' \in Nat /\ conn' \in {"none", "closed", "ready", "lost"}
      BY <1>1, <1>2, UnreadStep
    <2>4. RowsInv'
      BY <1>1, <1>2, RowStep
    <2>5. ClientType'
      BY <2>1, <2>2, <2>3, <2>4 DEF RowsInv, RowTypes, UnreadType, Row, ClientType
    <2>6. QED BY <2>1, <2>2, <2>3, <2>4, <2>5 DEF CInv, RowsInv
  <1>3. CASE UNCHANGED clientVars
    <2>1. UNCHANGED <<conn, unread, data, ulRow, m_ulResultRowNum, m_ulResultColNum, results,
                      overwritten, handles, unprepared, binds, pc, stmt, set, blob, count>>
      BY <1>3 DEF clientVars, connVars, rowVars, heldVars
    <2>2. ClientType' /\ OwnRows' /\ RowNumOrZero'
      BY <1>1, <2>1 DEF RowsInv, ClientType, OwnRows, RowNumOrZero
    <2>3. AnswerInv' /\ RowInv'
      BY <1>1, <2>1 DEF AnswerInv, RowInv, InGeneral, InLarge
    <2>4. HeldInv' /\ BlobInv'
      BY <1>1, <2>1 DEF HeldInv, InLarge, BlobInv, BlobWhole
    <2>5. QED BY <2>2, <2>3, <2>4 DEF CInv
  <1>4. QED BY <1>2, <1>3

\* The rows that a statement delivers are those of its own answer, in whatever
\* state the connection was left; a general query reports none or all of its
\* rows; the server has the whole blob before a large statement is executed
\* (IMysql.cpp:87-100, 177-200, 324-327, 355-406): for any statements and answers,
\* sizes and numbers, and whichever calls fail.
THEOREM RowsAreRight == ClientSpec => []RowsRight
  <1>1. CInv => RowsRight
    BY DEF CInv, BlobInv, RowsRight
  <1>2. QED
    BY <1>1, ClientInitHolds, NextHolds, PTL DEF ClientSpec

\* Between two statements a connection holds no bindings, of statements only
\* those that could not be prepared, and of results only those whose pointer the
\* next result set overwrote, whatever has failed before
\* (IMysql.cpp:133-138, 282-322, 355-408).
THEOREM LeaksAreNamed == ClientSpec => []LeaksNamed
  <1>1. CInv => LeaksNamed
    BY DEF CInv, ClientType, HeldInv, InLarge, LeaksNamed
  <1>2. QED
    BY <1>1, ClientInitHolds, NextHolds, PTL DEF ClientSpec

=============================================================================
