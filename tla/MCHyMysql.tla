----------------------------- MODULE MCHyMysql ------------------------------
(***************************************************************************)
(* The two parts of HyMysql, one of them in each behaviour; which one is   *)
(* chosen at the start: the queue of queries with two workers, and one     *)
(* connection.  The connection executes a query of two rows, a procedure   *)
(* with two result sets, a query of two statements of which the first has  *)
(* no columns, and a large query, three of them in a row.                  *)
(***************************************************************************)
EXTENDS QueryQueue, MysqlClient

CONSTANTS select, call, multi, large

MCAnswerOf == [s \in Stmt |-> CASE s = select -> <<2>>
                               [] s = call -> <<2, 1, NoSet>>
                               [] s = multi -> <<NoSet, 2>>
                               [] s = large -> <<3, NoSet>>]

MCIsLarge == [s \in Stmt |-> s = large]

ASSUME Constants == QueryConstants

VARIABLE part

allVars == <<part, vars, clientVars>>

MCInit == part \in {"queue", "client"} /\ Init /\ ClientInit

InQueue(A) == part = "queue" /\ A /\ UNCHANGED <<part, clientVars>>

InClient(A) == part = "client" /\ A /\ UNCHANGED <<part, vars>>

MCNext == InQueue(Next) \/ InClient(ClientNext)

\* The fairness of QueryQueue.
MCSpec ==
  /\ MCInit /\ [][MCNext]_allVars
  /\ WF_allVars(InQueue(MainStep))
  /\ \A w \in Worker : WF_allVars(InQueue(WorkerStep(w)))
=============================================================================
