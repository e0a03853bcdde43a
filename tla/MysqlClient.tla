----------------------------- MODULE MysqlClient -----------------------------
(***************************************************************************)
(* IMysql: one connection to the database, the statements a worker         *)
(* executes on it, and the results it copies into the QueryResult.  The    *)
(* library and the server are external: a statement is answered with a     *)
(* sequence of result sets, any call may fail, the connection may be lost. *)
(***************************************************************************)
EXTENDS Naturals, Sequences

CONSTANTS
  Stmt,         \* the statements
  AnswerOf,     \* what the server answers: a sequence of result sets, each the
                \* number of its rows, or NoSet for a part without columns
  NoSet,
  IsLarge,      \* GetQueryType() = eLargeQuery
  BlobSize,     \* bytes of the blob parameter of a large query, 0 for none
  Chunk,        \* bytes that one mysql_stmt_send_long_data sends (600)
  MaxRowNum,    \* GetMaxRowNum(), which only a large query obeys
  MaxStmts,     \* bound: statements executed
  NoStmt

ASSUME ClientConstants ==
  /\ AnswerOf \in [Stmt -> Seq(Nat \union {NoSet})] /\ NoStmt \notin Stmt
  /\ IsLarge \in [Stmt -> BOOLEAN] /\ BlobSize \in Nat /\ Chunk \in Nat \ {0}
  /\ MaxRowNum \in Nat \ {0} /\ MaxStmts \in Nat

VARIABLES
  conn,       \* m_pMySql: "none", "closed", "ready" or "lost"
  unread,     \* what is left to read on it: [of |-> a statement, rows |-> result sets]
  pc,         \* where Execute or ExecuteLargeData is
  stmt,       \* the statement
  data,       \* the rows of the QueryResult: NoStmt until they are filled
  ulRow, m_ulResultRowNum, m_ulResultColNum,
  set,        \* the rows still to fetch of the result set in hand
  results,    \* MYSQL_RES that are not freed
  overwritten,  \* those of them whose pointer was overwritten
  handles,    \* MYSQL_STMT that are not closed
  unprepared, \* those that could not be prepared
  binds,      \* which of ps_bind and rs_bind are allocated
  blob,       \* the bytes of the blob that the server has, in order
  count       \* statements begun

connVars == <<conn, unread>>
rowVars == <<data, ulRow, m_ulResultRowNum, m_ulResultColNum>>
heldVars == <<results, overwritten, handles, unprepared, binds>>
clientVars == <<connVars, rowVars, heldVars, pc, stmt, set, blob, count>>

Nothing == [of |-> NoStmt, rows |-> <<>>]

ClientInit ==
  /\ conn = "none" /\ unread = Nothing /\ pc = "off" /\ stmt = NoStmt
  /\ data = <<>> /\ ulRow = 0 /\ m_ulResultRowNum = 0 /\ m_ulResultColNum = 0
  /\ set = 0 /\ results = 0 /\ overwritten = 0 /\ handles = 0 /\ unprepared = 0
  /\ binds = {}
  /\ blob = <<>> /\ count = 0

-----------------------------------------------------------------------------
(* The library, as far as IMysql sees it.                                 *)

\* A command is accepted on a connection whose answers have all been read
\* ("Commands out of sync" otherwise).
Accepts == conn = "ready" /\ unread.rows = <<>>

\* The connection is lost, with what was to be read on it.
Lose ==
  /\ conn = "ready" /\ conn' = "lost" /\ unread' = [unread EXCEPT !.rows = <<>>]
  /\ UNCHANGED <<pc, stmt, set, blob, count, rowVars, heldVars>>

At(from, to) == pc = from /\ pc' = to

-----------------------------------------------------------------------------
(* The connection.                                                        *)

\* HyDatabase::Initialize calls Init, which makes the MYSQL, and Connect; a
\* failure ends Initialize.
Connect ==
  /\ At("off", "idle") /\ conn' = "ready"
  /\ UNCHANGED <<unread, stmt, set, blob, count, rowVars, heldVars>>

ConnectFails ==
  /\ At("off", "failed") /\ conn' = "closed"
  /\ UNCHANGED <<unread, stmt, set, blob, count, rowVars, heldVars>>

\* A worker calls Execute or ExecuteLargeData with a QueryResult, which may be
\* one that was used before.
Begin(s) ==
  /\ At("idle", "try") /\ count < MaxStmts
  /\ stmt' = s /\ count' = count + 1 /\ blob' = <<>>
  /\ UNCHANGED <<connVars, rowVars, heldVars, set>>

\* What both do once TryConnect has returned.
Prepared(next) ==
  /\ pc' = next
  /\ m_ulResultColNum' = 0 /\ m_ulResultRowNum' = 0 /\ ulRow' = 0
  /\ UNCHANGED <<stmt, set, blob, count, heldVars>>

FirstStep == IF IsLarge[stmt] THEN "prepare" ELSE "query"

\* InitData, which Execute alone calls.
Emptied == data' = IF IsLarge[stmt] THEN data ELSE <<>>

\* TryConnect: when mysql_ping fails the connection is closed and opened
\* again, and nobody looks at how that went.
TryConnect ==
  /\ pc = "try"
  /\ IF Accepts THEN UNCHANGED connVars
     ELSE conn' \in {"ready", "closed"} /\ unread' = Nothing
  /\ Prepared(FirstStep) /\ Emptied

\* SQLError, and FALSE to the worker.
Fail ==
  /\ pc' = "idle"
  /\ UNCHANGED <<connVars, stmt, set, blob, count, rowVars, heldVars>>

-----------------------------------------------------------------------------
(* Execute.                                                               *)

\* mysql_real_query.
RealQuery ==
  /\ pc = "query" /\ Accepts
  /\ pc' = "store" /\ unread' = [of |-> stmt, rows |-> AnswerOf[stmt]]
  /\ UNCHANGED <<conn, stmt, set, blob, count, rowVars, heldVars>>

RealQueryFails == pc = "query" /\ Fail

Zeroed == m_ulResultRowNum' = 0 /\ m_ulResultColNum' = 0

\* mysql_store_result, which has a result set,
StoreResult ==
  /\ At("store", "row") /\ conn = "ready" /\ unread.rows # <<>> /\ Head(unread.rows) # NoSet
  /\ set' = Head(unread.rows) /\ unread' = [unread EXCEPT !.rows = Tail(@)]
  /\ results' = results + 1 /\ m_ulResultColNum' = 1
  /\ UNCHANGED <<conn, stmt, blob, count, data, ulRow, m_ulResultRowNum, overwritten,
                 handles, unprepared, binds>>

\* or NULL, for a part without columns, because the connection is lost, or because
\* the rows cannot be read or kept, which leaves them unread or not: the loop is
\* left with the number of rows set to 0, whatever rows there are.
StoreNothing ==
  /\ At("store", "idle") /\ Zeroed
  /\ \/ unread' = IF unread.rows = <<>> THEN unread ELSE [unread EXCEPT !.rows = Tail(@)]
     \/ unread.rows # <<>> /\ Head(unread.rows) # NoSet /\ UNCHANGED unread
  /\ UNCHANGED <<conn, stmt, set, blob, count, data, ulRow, heldVars>>

\* Mutant: a row is filled before it is allocated.
FetchRowUnallocated ==
  /\ pc = "row" /\ set > 0
  /\ data' = IF ulRow < Len(data) THEN [data EXCEPT ![ulRow + 1] = stmt] ELSE data
  /\ ulRow' = ulRow + 1 /\ set' = set - 1
  /\ UNCHANGED <<connVars, pc, stmt, blob, count, m_ulResultRowNum, m_ulResultColNum, heldVars>>

\* mysql_fetch_row: AllocData, and the columns of row ulRow are filled.
FetchRow ==
  /\ pc = "row" /\ set > 0
  /\ data' = [Append(data, NoStmt) EXCEPT ![ulRow + 1] = unread.of]
  /\ ulRow' = ulRow + 1 /\ set' = set - 1
  /\ UNCHANGED <<connVars, pc, stmt, blob, count, m_ulResultRowNum, m_ulResultColNum, heldVars>>

\* No row is left, and mysql_next_result: there is more, whose result
\* overwrites the pointer, or not, and the result in hand is freed.
NextResult ==
  /\ pc = "row" /\ set = 0
  /\ m_ulResultRowNum' = ulRow
  /\ IF conn = "ready" /\ unread.rows # <<>>
     THEN pc' = "store" /\ overwritten' = overwritten + 1 /\ UNCHANGED results
     ELSE pc' = "idle" /\ results' = results - 1 /\ UNCHANGED overwritten
  /\ UNCHANGED <<connVars, stmt, set, blob, count, data, ulRow, m_ulResultColNum, handles, unprepared, binds>>

-----------------------------------------------------------------------------
(* ExecuteLargeData.                                                      *)

\* mysql_stmt_init and mysql_stmt_prepare.
StmtInitFails == pc = "prepare" /\ Fail

\* The statement that was made is not closed.
PrepareFails ==
  /\ At("prepare", "idle") /\ handles' = handles + 1 /\ unprepared' = unprepared + 1
  /\ UNCHANGED <<connVars, stmt, set, blob, count, rowVars, results, overwritten, binds>>

Prepare ==
  /\ At("prepare", "blob") /\ Accepts
  /\ handles' = handles + 1 /\ binds' = {"ps_bind"}
  /\ UNCHANGED <<connVars, stmt, set, blob, count, rowVars, results, overwritten, unprepared>>

SmallerOf(a, b) == IF a < b THEN a ELSE b

\* The blob goes in pieces of Chunk bytes and a rest.
SendLongData ==
  /\ pc = "blob" /\ conn = "ready" /\ Len(blob) < BlobSize
  /\ LET lPutSize == SmallerOf(Chunk, BlobSize - Len(blob)) IN
     blob' = blob \o [i \in 1..lPutSize |-> Len(blob) + i]
  /\ UNCHANGED <<connVars, pc, stmt, set, count, rowVars, heldVars>>

BlobSent ==
  /\ At("blob", "execute") /\ Len(blob) = BlobSize
  /\ UNCHANGED <<connVars, stmt, set, blob, count, rowVars, heldVars>>

\* mysql_stmt_execute; without columns the rows are skipped.
StmtExecute ==
  /\ pc = "execute" /\ conn = "ready"
  /\ unread' = [of |-> stmt, rows |-> AnswerOf[stmt]]
  /\ IF AnswerOf[stmt] = <<>> \/ Head(AnswerOf[stmt]) = NoSet
     THEN pc' = "drain" /\ m_ulResultColNum' = 0 /\ UNCHANGED <<results, binds>>
     ELSE pc' = "buffer" /\ m_ulResultColNum' = 1 /\ results' = results + 1
          /\ binds' = binds \union {"rs_bind"}
  /\ UNCHANGED <<conn, stmt, set, blob, count, data, ulRow, m_ulResultRowNum, overwritten, handles,
                 unprepared>>

\* mysql_stmt_store_result.
Buffer ==
  /\ At("buffer", "fetch") /\ conn = "ready"
  /\ set' = Head(unread.rows) /\ unread' = [unread EXCEPT !.rows = Tail(@)]
  /\ UNCHANGED <<conn, stmt, blob, count, rowVars, heldVars>>

\* A row: AllocData adds one at the end, and row ulRow is bound and filled.
Fetch ==
  /\ pc = "fetch" /\ set > 0 /\ ulRow # MaxRowNum
  /\ data' = [Append(data, NoStmt) EXCEPT ![ulRow + 1] = unread.of]
  /\ ulRow' = ulRow + 1 /\ set' = set - 1
  /\ UNCHANGED <<connVars, pc, stmt, blob, count, m_ulResultRowNum, m_ulResultColNum, heldVars>>

\* mysql_stmt_fetch fails: the row that was allocated stays.
FetchStops ==
  /\ At("fetch", "drain") /\ set > 0 /\ ulRow # MaxRowNum
  /\ data' = Append(data, NoStmt)
  /\ UNCHANGED <<connVars, stmt, set, blob, count, ulRow, m_ulResultRowNum, m_ulResultColNum, heldVars>>

FetchDone ==
  /\ At("fetch", "drain") /\ (set = 0 \/ ulRow = MaxRowNum)
  /\ UNCHANGED <<connVars, stmt, set, blob, count, rowVars, heldVars>>

\* What every way out of ExecuteLargeData frees.
Freed ==
  /\ results' = IF "rs_bind" \in binds THEN results - 1 ELSE results
  /\ handles' = handles - 1 /\ binds' = {}
  /\ UNCHANGED <<stmt, set, blob, count, overwritten, unprepared>>

\* CLEANUPMIDOK: what is left of the answer is read and thrown away.
Cleanup ==
  /\ At("drain", "idle") /\ Freed
  /\ unread' = [unread EXCEPT !.rows = <<>>]
  /\ UNCHANGED <<conn, rowVars>>

\* What CLEANUPFAIL finds: only mysql_stmt_bind_result fails in the loop of the
\* rows, and leaves the row that was allocated for it.
Failing ==
  /\ pc \in {"blob", "execute", "buffer", "fetch"} /\ pc' = "idle" /\ Zeroed
  /\ IF pc = "fetch" THEN set > 0 /\ ulRow # MaxRowNum /\ data' = Append(data, NoStmt)
                     ELSE UNCHANGED data
  /\ UNCHANGED <<connVars, ulRow>>

\* Mutant: the statement is not closed after a failure.
CleanupFailOpen ==
  /\ Failing
  /\ results' = IF "rs_bind" \in binds THEN results - 1 ELSE results
  /\ binds' = {}
  /\ UNCHANGED <<stmt, set, blob, count, overwritten, handles, unprepared>>

\* CLEANUPFAIL, after any call that failed: what is left of the answer stays.
CleanupFail == Failing /\ Freed

-----------------------------------------------------------------------------
Large ==
  \/ StmtInitFails \/ PrepareFails \/ Prepare \/ SendLongData \/ BlobSent \/ StmtExecute
  \/ Buffer \/ Fetch \/ FetchStops \/ FetchDone \/ Cleanup \/ CleanupFail

General ==
  RealQuery \/ RealQueryFails \/ StoreResult \/ StoreNothing \/ FetchRow \/ NextResult

ClientNext ==
  \/ Connect \/ ConnectFails \/ Lose \/ (\E s \in Stmt : Begin(s)) \/ TryConnect
  \/ General \/ Large

ClientSpec == ClientInit /\ [][ClientNext]_clientVars

-----------------------------------------------------------------------------
(* The type of the state: IMysql.h, QueryResult.h:75-83.                  *)
ClientType ==
  /\ conn \in {"none", "closed", "ready", "lost"}
  /\ unread \in [of : Stmt \union {NoStmt}, rows : Seq(Nat \union {NoSet})]
  /\ pc \in {"off", "failed", "idle", "try", "query", "store", "row", "prepare", "blob",
             "execute", "buffer", "fetch", "drain"}
  /\ stmt \in Stmt \union {NoStmt} /\ data \in Seq(Stmt \union {NoStmt})
  /\ ulRow \in Nat /\ m_ulResultRowNum \in Nat /\ m_ulResultColNum \in Nat /\ set \in Nat
  /\ results \in Nat /\ overwritten \in Nat /\ handles \in Nat /\ unprepared \in Nat
  /\ binds \subseteq {"ps_bind", "rs_bind"} /\ blob \in Seq(Nat) /\ count \in 0..MaxStmts

\* Rows that were filled by a statement are rows of its own answer, never what
\* an earlier statement, one that failed or one of many parts, left unread on
\* the connection (IMysql.cpp:87-95, 97-100, 324-327, 383-403).
OwnRows ==
  pc \notin {"off", "failed", "try"} =>
    \A i \in 1..ulRow : i \in DOMAIN data /\ data[i] = stmt

\* The number of rows that a general query reports is 0 or all the rows there
\* are; a call of a procedure ends with a part without columns and reports 0
\* (IMysql.cpp:355-406).
RowNumOrZero ==
  (pc = "idle" /\ stmt # NoStmt /\ ~IsLarge[stmt]) => m_ulResultRowNum \in {0, Len(data)}

\* Between two statements nothing is held but the results whose pointer the
\* next result set overwrote, and the statements that could not be prepared:
\* every other way out of ExecuteLargeData, whichever call failed on it, has
\* closed its statement and freed its metadata and bindings once
\* (IMysql.cpp:133-138, 282-322, 355-408).
LeaksNamed ==
  pc = "idle" => results = overwritten /\ handles = unprepared /\ binds = {}

\* The server has the whole blob, once and in order, when the statement is
\* executed (IMysql.cpp:177-200).
BlobWhole == pc = "execute" => blob = [i \in 1..BlobSize |-> i]

\* The rows of a result are those of its own statement, all of them or none by
\* their number, and the server gets the whole blob (IMysql.cpp:87-100,
\* 177-200, 324-327, 355-406).
RowsRight == ClientType /\ OwnRows /\ RowNumOrZero /\ BlobWhole
=============================================================================
