------------------------------ MODULE DBServer ------------------------------
(***************************************************************************)
(* DBSrv: the handler of PreLogin_REQ runs the stored procedure and        *)
(* answers with what the first row of the result says.  All queries use    *)
(* the object on top of the query pool, whose vector of rows keeps its     *)
(* memory when it is cleared; the handler reads row 0 without asking       *)
(* whether the query gave one.                                             *)
(***************************************************************************)
EXTENDS ServerLinks

VARIABLE row     \* what the memory of row 0 of the query object holds

NoRow == [err |-> 0, from |-> <<>>]

DBInit == row = NoRow

-----------------------------------------------------------------------------
\* CreateServerSideAcceptedObject.
DBAccept(r) == Accept("db", r) /\ UNCHANGED row

\* TempServerSession::OnRecv of DBSrv.
DBRebind(r) == Rebind("db", r) /\ UNCHANGED row

DBKick(r) == Kick("db", r) /\ UNCHANGED row

\* Mutant: m_wParameter is not copied.
AnswerKeyless(p, x) ==
  [kind |-> IF x.err = 0 THEN "ANC" ELSE "NAK", key |-> 0, from |-> p.from, row |-> x.from]

\* MSG_PRELOGIN_ANC or MSG_PRELOGIN_NAK, to the request p: the key of p, and
\* the row that was read.
Answer(p, x) ==
  [kind |-> IF x.err = 0 THEN "ANC" ELSE "NAK", key |-> p.key, from |-> p.from, row |-> x.from]

\* Mutant: QueryDirect appends the new row to the ones that were there.
QueryKeepsRows(p) ==
  \/ \E e \in {0, 1} :
       /\ row' = IF row = NoRow THEN [err |-> e, from |-> p.from] ELSE row
       /\ SendToJson("db", Answer(p, row'))
       /\ UNCHANGED <<serverUp, wire>>
  \/ /\ "query" \in Fault
     /\ row # NoRow
     /\ SendToJson("db", Answer(p, row))
     /\ UNCHANGED <<serverUp, wire, row>>

\* QueryDirect gives a row for p, with or without an error code, or fails:
\* then row 0 is the row of an earlier query, or no memory at all.
Query(p) ==
  \/ \E e \in {0, 1} :
       /\ row' = [err |-> e, from |-> p.from]
       /\ SendToJson("db", Answer(p, row'))
       /\ UNCHANGED <<serverUp, wire>>
  \/ /\ "query" \in Fault
     /\ \/ row # NoRow /\ SendToJson("db", Answer(p, row)) /\ UNCHANGED <<serverUp, wire, row>>
        \/ /\ row = NoRow
           /\ serverUp' = [serverUp EXCEPT !["db"] = FALSE]
           /\ wire' = [wire EXCEPT !["db"] = [r \in Run |-> IF @[r] = "open" THEN "broken" ELSE @[r]]]
           /\ UNCHANGED <<toJson, row>>

\* JsonServerSession::OnRecv and OnPreLogin_REQ.
OnPreLoginREQ(r) ==
  /\ Hears("db", r)
  /\ Query(Head(toServer["db"][r]))
  /\ toServer' = [toServer EXCEPT !["db"][r] = Tail(@)]
  /\ UNCHANGED <<object, jsonSession>>

DBUpdate == \E r \in Run : DBAccept(r) \/ DBRebind(r) \/ DBKick(r) \/ OnPreLoginREQ(r)
=============================================================================
