----------------------------- MODULE JsonServer -----------------------------
(***************************************************************************)
(* JsonSrv: it calls LoginSrv and DBSrv once each, turns the text of a     *)
(* client into a request to DBSrv and the answer of DBSrv back into text.  *)
(* The process may crash and be started again.                             *)
(***************************************************************************)
EXTENDS ServerLinks

VARIABLES
  run,           \* the runs so far
  up,            \* JsonSrv is running
  m_bTryConnection,   \* of each of its two ServerSessions
  link           \* their connection: "idle", "calling", "failed", "up", "lost"

jsonVars == <<run, up, m_bTryConnection, link>>

JsonInit ==
  /\ run = 0 /\ up = FALSE
  /\ m_bTryConnection = [s \in Server |-> FALSE]
  /\ link = [s \in Server |-> "idle"]

-----------------------------------------------------------------------------
\* JsonServer::Init.  Nobody calls ServerSession::Init, so that
\* m_bTryConnection is what the memory held.
Start ==
  /\ ~up /\ run < MaxRun
  /\ run' = run + 1 /\ up' = TRUE
  /\ m_bTryConnection' \in [Server -> BOOLEAN]
  /\ link' = [s \in Server |-> "idle"]
  /\ UNCHANGED linkVars

\* MaintainConnection: TryToConnect says yes once in a run.
TryToConnect(s) ==
  /\ up /\ ~m_bTryConnection[s]
  /\ m_bTryConnection' = [m_bTryConnection EXCEPT ![s] = TRUE]
  /\ link' = [link EXCEPT ![s] = "calling"]
  /\ UNCHANGED <<run, up, linkVars>>

\* Mutant: it does not say who it is.
OnConnectSilent(s) ==
  /\ up /\ link[s] = "calling" /\ serverUp[s]
  /\ link' = [link EXCEPT ![s] = "up"]
  /\ wire' = [wire EXCEPT ![s][run] = "open"]
  /\ UNCHANGED <<run, up, m_bTryConnection, serverUp, toServer, toJson, object, jsonSession>>

\* OnConnect(TRUE), which sends MSG_CONNECTION_SYN.
OnConnect(s) ==
  /\ up /\ link[s] = "calling" /\ serverUp[s]
  /\ link' = [link EXCEPT ![s] = "up"]
  /\ wire' = [wire EXCEPT ![s][run] = "open"]
  /\ toServer' = [toServer EXCEPT ![s][run] = <<Syn>>]
  /\ UNCHANGED <<run, up, m_bTryConnection, serverUp, toJson, object, jsonSession>>

\* OnConnect(FALSE): there is no second try.
OnConnectFail(s) ==
  /\ up /\ link[s] = "calling" /\ (serverUp[s] => "refuse" \in Fault)
  /\ link' = [link EXCEPT ![s] = "failed"]
  /\ UNCHANGED <<run, up, m_bTryConnection, linkVars>>

\* OnDisconnect, when the connection is seen to be gone; nor a reconnection.
OnJsonDisconnect(s) ==
  /\ up /\ link[s] = "up" /\ wire[s][run] = "broken"
  /\ link' = [link EXCEPT ![s] = "lost"]
  /\ toJson' = [toJson EXCEPT ![s][run] = <<>>]
  /\ UNCHANGED <<run, up, m_bTryConnection, serverUp, wire, toServer, object, jsonSession>>

\* NetworkObject::Send of a ServerSession.
SendTo(s, packet) ==
  toServer' = IF link[s] = "up" /\ wire[s][run] = "open"
              THEN [toServer EXCEPT ![s][run] = Append(@, packet)] ELSE toServer

\* What the JSON text of a request leads to: ParseJson and GetProtocol find a
\* protocol number in it,
HasProtocol(text) == text # "not json"

\* there is a handler for the number,
HasHandler(text) == text # "unknown"

\* and the fields that GetMsg asks for.  Otherwise the request is dropped
\* without an answer.
HasFields(text) == text # "no password"

Understood(text) == HasProtocol(text) /\ HasHandler(text) /\ HasFields(text)

\* LoginServerSession::OnRecv, ParsePacket_LJ and OnPreLogin_REQ, which keeps
\* m_wParameter, the user's key.
OnLoginRecv ==
  /\ up /\ link["login"] = "up" /\ toJson["login"][run] # <<>>
  /\ LET p == Head(toJson["login"][run]) IN
     IF Understood(p.text) THEN SendTo("db", p) ELSE UNCHANGED toServer
  /\ toJson' = [toJson EXCEPT !["login"][run] = Tail(@)]
  /\ UNCHANGED <<jsonVars, serverUp, wire, object, jsonSession>>

\* DBServerSession::OnRecv, OnPreLogin_ANC and OnPreLogin_NAK.
OnDBRecv ==
  /\ up /\ link["db"] = "up" /\ toJson["db"][run] # <<>>
  /\ SendTo("login", Head(toJson["db"][run]))
  /\ toJson' = [toJson EXCEPT !["db"][run] = Tail(@)]
  /\ UNCHANGED <<jsonVars, serverUp, wire, object, jsonSession>>

\* The process dies, and its connections with it.
Crash ==
  /\ "crash" \in Fault /\ up
  /\ up' = FALSE
  /\ wire' = [s \in Server |-> [wire[s] EXCEPT ![run] = IF @ = "open" THEN "broken" ELSE @]]
  /\ toJson' = [s \in Server |-> [toJson[s] EXCEPT ![run] = <<>>]]
  /\ UNCHANGED <<run, m_bTryConnection, link, serverUp, toServer, object, jsonSession>>

\* JsonServer::Update.
JsonUpdate ==
  \/ \E s \in Server : TryToConnect(s) \/ OnConnect(s) \/ OnConnectFail(s) \/ OnJsonDisconnect(s)
  \/ OnLoginRecv \/ OnDBRecv
=============================================================================
