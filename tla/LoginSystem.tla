----------------------------- MODULE LoginSystem -----------------------------
(***************************************************************************)
(* LoginSrv, JsonSrv and DBSrv with their clients: a request goes from a   *)
(* client's UserSession to JsonSrv and DBSrv, the answer goes back by the  *)
(* user key in the packet.                                                 *)
(***************************************************************************)
EXTENDS LoginServer, JsonServer, DBServer

vars == <<linkVars, loginVars, jsonVars, row>>

Init == LinkInit /\ LoginInit /\ JsonInit /\ DBInit

\* The three servers, each one thread.
Servers ==
  \/ LoginUpdate /\ UNCHANGED <<jsonVars, row>>
  \/ JsonUpdate /\ UNCHANGED <<loginVars, row>>
  \/ DBUpdate /\ UNCHANGED <<loginVars, jsonVars>>

\* The clients and the network.
Environment ==
  \/ \E c \in Client : ClientSends(c) \/ ClientLeaves(c)
  \/ \E s \in Server, r \in Run : Break(s, r) /\ UNCHANGED loginVars

Next ==
  \/ Servers
  \/ Environment /\ UNCHANGED <<jsonVars, row>>
  \/ (Start \/ Crash) /\ UNCHANGED <<loginVars, row>>

Spec == Init /\ [][Next]_vars

\* Each server's main loop calls Update for ever, and a call of connect()
\* returns.  Clients and JsonSrv's operator need not do anything.
Fairness ==
  /\ WF_vars(LoginUpdate /\ UNCHANGED <<jsonVars, row>>)
  /\ WF_vars(JsonUpdate /\ UNCHANGED <<loginVars, row>>)
  /\ WF_vars(DBUpdate /\ UNCHANGED <<loginVars, jsonVars>>)

FairSpec == Spec /\ Fairness

-----------------------------------------------------------------------------
TypeOK ==
  /\ LinkType
  /\ m_bFirst \in [UserSet -> BOOLEAN] /\ m_wUserKey \in [UserSet -> Port \cup {0}]
  /\ pool \in Seq(UserSet) /\ Len(pool) <= Len(User)
  /\ m_pSession \in [UserSet -> Client \cup {None}]
  /\ m_pUserSession \in [Port -> UserSet \cup {NoUser}]
  /\ conn \in [Client -> {"new", "open", "left", "closed"}]
  /\ netObject \in [Client -> UserSet \cup {NoUser}]
  /\ run \in 0..MaxRun /\ up \in BOOLEAN
  /\ m_bTryConnection \in [Server -> BOOLEAN]
  /\ link \in [Server -> {"idle", "calling", "failed", "up", "lost"}]

\* Whoever the table names for a port has that port as its key, also when an
\* object is given to one client after the other (LoginServer.cpp:209-230,
\* UserSession.cpp:71-92).
TableRight ==
  \A p \in Port : m_pUserSession[p] # NoUser => m_wUserKey[m_pUserSession[p]] = p

\* The tables of the servers are right, and the state is within its types
\* (LoginServer.cpp:209-230, UserSession.cpp:71-92, LoginFactory.cpp:49-56).
TablesRight == TypeOK /\ TableRight

\* An answer goes to a client on the port of the client that asked, whatever
\* objects are shared, and whoever has come and gone since: the key goes
\* through JsonSrv and DBSrv unchanged (LoginServer.cpp:191-207,
\* Handler_FromJsonServer.cpp:73-92, Handler_FromDBServer.cpp:29-41).
AnswerToPort == \A c \in Client : \A i \in 1..Len(answers[c]) : answers[c][i].key = port[c]

\* No request is answered twice, neither to one client nor to two.
AnsweredOnce ==
  \A c, d \in Client : \A i \in 1..Len(answers[c]), j \in 1..Len(answers[d]) :
    answers[c][i].from = answers[d][j].from => c = d /\ i = j

\* While queries succeed, an answer holds the row that its own request led to,
\* although all requests share one query object (Handler_FromJsonServer.cpp:
\* 58-97, PreLoginQuery.h:36-43).
RowRight ==
  \A c \in Client : \A i \in 1..Len(answers[c]) : answers[c][i].row = answers[c][i].from

\* What a client receives is given once, and is the answer to what was asked
\* (LoginServer.cpp:191-207, Handler_FromJsonServer.cpp:58-97).
AnswersRight == AnsweredOnce /\ RowRight

\* What a client needs to be served: it stays, the others are not there or are
\* gone and have not taken its UserSession with them, and JsonSrv and DBSrv are
\* linked.
Linked(s) == up /\ link[s] = "up" /\ wire[s][run] = "open" /\ jsonSession[s] = run

Undisturbed(c) ==
  /\ conn[c] = "open" /\ sent[c] = 1 /\ m_pSession[netObject[c]] = c
  /\ \A d \in Client \ {c} : conn[d] \in {"new", "closed"}
  /\ Linked("login") /\ Linked("db")

\* A client that asks in the way expected gets an answer, unless something
\* happens that no server makes up for: another client is connected at some time
\* in between, the client asks again, or a connection between the servers is
\* lost (UserSession.cpp:71-127, LoginServer.cpp:168-207).
AsksRight(c) == Undisturbed(c) /\ inbox[c] = <<"login">>

AnsweredOrDisturbed(c) == answers[c] # <<>> \/ ~Undisturbed(c)

\* JsonSrv that has called both servers is linked to both in the end, unless a
\* connection fails or breaks, or a server has kicked its earlier connection
\* after it bound the new one (JsonServer.cpp:84-101, ServerSession.cpp:96-107).
Called(s) == up /\ link[s] = "calling"

Settled(s) ==
  ~up \/ link[s] \in {"failed", "lost"} \/ Linked(s) \/ Deaf(s) \/ ~serverUp[s]

\* What UserSession.h:31 says of m_wUserKey: "UserKey = Accept Port".
UserKeyIsPort ==
  \A c \in Client : conn[c] = "open" => m_wUserKey[netObject[c]] = port[c]
=============================================================================
