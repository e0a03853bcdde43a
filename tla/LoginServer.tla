----------------------------- MODULE LoginServer -----------------------------
(***************************************************************************)
(* LoginSrv's side towards the clients: the pool of UserSession objects,   *)
(* the table from user key (the client's port) to UserSession, and the     *)
(* forwarding of a request to JsonSrv and of an answer to the client.      *)
(* Everything here runs in the main thread (IOCPServer::Update), one       *)
(* callback after the other.                                               *)
(***************************************************************************)
EXTENDS ServerLinks

CONSTANTS
  Client,        \* connections of clients
  Port,          \* the ports they come from, which several may share
  User,          \* the UserSession objects, in the order of the pool
  Text,          \* what a client may send
  MaxSends,      \* bound of the model: messages of one client
  NoUser

None == 0

ASSUME LoginAssumption ==
  /\ Port \subseteq Nat \ {0} /\ MaxSends \in Nat
  /\ User \in Seq(Nat) /\ User # <<>>
  /\ Client \subseteq Nat \ {None}
  /\ NoUser \notin {User[i] : i \in 1..Len(User)}

UserSet == {User[i] : i \in 1..Len(User)}

VARIABLES
  pool,          \* m_pUserSessionPool: its stack of free objects
  m_bFirst, m_wUserKey,   \* of each UserSession
  m_pSession,    \* of each UserSession: a client's session, or None
  m_pUserSession,  \* LoginServer's table
  conn,          \* of each client: "new", "open", "left" or "closed"
  port,          \* its port
  netObject,     \* m_pNetworkObject of its session
  inbox, sent,   \* what it sent and is not processed, and how many it sent
  answers        \* what it was sent

userVars == <<pool, m_bFirst, m_wUserKey, m_pSession, m_pUserSession>>

clientVars == <<conn, port, netObject, inbox, sent, answers>>

loginVars == <<userVars, clientVars>>

LoginInit ==
  /\ pool = User
  /\ m_bFirst = [u \in UserSet |-> TRUE]
  /\ m_wUserKey \in [UserSet -> Port \cup {0}]      \* the constructor leaves it
  /\ m_pSession = [u \in UserSet |-> None]
  /\ m_pUserSession = [p \in Port |-> NoUser]
  /\ conn = [c \in Client |-> "new"]
  /\ port = [c \in Client |-> 0]
  /\ netObject = [c \in Client |-> NoUser]
  /\ inbox = [c \in Client |-> <<>>] /\ sent = [c \in Client |-> 0]
  /\ answers = [c \in Client |-> <<>>]

-----------------------------------------------------------------------------
\* SetUserSession(key, u) on table t.
SetUserSession(t, key, u) == IF key = 0 THEN t ELSE [t EXCEPT ![key] = u]

\* Mutant: Release leaves the table.
ReleasedTableKept(u) == m_pUserSession

\* The table after Release of u.
ReleasedTable(u) == SetUserSession(m_pUserSession, m_wUserKey[u], NoUser)

\* Free onto a stack that is full drops the object: there is one band.
Freed(stack, u) == IF Len(stack) < Len(User) THEN <<u>> \o stack ELSE stack

\* A client connects; CreateClientSideAcceptedObject (Alloc, which calls
\* Release and so puts the object back, then Init), Bind, OnAccept.
OnAccept(c) ==
  /\ conn[c] = "new" /\ pool # <<>>
  /\ \E p \in Port :
       LET u == Head(pool) IN
       /\ port' = [port EXCEPT ![c] = p]
       /\ m_bFirst' = [m_bFirst EXCEPT ![u] = TRUE]
       /\ m_wUserKey' = [m_wUserKey EXCEPT ![u] = p]
       /\ m_pUserSession' = SetUserSession(ReleasedTable(u), p, u)
       /\ pool' = Freed(Freed(Tail(pool), u), u)
       /\ netObject' = [netObject EXCEPT ![c] = u]
       /\ m_pSession' = [m_pSession EXCEPT ![u] = c]
  /\ conn' = [conn EXCEPT ![c] = "open"]
  /\ UNCHANGED <<inbox, sent, answers, linkVars>>

\* UserSession::Release.
Release(u) ==
  /\ m_bFirst' = [m_bFirst EXCEPT ![u] = TRUE]
  /\ m_pUserSession' = ReleasedTable(u)
  /\ pool' = Freed(pool, u)
  /\ UNCHANGED m_wUserKey

\* The request that u forwards; "from" is not in the packet: it tells the
\* properties which message of which client this was.
Request(u, text, from) == [kind |-> "req", key |-> m_wUserKey[u], text |-> text, from |-> from]

\* UserSession::OnRecv.  A second message without an answer in between
\* releases the object.
OnRecv(c) ==
  LET u == netObject[c] IN
  /\ conn[c] = "open" /\ inbox[c] # <<>>
  /\ inbox' = [inbox EXCEPT ![c] = Tail(@)]
  /\ \/ ~m_bFirst[u] /\ Release(u) /\ UNCHANGED toJson
     \/ /\ m_bFirst[u]
        /\ m_bFirst' = [m_bFirst EXCEPT ![u] = FALSE]
        /\ IF m_wUserKey[u] = 0 THEN UNCHANGED toJson
           ELSE SendToJson("login", Request(u, Head(inbox[c]), <<c, sent[c] - Len(inbox[c]) + 1>>))
        /\ UNCHANGED <<pool, m_wUserKey, m_pUserSession>>
  /\ UNCHANGED <<m_pSession, conn, port, netObject, sent, answers>>
  /\ UNCHANGED <<serverUp, wire, toServer, object, jsonSession>>

\* KickDeadSession and DestroyClientSideAcceptedObject, after a client left.
OnDisconnect(c) ==
  LET u == netObject[c] IN
  /\ conn[c] = "left"
  /\ conn' = [conn EXCEPT ![c] = "closed"]
  /\ netObject' = [netObject EXCEPT ![c] = NoUser]
  /\ inbox' = [inbox EXCEPT ![c] = <<>>]
  /\ m_pSession' = [m_pSession EXCEPT ![u] = None]
  /\ Release(u)
  /\ UNCHANGED <<port, sent, answers, linkVars>>

\* Mutant: the answer goes to every client on the port.
SendToPort(packet) ==
  answers' = [c \in Client |-> IF port[c] = packet.key /\ conn[c] = "open"
                              THEN Append(answers[c], packet) ELSE answers[c]]

\* LoginServer::SendToClient and NetworkObject::Send: an answer whose key has
\* no user, or whose user has no session, is lost.
SendToClient(packet) ==
  LET u == IF packet.key = 0 THEN NoUser ELSE m_pUserSession[packet.key]
      c == IF u = NoUser THEN None ELSE m_pSession[u]
  IN answers' = IF c # None /\ conn[c] = "open"
                THEN [answers EXCEPT ![c] = Append(@, packet)] ELSE answers

\* JsonSession::OnRecv.
JsonOnRecv(r) ==
  /\ Hears("login", r)
  /\ SendToClient(Head(toServer["login"][r]))
  /\ toServer' = [toServer EXCEPT !["login"][r] = Tail(@)]
  /\ UNCHANGED <<userVars, conn, port, netObject, inbox, sent>>
  /\ UNCHANGED <<serverUp, wire, toJson, object, jsonSession>>

\* The clients.
ClientSends(c) ==
  /\ conn[c] = "open" /\ sent[c] < MaxSends
  /\ \E t \in Text : inbox' = [inbox EXCEPT ![c] = Append(@, t)]
  /\ sent' = [sent EXCEPT ![c] = @ + 1]
  /\ UNCHANGED <<userVars, conn, port, netObject, answers, linkVars>>

ClientLeaves(c) ==
  /\ conn[c] = "open"
  /\ conn' = [conn EXCEPT ![c] = "left"]
  /\ UNCHANGED <<userVars, port, netObject, inbox, sent, answers, linkVars>>

\* IOCPServer::Update of LoginSrv, and those who call.
LoginUpdate ==
  \/ \E c \in Client : OnAccept(c) \/ OnRecv(c) \/ OnDisconnect(c)
  \/ \E r \in Run :
       \/ JsonOnRecv(r)
       \/ (Accept("login", r) \/ Rebind("login", r) \/ Kick("login", r)) /\ UNCHANGED loginVars
=============================================================================
