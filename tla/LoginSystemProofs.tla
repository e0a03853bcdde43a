------------------------- MODULE LoginSystemProofs -------------------------
(***************************************************************************)
(* The three servers with their clients, for any clients, ports,           *)
(* UserSessions, runs of JsonSrv and faults, in three parts:               *)
(*                                                                         *)
(*  1. LoginSrv's table names a UserSession only for its own key, whoever  *)
(*     is given it after whom, and a server sends only through a session   *)
(*     that is bound.                                                      *)
(*  2. An answer reaches a client on the port of the client that asked:    *)
(*     the key that LoginSrv writes into a request goes through JsonSrv,   *)
(*     DBSrv and back unchanged, and LoginSrv's table leads from it to a   *)
(*     client on that port.                                                *)
(*  3. No request is answered twice, and an answer holds the row of its    *)
(*     own request: a message of a client is, as a request or as its       *)
(*     answer, in one place of all the queues.                             *)
(***************************************************************************)
EXTENDS LoginSystem, SequenceTheorems, TLAPS

(* 1. The table and the sessions of the servers.                          *)

\* A client that is connected has a UserSession, of which the handlers ask the
\* key, and whose release changes the table.
HasUser == \A c \in Client : conn[c] \in {"open", "left"} => netObject[c] \in UserSet

\* TableRight is inductive only for keys and tables of the right types, and the
\* types of what the handlers index by netObject need HasUser.
IInv == TypeOK /\ TableRight /\ SessionBack /\ HasUser

\* The parts of TypeOK: LoginSrv's objects, its clients, and JsonSrv.
UserType ==
  /\ m_bFirst \in [UserSet -> BOOLEAN] /\ m_wUserKey \in [UserSet -> Port \cup {0}]
  /\ pool \in Seq(UserSet) /\ Len(pool) <= Len(User)
  /\ m_pSession \in [UserSet -> Client \cup {None}]
  /\ m_pUserSession \in [Port -> UserSet \cup {NoUser}]

ClientType ==
  /\ conn \in [Client -> {"new", "open", "left", "closed"}]
  /\ netObject \in [Client -> UserSet \cup {NoUser}]

JsonType ==
  /\ run \in 0..MaxRun /\ up \in BOOLEAN
  /\ m_bTryConnection \in [Server -> BOOLEAN]
  /\ link \in [Server -> {"idle", "calling", "failed", "up", "lost"}]

LEMMA TypeParts == TypeOK <=> LinkType /\ UserType /\ ClientType /\ JsonType
  BY DEF TypeOK, UserType, ClientType, JsonType

-----------------------------------------------------------------------------
LEMMA PortFacts ==
  /\ 0 \notin Port /\ Port \subseteq Nat /\ None \notin Client
  /\ NoUser \notin UserSet
  /\ Len(User) \in Nat
  /\ \A i \in 1..Len(User) : User[i] \in UserSet
  <1>1. 0 \notin Port /\ Port \subseteq Nat
    <2>1. Port \subseteq Nat \ {0}
      BY LoginAssumption, Zenon
    <2>2. QED BY <2>1
  <1>2. None \notin Client
    <2>1. Client \subseteq Nat \ {None}
      BY LoginAssumption, Zenon
    <2>2. QED BY <2>1
  <1>3. NoUser \notin UserSet
    BY LoginAssumption DEF UserSet
  <1>4. Len(User) \in Nat
    <2>1. User \in Seq(Nat)
      BY LoginAssumption, Zenon
    <2>2. QED BY <2>1, LenProperties
  <1>5. \A i \in 1..Len(User) : User[i] \in UserSet
    BY DEF UserSet
  <1>6. QED
    BY <1>1, <1>2, <1>3, <1>4, <1>5

\* A UserSession is put back on the stack, or dropped.
LEMMA FreedType ==
  ASSUME NEW q \in Seq(UserSet), Len(q) <= Len(User), NEW u \in UserSet
  PROVE  Freed(q, u) \in Seq(UserSet) /\ Len(Freed(q, u)) <= Len(User)
  <1>1. << u >> \in Seq(UserSet) /\ Len(<< u >>) = 1 /\ Len(q) \in Nat /\ Len(User) \in Nat
    BY PortFacts
  <1>2. << u >> \o q \in Seq(UserSet) /\ Len(<< u >> \o q) = 1 + Len(q)
    BY <1>1, ConcatProperties
  <1>3. QED
    BY <1>1, <1>2 DEF Freed

\* Release takes the object out of the table, and only it.
LEMMA ReleasedFacts ==
  ASSUME UserType, TableRight, NEW u \in UserSet
  PROVE  /\ ReleasedTable(u) \in [Port -> UserSet \cup {NoUser}]
         /\ \A p \in Port : ReleasedTable(u)[p] # u
         /\ \A p \in Port : ReleasedTable(u)[p] # NoUser =>
              ReleasedTable(u)[p] = m_pUserSession[p]
  <1>1. CASE m_wUserKey[u] = 0
    <2>1. ReleasedTable(u) = m_pUserSession
      BY <1>1 DEF ReleasedTable, SetUserSession
    <2>2. \A p \in Port : m_pUserSession[p] # u
      BY <1>1, PortFacts DEF TableRight
    <2>3. QED BY <2>1, <2>2 DEF UserType
  <1>2. CASE m_wUserKey[u] # 0
    <2>1. m_wUserKey[u] \in Port
      BY <1>2 DEF UserType
    <2>2. ReleasedTable(u) = [m_pUserSession EXCEPT ![m_wUserKey[u]] = NoUser]
      BY <1>2 DEF ReleasedTable, SetUserSession
    <2>3. m_pUserSession \in [Port -> UserSet \cup {NoUser}] /\ u # NoUser
      BY PortFacts DEF UserType
    <2>4. \A p \in Port : m_pUserSession[p] = u => p = m_wUserKey[u]
      BY <2>3 DEF TableRight
    <2>5. QED BY <2>1, <2>2, <2>3, <2>4
  <1>3. QED BY <1>1, <1>2

\* UserSession::Release keeps the types and the table.
LEMMA ReleaseStep ==
  ASSUME UserType, TableRight, NEW u \in UserSet, Release(u),
         m_pSession' \in [UserSet -> Client \cup {None}]
  PROVE  UserType' /\ TableRight'
  <1>1. UserType'
    <2>1. m_bFirst' \in [UserSet -> BOOLEAN] /\ m_wUserKey' \in [UserSet -> Port \cup {0}]
      BY DEF UserType, Release
    <2>2. pool' \in Seq(UserSet) /\ Len(pool') <= Len(User)
      BY FreedType DEF UserType, Release
    <2>3. m_pUserSession' \in [Port -> UserSet \cup {NoUser}]
      BY ReleasedFacts DEF Release
    <2>4. QED BY <2>1, <2>2, <2>3 DEF UserType
  <1>2. TableRight'
    BY ReleasedFacts DEF TableRight, Release
  <1>3. QED BY <1>1, <1>2

\* A client is given the object on top of the stack, which may still be another
\* client's: its earlier key is taken out of the table before the new one is
\* set.
LEMMA AcceptStep ==
  ASSUME IInv, NEW c \in Client, OnAccept(c)
  PROVE  UserType' /\ ClientType' /\ TableRight' /\ HasUser'
  <1> DEFINE u == Head(pool)
  <1>1. UserType /\ ClientType /\ TableRight /\ HasUser
    BY TypeParts DEF IInv
  <1>2. PICK p \in Port :
          /\ m_bFirst' = [m_bFirst EXCEPT ![u] = TRUE]
          /\ m_wUserKey' = [m_wUserKey EXCEPT ![u] = p]
          /\ m_pUserSession' = SetUserSession(ReleasedTable(u), p, u)
          /\ pool' = Freed(Freed(Tail(pool), u), u)
          /\ netObject' = [netObject EXCEPT ![c] = u]
          /\ m_pSession' = [m_pSession EXCEPT ![u] = c]
    BY DEF OnAccept
  <1>3. pool # << >> /\ conn' = [conn EXCEPT ![c] = "open"]
    BY DEF OnAccept
  <1>4. pool \in Seq(UserSet) /\ Len(pool) <= Len(User) /\ Len(User) \in Nat
    BY <1>1, PortFacts DEF UserType
  <1>5. u \in UserSet /\ Tail(pool) \in Seq(UserSet) /\ Len(Tail(pool)) <= Len(User)
    <2>1. u \in UserSet /\ Tail(pool) \in Seq(UserSet) /\ Len(Tail(pool)) = Len(pool) - 1
      BY <1>3, <1>4, HeadTailProperties
    <2>2. QED BY <1>4, <2>1, LenProperties
  <1> HIDE DEF u
  <1>6. /\ ReleasedTable(u) \in [Port -> UserSet \cup {NoUser}]
        /\ \A r \in Port : ReleasedTable(u)[r] # u
        /\ \A r \in Port : ReleasedTable(u)[r] # NoUser => ReleasedTable(u)[r] = m_pUserSession[r]
    BY <1>1, <1>5, ReleasedFacts
  <1>7. m_pUserSession' = [ReleasedTable(u) EXCEPT ![p] = u]
    BY <1>2, PortFacts DEF SetUserSession
  <1>8. UserType'
    <2>1. pool' \in Seq(UserSet) /\ Len(pool') <= Len(User)
      BY <1>2, <1>5, FreedType
    <2>2. /\ m_bFirst' \in [UserSet -> BOOLEAN] /\ m_wUserKey' \in [UserSet -> Port \cup {0}]
          /\ m_pSession' \in [UserSet -> Client \cup {None}]
      BY <1>1, <1>2, <1>5 DEF UserType
    <2>3. m_pUserSession' \in [Port -> UserSet \cup {NoUser}]
      BY <1>5, <1>6, <1>7
    <2>4. QED BY <2>1, <2>2, <2>3 DEF UserType
  <1>9. TableRight'
    <2> SUFFICES ASSUME NEW r \in Port, m_pUserSession'[r] # NoUser
                 PROVE  m_wUserKey'[m_pUserSession'[r]] = r
      BY DEF TableRight
    <2>1. CASE r = p
      <3>1. m_pUserSession'[r] = u
        BY <2>1, <1>6, <1>7
      <3>2. QED BY <2>1, <3>1, <1>1, <1>2, <1>5 DEF UserType
    <2>2. CASE r # p
      <3>1. m_pUserSession'[r] = ReleasedTable(u)[r]
        BY <2>2, <1>6, <1>7
      <3>2. m_pUserSession'[r] = m_pUserSession[r] /\ m_pUserSession[r] # u
        BY <3>1, <1>6
      <3>3. m_wUserKey[m_pUserSession[r]] = r /\ m_pUserSession[r] \in UserSet
        BY <3>2, <1>1 DEF TableRight, UserType
      <3>4. QED BY <3>2, <3>3, <1>1, <1>2, <1>5 DEF UserType
    <2>3. QED BY <2>1, <2>2
  <1>10. ClientType' /\ HasUser'
    BY <1>1, <1>2, <1>3, <1>5 DEF ClientType, HasUser
  <1>11. QED BY <1>8, <1>9, <1>10

\* The steps of the connections to JsonSrv that both servers make.
LEMMA LinkStep ==
  ASSUME LinkType, SessionBack, NEW s \in Server, NEW r \in Run,
         Accept(s, r) \/ Rebind(s, r) \/ Kick(s, r) \/ Break(s, r)
  PROVE  LinkType' /\ SessionBack'
  <1>1. CASE Accept(s, r)
    BY <1>1 DEF Accept, LinkType, SessionBack
  <1>2. CASE Rebind(s, r)
    BY <1>2 DEF Rebind, LinkType, SessionBack, Run
  <1>3. CASE Kick(s, r)
    BY <1>3 DEF Kick, LinkType, SessionBack
  <1>4. CASE Break(s, r)
    BY <1>4 DEF Break, LinkType, SessionBack
  <1>5. QED BY <1>1, <1>2, <1>3, <1>4

\* A step that leaves LoginSrv's objects and clients alone.
LEMMA LoginAlone ==
  ASSUME IInv, UNCHANGED loginVars
  PROVE  UserType' /\ ClientType' /\ TableRight' /\ HasUser'
  BY TypeParts DEF IInv, loginVars, userVars, clientVars, UserType, ClientType, TableRight, HasUser

LEMMA LinksAlone ==
  ASSUME IInv, UNCHANGED <<serverUp, wire, object, jsonSession>>
  PROVE  LinkType' /\ SessionBack'
  BY TypeParts DEF IInv, LinkType, SessionBack

\* LoginSrv's Update.
LEMMA LoginStep ==
  ASSUME IInv, LoginUpdate
  PROVE  LinkType' /\ SessionBack' /\ UserType' /\ ClientType' /\ TableRight' /\ HasUser'
  <1>1. UserType /\ ClientType /\ TableRight /\ HasUser /\ LinkType /\ SessionBack
    BY TypeParts DEF IInv
  <1>2. ASSUME NEW c \in Client, OnAccept(c)
        PROVE  LinkType' /\ SessionBack' /\ UserType' /\ ClientType' /\ TableRight' /\ HasUser'
    <2>1. UNCHANGED <<serverUp, wire, object, jsonSession>>
      BY <1>2 DEF OnAccept, linkVars
    <2>2. QED BY <2>1, <1>2, LinksAlone, AcceptStep
  <1>3. ASSUME NEW c \in Client, OnRecv(c)
        PROVE  LinkType' /\ SessionBack' /\ UserType' /\ ClientType' /\ TableRight' /\ HasUser'
    <2> DEFINE u == netObject[c]
    <2>1. UNCHANGED <<serverUp, wire, object, jsonSession>> /\ UNCHANGED <<conn, netObject>>
      BY <1>3 DEF OnRecv
    <2>2. u \in UserSet /\ UNCHANGED m_pSession
      BY <1>1, <1>3 DEF OnRecv, HasUser
    <2> HIDE DEF u
    <2>3. m_pSession' \in [UserSet -> Client \cup {None}]
      BY <1>1, <2>2 DEF UserType
    <2>4. ASSUME Release(u)
          PROVE  UserType' /\ TableRight'
      BY <1>1, <2>2, <2>4, <2>3, ReleaseStep
    <2>5. ASSUME /\ m_bFirst' = [m_bFirst EXCEPT ![u] = FALSE]
                 /\ UNCHANGED <<pool, m_wUserKey, m_pUserSession>>
          PROVE  UserType' /\ TableRight'
      <3>1. UserType'
        BY <1>1, <2>5, <2>3 DEF UserType
      <3>2. TableRight'
        BY <1>1, <2>5 DEF TableRight
      <3>3. QED BY <3>1, <3>2
    <2>6. UserType' /\ TableRight'
      BY <1>3, <2>4, <2>5 DEF OnRecv, u
    <2>7. ClientType' /\ HasUser'
      BY <1>1, <2>1 DEF ClientType, HasUser
    <2>8. QED BY <2>1, <2>6, <2>7, LinksAlone
  <1>4. ASSUME NEW c \in Client, OnDisconnect(c)
        PROVE  LinkType' /\ SessionBack' /\ UserType' /\ ClientType' /\ TableRight' /\ HasUser'
    <2> DEFINE u == netObject[c]
    <2>1. UNCHANGED <<serverUp, wire, object, jsonSession>> /\ Release(u)
      BY <1>4 DEF OnDisconnect, linkVars
    <2>2. u \in UserSet /\ m_pSession' = [m_pSession EXCEPT ![u] = None]
      BY <1>1, <1>4 DEF OnDisconnect, HasUser
    <2>3. m_pSession' \in [UserSet -> Client \cup {None}]
      BY <1>1, <2>2 DEF UserType
    <2>4. UserType' /\ TableRight'
      BY <1>1, <2>1, <2>2, <2>3, ReleaseStep
    <2>5. ClientType' /\ HasUser'
      BY <1>1, <1>4 DEF OnDisconnect, ClientType, HasUser
    <2>6. QED BY <2>1, <2>4, <2>5, LinksAlone
  <1>5. ASSUME NEW r \in Run, JsonOnRecv(r)
        PROVE  LinkType' /\ SessionBack' /\ UserType' /\ ClientType' /\ TableRight' /\ HasUser'
    <2>1. UNCHANGED <<serverUp, wire, object, jsonSession>>
          /\ UNCHANGED userVars /\ UNCHANGED <<conn, netObject>>
      BY <1>5 DEF JsonOnRecv
    <2>2. UserType' /\ ClientType' /\ TableRight' /\ HasUser'
      BY <1>1, <2>1 DEF userVars, UserType, ClientType, TableRight, HasUser
    <2>3. QED BY <2>1, <2>2, LinksAlone
  <1>6. ASSUME NEW r \in Run, Accept("login", r) \/ Rebind("login", r) \/ Kick("login", r),
               UNCHANGED loginVars
        PROVE  LinkType' /\ SessionBack' /\ UserType' /\ ClientType' /\ TableRight' /\ HasUser'
    BY <1>1, <1>6, LinkStep, LoginAlone DEF Server
  <1>7. QED
    BY <1>2, <1>3, <1>4, <1>5, <1>6 DEF LoginUpdate

\* DBSrv's Update.  A query that fails with no row in memory ends the server.
LEMMA DBStep ==
  ASSUME IInv, DBUpdate
  PROVE  LinkType' /\ SessionBack'
  <1>1. LinkType /\ SessionBack
    BY TypeParts DEF IInv
  <1>2. PICK r \in Run : DBAccept(r) \/ DBRebind(r) \/ DBKick(r) \/ OnPreLoginREQ(r)
    BY DEF DBUpdate
  <1>3. CASE DBAccept(r) \/ DBRebind(r) \/ DBKick(r)
    BY <1>1, <1>3, LinkStep DEF DBAccept, DBRebind, DBKick, Server
  <1>4. CASE OnPreLoginREQ(r)
    <2>1. UNCHANGED <<object, jsonSession>>
      BY <1>4 DEF OnPreLoginREQ
    <2>2. \/ UNCHANGED <<serverUp, wire>>
          \/ /\ serverUp' = [serverUp EXCEPT !["db"] = FALSE]
             /\ wire' = [wire EXCEPT !["db"] =
                           [q \in Run |-> IF @[q] = "open" THEN "broken" ELSE @[q]]]
      BY <1>4 DEF OnPreLoginREQ, Query
    <2>3. serverUp' \in [Server -> BOOLEAN]
      BY <1>1, <2>2 DEF LinkType
    <2>4. wire' \in [Server -> [Run -> {"none", "open", "broken"}]]
      <3>1. "db" \in Server
        BY DEF Server
      <3>2. QED BY <1>1, <2>2, <3>1 DEF LinkType
    <2>5. QED BY <1>1, <2>1, <2>3, <2>4 DEF LinkType, SessionBack
  <1>5. QED BY <1>2, <1>3, <1>4

\* JsonSrv's Update, start and end.
LEMMA JsonStep ==
  ASSUME IInv, JsonUpdate \/ Start \/ Crash
  PROVE  LinkType' /\ SessionBack' /\ JsonType'
  <1>1. LinkType /\ SessionBack /\ JsonType /\ MaxRun \in Nat
    BY TypeParts, LinkAssumption DEF IInv
  <1>2. UNCHANGED <<object, jsonSession, serverUp>>
    BY DEF JsonUpdate, Start, Crash, TryToConnect, OnConnect, OnConnectFail, OnJsonDisconnect,
           OnLoginRecv, OnDBRecv, linkVars
  <1>3. JsonType'
    <2>1. CASE Start
      BY <1>1, <2>1 DEF Start, JsonType
    <2>2. CASE Crash
      BY <1>1, <2>2 DEF Crash, JsonType
    <2>3. ASSUME NEW s \in Server,
                 TryToConnect(s) \/ OnConnect(s) \/ OnConnectFail(s) \/ OnJsonDisconnect(s)
          PROVE  JsonType'
      BY <1>1, <2>3 DEF TryToConnect, OnConnect, OnConnectFail, OnJsonDisconnect, JsonType
    <2>4. CASE OnLoginRecv \/ OnDBRecv
      BY <1>1, <2>4 DEF OnLoginRecv, OnDBRecv, jsonVars, JsonType
    <2>5. QED BY <2>1, <2>2, <2>3, <2>4 DEF JsonUpdate
  <1>4. wire' \in [Server -> [Run -> {"none", "open", "broken"}]]
    <2>1. CASE Start
      BY <1>1, <2>1 DEF Start, linkVars, LinkType
    <2>2. CASE Crash
      <3>1. wire' = [s \in Server |-> [wire[s] EXCEPT ![run] = IF @ = "open" THEN "broken" ELSE @]]
        BY <2>2 DEF Crash
      <3>2. \A s \in Server : [wire[s] EXCEPT ![run] = IF @ = "open" THEN "broken" ELSE @]
                                \in [Run -> {"none", "open", "broken"}]
        BY <1>1 DEF LinkType
      <3>3. QED BY <3>1, <3>2
    <2>3. ASSUME NEW s \in Server,
                 TryToConnect(s) \/ OnConnect(s) \/ OnConnectFail(s) \/ OnJsonDisconnect(s)
          PROVE  wire' \in [Server -> [Run -> {"none", "open", "broken"}]]
      <3>1. wire \in [Server -> [Run -> {"none", "open", "broken"}]]
        BY <1>1 DEF LinkType
      <3>2. wire' = wire \/ wire' = [wire EXCEPT ![s] = [wire[s] EXCEPT ![run] = "open"]]
        BY <2>3 DEF TryToConnect, OnConnect, OnConnectFail, OnJsonDisconnect, linkVars
      <3>3. [wire[s] EXCEPT ![run] = "open"] \in [Run -> {"none", "open", "broken"}]
        BY <3>1
      <3>4. QED BY <3>1, <3>2, <3>3
    <2>4. CASE OnLoginRecv \/ OnDBRecv
      BY <1>1, <2>4 DEF OnLoginRecv, OnDBRecv, LinkType
    <2>5. QED BY <2>1, <2>2, <2>3, <2>4 DEF JsonUpdate
  <1>5. QED BY <1>1, <1>2, <1>3, <1>4 DEF LinkType, SessionBack

-----------------------------------------------------------------------------
LEMMA InitInv == Init => IInv
  <1> SUFFICES ASSUME Init PROVE IInv
    OBVIOUS
  <1>1. LinkType /\ SessionBack
    BY DEF Init, LinkInit, LinkType, SessionBack, Each
  <1>2. UserType
    <2>1. User \in Seq(UserSet) /\ Len(User) \in Nat
      <3>1. User \in Seq(Nat) /\ \A i \in 1..Len(User) : User[i] \in UserSet
        BY PortFacts, LoginAssumption, Zenon
      <3>2. QED BY <3>1
    <2>2. QED BY <2>1 DEF Init, LoginInit, UserType
  <1>3. ClientType /\ HasUser /\ TableRight
    <2>1. ClientType
      BY DEF Init, LoginInit, ClientType
    <2>2. HasUser
      BY DEF Init, LoginInit, HasUser
    <2>3. TableRight
      BY DEF Init, LoginInit, TableRight
    <2>4. QED BY <2>1, <2>2, <2>3
  <1>4. JsonType
    <2>1. JsonInit /\ 0 \in 0..MaxRun
      BY LinkAssumption DEF Init
    <2>2. QED BY <2>1 DEF JsonInit, JsonType
  <1>5. QED BY <1>1, <1>2, <1>3, <1>4, TypeParts DEF IInv

LEMMA NextInv == IInv /\ [Next]_vars => IInv'
  <1> SUFFICES ASSUME IInv, [Next]_vars PROVE IInv'
    OBVIOUS
  <1>1. TypeOK' <=> LinkType' /\ UserType' /\ ClientType' /\ JsonType'
    BY DEF TypeOK, UserType, ClientType, JsonType
  <1>2. UserType /\ ClientType /\ TableRight /\ HasUser /\ LinkType /\ SessionBack /\ JsonType
    BY TypeParts DEF IInv
  <1>3. UNCHANGED jsonVars => JsonType'
    BY <1>2 DEF jsonVars, JsonType
  <1>4. CASE LoginUpdate /\ UNCHANGED <<jsonVars, row>>
    BY <1>1, <1>3, <1>4, LoginStep DEF IInv
  <1>5. CASE JsonUpdate /\ UNCHANGED <<loginVars, row>>
    BY <1>1, <1>5, JsonStep, LoginAlone DEF IInv
  <1>6. CASE DBUpdate /\ UNCHANGED <<loginVars, jsonVars>>
    BY <1>1, <1>3, <1>6, DBStep, LoginAlone DEF IInv
  <1>7. CASE Environment /\ UNCHANGED <<jsonVars, row>>
    <2>1. ASSUME NEW c \in Client, ClientSends(c) \/ ClientLeaves(c)
          PROVE  IInv'
      <3>1. UNCHANGED <<userVars, netObject, linkVars>>
        BY <2>1 DEF ClientSends, ClientLeaves
      <3>2. \/ UNCHANGED conn
            \/ conn[c] = "open" /\ conn' = [conn EXCEPT ![c] = "left"]
        BY <2>1 DEF ClientSends, ClientLeaves
      <3>3. UserType' /\ TableRight'
        BY <1>2, <3>1 DEF userVars, UserType, TableRight
      <3>4. ClientType' /\ HasUser'
        BY <1>2, <3>1, <3>2 DEF ClientType, HasUser
      <3>5. LinkType' /\ SessionBack'
        BY <3>1, LinksAlone DEF linkVars
      <3>6. QED BY <1>1, <1>3, <1>7, <3>3, <3>4, <3>5 DEF IInv
    <2>2. ASSUME NEW s \in Server, NEW r \in Run, Break(s, r), UNCHANGED loginVars
          PROVE  IInv'
      BY <1>1, <1>2, <1>3, <1>7, <2>2, LinkStep, LoginAlone DEF IInv
    <2>3. QED BY <1>7, <2>1, <2>2 DEF Environment
  <1>8. CASE (Start \/ Crash) /\ UNCHANGED <<loginVars, row>>
    BY <1>1, <1>8, JsonStep, LoginAlone DEF IInv
  <1>9. CASE UNCHANGED vars
    <2>1. UNCHANGED loginVars /\ UNCHANGED jsonVars /\ UNCHANGED linkVars
      BY <1>9 DEF vars
    <2>2. QED BY <1>1, <1>3, <2>1, LoginAlone, LinksAlone DEF IInv, linkVars
  <1>10. QED
    BY <1>4, <1>5, <1>6, <1>7, <1>8, <1>9 DEF Next, Servers

LEMMA IInvHolds == Spec => []IInv
  BY InitInv, NextInv, PTL DEF Spec

\* LoginSrv's table names a UserSession only for the key it has, whoever was
\* given it after whom (LoginServer.cpp:209-230, UserSession.cpp:71-92), for any
\* clients, ports, UserSessions and faults.
THEOREM TableIsRight == Spec => []TablesRight
  <1>1. IInv => TablesRight
    BY DEF IInv, TablesRight
  <1>2. QED
    BY <1>1, IInvHolds, PTL

\* A server sends to JsonSrv only through a session that is bound to its
\* JsonSession, in whatever order runs of JsonSrv connect, crash and are kicked
\* (TempServerSession.cpp:60-64, SyncHandler.cpp:431-433).
THEOREM SessionIsBound == Spec => []SessionBack
  <1>1. IInv => SessionBack
    BY DEF IInv
  <1>2. QED
    BY <1>1, IInvHolds, PTL

-----------------------------------------------------------------------------
(* 2. The keys of answers.                                                *)

\* Which message of which client; the requests, and the answers, which hold the
\* row of their own request unless queries may fail.
From == Client \X Int

Requests == [kind : {"req"}, key : Port, text : Text, from : From]

Replies ==
  {p \in [kind : {"ANC", "NAK"}, key : Port, from : From, row : From \cup {<< >>}] :
     "query" \in Fault \/ p.row = p.from}

\* What JsonSrv sends to a server and what it gets from one.
SentTo(s) == IF s = "db" THEN Requests ELSE Replies

GotFrom(s) == IF s = "db" THEN Replies ELSE Requests

\* Only the first packet of a connection can be the one that says who calls.
SynFirst(q, S) == q \in Seq(S \cup {Syn}) /\ \A i \in 2..Len(q) : q[i] \in S

Shaped(f) == DOMAIN f = Server /\ \A s \in Server : DOMAIN f[s] = Run

\* A server has heard the first packet when JsonSession has the session, so that
\* JsonSession is never given it.
ToServerRight ==
  /\ Shaped(toServer)
  /\ \A s \in Server, r \in Run :
       /\ SynFirst(toServer[s][r], SentTo(s))
       /\ object[s][r] = "json" => toServer[s][r] \in Seq(SentTo(s))

ToJsonRight ==
  /\ Shaped(toJson)
  /\ \A s \in Server, r \in Run : toJson[s][r] \in Seq(GotFrom(s))

\* A run that has not connected has no session on the server; it connects once.
Fresh ==
  /\ up => run \in Run
  /\ \A s \in Server : ~m_bTryConnection[s] => link[s] = "idle"
  /\ \A s \in Server, r \in Run :
       r > run \/ (r = run /\ link[s] \in {"idle", "calling"}) =>
         wire[s][r] = "none" /\ object[s][r] = "none"

AskedType == inbox \in [Client -> Seq(Text)] /\ sent \in [Client -> Nat]

RowType == row \in [err : {0, 1}, from : From \cup {<< >>}]

\* The key of a UserSession is the port of the client it would send to.
PortOfClient ==
  /\ port \in [Client -> Port \cup {0}]
  /\ \A u \in UserSet : m_pSession[u] # None =>
       conn[m_pSession[u]] # "new" /\ m_wUserKey[u] = port[m_pSession[u]]

AnswersType ==
  /\ answers \in [Client -> Seq(Replies)]
  /\ \A c \in Client : conn[c] = "new" => answers[c] = << >>

\* The clients, their UserSessions and what they were sent.
ClientRight == AskedType /\ PortOfClient /\ AnswersType /\ AnswerToPort

\* AnswerToPort needs that keys arrive as they were sent, which needs that no
\* packet is taken for one of the other kind, and that the UserSession of a key
\* sends to a client of that port.
AInv == IInv /\ ToServerRight /\ ToJsonRight /\ Fresh /\ RowType /\ ClientRight

-----------------------------------------------------------------------------
\* Sequences of packets.
LEMMA SeqOps ==
  ASSUME NEW S, NEW q \in Seq(S)
  PROVE  /\ \A p \in S : Append(q, p) \in Seq(S)
         /\ q # << >> => Head(q) \in S /\ Tail(q) \in Seq(S)
         /\ SynFirst(q, S)
  <1>1. \A p \in S : Append(q, p) \in Seq(S)
    BY AppendProperties
  <1>2. q # << >> => Head(q) \in S /\ Tail(q) \in Seq(S)
    BY HeadTailProperties
  <1>3. q \in Seq(S \cup {Syn}) /\ \A i \in 2..Len(q) : q[i] \in S
    BY ElementOfSeq, LenProperties
  <1>4. QED BY <1>1, <1>2, <1>3 DEF SynFirst

LEMMA SynFirstOps ==
  ASSUME NEW S, NEW q, SynFirst(q, S)
  PROVE  /\ \A p \in S : SynFirst(Append(q, p), S)
         /\ q # << >> => Tail(q) \in Seq(S)
  <1> DEFINE T == S \cup {Syn}
  <1>1. q \in Seq(T) /\ Len(q) \in Nat /\ \A i \in 2..Len(q) : q[i] \in S
    BY LenProperties DEF SynFirst
  <1>2. ASSUME NEW p \in S PROVE SynFirst(Append(q, p), S)
    <2>1. /\ Append(q, p) \in Seq(T) /\ Len(Append(q, p)) = Len(q) + 1
          /\ \A i \in 1..Len(q) : Append(q, p)[i] = q[i]
          /\ Append(q, p)[Len(q) + 1] = p
      BY <1>1, AppendProperties
    <2>2. \A i \in 2..Len(Append(q, p)) : Append(q, p)[i] \in S
      BY <1>1, <2>1
    <2>3. QED BY <2>1, <2>2 DEF SynFirst
  <1>3. ASSUME q # << >> PROVE Tail(q) \in Seq(S)
    <2>1. /\ Tail(q) \in Seq(T) /\ Len(Tail(q)) = Len(q) - 1
          /\ \A i \in 1..Len(Tail(q)) : Tail(q)[i] = q[i + 1]
      BY <1>1, <1>3, HeadTailProperties
    <2> DEFINE t == Tail(q)
              n == Len(q)
    <2>2. t \in Seq(T) /\ Len(t) = n - 1 /\ n \in Nat /\ \A i \in 1..Len(t) : t[i] = q[i + 1]
      BY <1>1, <2>1
    <2>3. \A i \in 2..n : q[i] \in S
      BY <1>1
    <2> HIDE DEF t, n
    <2>4. ASSUME NEW i \in 1..Len(t) PROVE t[i] \in S
      <3>1. i + 1 \in 2..n
        BY <2>2
      <3>2. t[i] = q[i + 1]
        BY <2>2
      <3>3. QED BY <3>1, <3>2, <2>3
    <2>5. Len(t) \in Nat /\ DOMAIN t = 1..Len(t) /\ t = [i \in DOMAIN t |-> t[i]]
      BY <2>2, LenProperties
    <2>6. t \in [1..Len(t) -> S]
      BY <2>4, <2>5
    <2>7. t \in Seq(S)
      BY <2>5, <2>6, SeqDef
    <2>8. QED BY <2>7 DEF t
  <1>4. QED BY <1>2, <1>3

LEMMA SynFirstStart == \A S : SynFirst(<< >>, S) /\ SynFirst(<< Syn >>, S)
  BY DEF SynFirst

\* One connection to a server changes.
LEMMA PutToServer ==
  ASSUME ToServerRight, NEW s \in Server, NEW r \in Run, NEW v,
         toServer' = [toServer EXCEPT ![s][r] = v],
         SynFirst(v, SentTo(s)), object'[s][r] = "json" => v \in Seq(SentTo(s)),
         \A q \in Server, k \in Run : q # s \/ k # r => object'[q][k] = object[q][k]
  PROVE  ToServerRight'
  <1>1. /\ Shaped(toServer')
        /\ \A q \in Server, k \in Run :
             toServer'[q][k] = IF q = s /\ k = r THEN v ELSE toServer[q][k]
    BY DEF ToServerRight, Shaped
  <1>2. ASSUME NEW q \in Server, NEW k \in Run
        PROVE  /\ SynFirst(toServer'[q][k], SentTo(q))
               /\ object'[q][k] = "json" => toServer'[q][k] \in Seq(SentTo(q))
    <2>1. CASE q = s /\ k = r
      BY <1>1, <2>1
    <2>2. CASE q # s \/ k # r
      BY <1>1, <2>2 DEF ToServerRight
    <2>3. QED BY <2>1, <2>2
  <1>3. Shaped(toServer)' <=> Shaped(toServer')
    BY DEF Shaped
  <1>4. QED BY <1>1, <1>2, <1>3 DEF ToServerRight, SynFirst

\* One connection from a server changes.
LEMMA PutToJson ==
  ASSUME ToJsonRight, NEW s \in Server, NEW r \in Run, NEW v \in Seq(GotFrom(s)),
         toJson' = [toJson EXCEPT ![s][r] = v]
  PROVE  ToJsonRight'
  <1>1. /\ Shaped(toJson')
        /\ \A q \in Server, k \in Run :
             toJson'[q][k] = IF q = s /\ k = r THEN v ELSE toJson[q][k]
    BY DEF ToJsonRight, Shaped
  <1>2. ASSUME NEW q \in Server, NEW k \in Run
        PROVE  toJson'[q][k] \in Seq(GotFrom(q))
    <2>1. CASE q = s /\ k = r
      BY <1>1, <2>1
    <2>2. CASE q # s \/ k # r
      BY <1>1, <2>2 DEF ToJsonRight
    <2>3. QED BY <2>1, <2>2
  <1>3. QED BY <1>1, <1>2 DEF ToJsonRight, Shaped

-----------------------------------------------------------------------------
\* What is never connected stays so.
LEMMA FreshKept ==
  ASSUME Fresh, UNCHANGED jsonVars,
         \A s \in Server, r \in Run :
           wire[s][r] = "none" /\ object[s][r] = "none" =>
             wire'[s][r] = "none" /\ object'[s][r] = "none"
  PROVE  Fresh'
  BY DEF Fresh, jsonVars

LEMMA FreshLink ==
  ASSUME LinkType, Fresh, UNCHANGED jsonVars, NEW s \in Server, NEW r \in Run,
         Accept(s, r) \/ Rebind(s, r) \/ Kick(s, r) \/ Break(s, r)
  PROVE  Fresh'
  <1>1. ASSUME NEW q \in Server, NEW k \in Run, wire[q][k] = "none", object[q][k] = "none"
        PROVE  wire'[q][k] = "none" /\ object'[q][k] = "none"
    <2>1. CASE Accept(s, r)
      BY <1>1, <2>1 DEF Accept, LinkType
    <2>2. CASE Rebind(s, r)
      BY <1>1, <2>2 DEF Rebind, LinkType
    <2>3. CASE Kick(s, r)
      BY <1>1, <2>3 DEF Kick, LinkType
    <2>4. CASE Break(s, r)
      BY <1>1, <2>4 DEF Break, LinkType
    <2>5. QED BY <2>1, <2>2, <2>3, <2>4
  <1>2. QED BY <1>1, FreshKept

LEMMA FreshLogin ==
  ASSUME LinkType, Fresh, LoginUpdate, UNCHANGED jsonVars
  PROVE  Fresh'
  <1>1. ASSUME UNCHANGED <<wire, object>>
        PROVE  Fresh'
    BY <1>1, FreshKept
  <1>2. ASSUME NEW c \in Client, OnAccept(c) \/ OnRecv(c) \/ OnDisconnect(c)
        PROVE  Fresh'
    <2>1. UNCHANGED <<wire, object>>
      BY <1>2 DEF OnAccept, OnRecv, OnDisconnect, linkVars
    <2>2. QED BY <1>1, <2>1
  <1>3. ASSUME NEW r \in Run, JsonOnRecv(r)
        PROVE  Fresh'
    <2>1. UNCHANGED <<wire, object>>
      BY <1>3 DEF JsonOnRecv
    <2>2. QED BY <1>1, <2>1
  <1>4. ASSUME NEW r \in Run, Accept("login", r) \/ Rebind("login", r) \/ Kick("login", r)
        PROVE  Fresh'
    BY <1>4, FreshLink DEF Server
  <1>5. QED BY <1>2, <1>3, <1>4 DEF LoginUpdate

LEMMA FreshDB ==
  ASSUME LinkType, Fresh, DBUpdate, UNCHANGED jsonVars
  PROVE  Fresh'
  <1>1. PICK r \in Run : DBAccept(r) \/ DBRebind(r) \/ DBKick(r) \/ OnPreLoginREQ(r)
    BY DEF DBUpdate
  <1>2. ASSUME DBAccept(r) \/ DBRebind(r) \/ DBKick(r)
        PROVE  Fresh'
    BY <1>2, FreshLink DEF DBAccept, DBRebind, DBKick, Server
  <1>3. ASSUME OnPreLoginREQ(r)
        PROVE  Fresh'
    <2>1. UNCHANGED object
      BY <1>3 DEF OnPreLoginREQ
    <2>2. \/ UNCHANGED wire
          \/ wire' = [wire EXCEPT !["db"] =
                        [q \in Run |-> IF @[q] = "open" THEN "broken" ELSE @[q]]]
      BY <1>3 DEF OnPreLoginREQ, Query
    <2>3. \A q \in Server, k \in Run : wire[q][k] = "none" => wire'[q][k] = "none"
      BY <2>2 DEF LinkType, Server
    <2>4. QED BY <2>1, <2>3, FreshKept
  <1>4. QED BY <1>1, <1>2, <1>3

LEMMA FreshJson ==
  ASSUME LinkType, JsonType, Fresh, JsonUpdate \/ Start \/ Crash
  PROVE  Fresh'
  <1>1. MaxRun \in Nat /\ run \in Nat
    BY LinkAssumption DEF JsonType
  <1>2. ASSUME Start
        PROVE  Fresh'
    <2>1. /\ run' = run + 1 /\ run' \in Run /\ up' = TRUE
          /\ link' = [s \in Server |-> "idle"] /\ UNCHANGED <<wire, object>>
      BY <1>1, <1>2 DEF Start, linkVars, Run
    <2>2. \A r \in Run : r > run' \/ r = run' => r > run
      BY <1>1, <2>1 DEF Run
    <2>3. QED BY <2>1, <2>2 DEF Fresh
  <1>3. ASSUME Crash
        PROVE  Fresh'
    <2>1. UNCHANGED <<run, m_bTryConnection, link, object>> /\ up' = FALSE
      BY <1>3 DEF Crash
    <2>2. wire' = [s \in Server |-> [wire[s] EXCEPT ![run] = IF @ = "open" THEN "broken" ELSE @]]
      BY <1>3 DEF Crash
    <2>3. \A q \in Server, k \in Run : wire[q][k] = "none" => wire'[q][k] = "none"
      BY <2>2 DEF LinkType
    <2>4. QED BY <2>1, <2>3 DEF Fresh
  <1>4. ASSUME NEW s \in Server, TryToConnect(s)
        PROVE  Fresh'
    <2>1. /\ UNCHANGED <<run, up, wire, object>> /\ link[s] = "idle"
          /\ link' = [link EXCEPT ![s] = "calling"]
          /\ m_bTryConnection' = [m_bTryConnection EXCEPT ![s] = TRUE]
      BY <1>4 DEF TryToConnect, linkVars, Fresh
    <2>2. QED BY <2>1 DEF Fresh, JsonType
  <1>5. ASSUME NEW s \in Server, OnConnect(s)
        PROVE  Fresh'
    <2>1. /\ UNCHANGED <<run, up, m_bTryConnection, object>> /\ link[s] = "calling"
          /\ link' = [link EXCEPT ![s] = "up"]
          /\ wire' = [wire EXCEPT ![s] = [wire[s] EXCEPT ![run] = "open"]]
      BY <1>5 DEF OnConnect
    <2>2. ASSUME NEW q \in Server, NEW k \in Run,
                 k > run \/ (k = run /\ link'[q] \in {"idle", "calling"})
          PROVE  wire'[q][k] = wire[q][k] /\ (k > run \/ (k = run /\ link[q] \in {"idle", "calling"}))
      <3>1. q = s => k # run
        BY <1>1, <2>1, <2>2 DEF JsonType, Run
      <3>2. wire'[q][k] = wire[q][k]
        BY <2>1, <3>1 DEF LinkType
      <3>3. QED BY <2>1, <2>2, <3>1, <3>2 DEF JsonType
    <2>3. \A q \in Server : ~m_bTryConnection'[q] => link'[q] = "idle"
      BY <2>1 DEF Fresh, JsonType
    <2>4. QED BY <2>1, <2>2, <2>3 DEF Fresh
  <1>6. ASSUME NEW s \in Server, OnConnectFail(s) \/ OnJsonDisconnect(s)
        PROVE  Fresh'
    <2>1. PICK v \in {"failed", "lost"} :
            /\ UNCHANGED <<run, up, m_bTryConnection, wire, object>> /\ link[s] # "idle"
            /\ link' = [link EXCEPT ![s] = v]
      BY <1>6 DEF OnConnectFail, OnJsonDisconnect, linkVars
    <2>2. \A q \in Server : link'[q] \in {"idle", "calling"} => link'[q] = link[q]
      BY <2>1 DEF JsonType
    <2>3. \A q \in Server : link[q] = "idle" => link'[q] = "idle"
      BY <2>1 DEF JsonType
    <2>4. QED BY <2>1, <2>2, <2>3 DEF Fresh
  <1>7. ASSUME OnLoginRecv \/ OnDBRecv
        PROVE  Fresh'
    <2>1. UNCHANGED <<wire, object, jsonVars>>
      BY <1>7 DEF OnLoginRecv, OnDBRecv
    <2>2. QED BY <2>1, FreshKept
  <1>8. QED BY <1>2, <1>3, <1>4, <1>5, <1>6, <1>7 DEF JsonUpdate

-----------------------------------------------------------------------------
\* What is on its way to a server.
LEMMA ToServerAlone ==
  ASSUME ToServerRight, UNCHANGED toServer,
         \A s \in Server, r \in Run : object'[s][r] = "json" => object[s][r] = "json"
  PROVE  ToServerRight'
  BY DEF ToServerRight, Shaped, SynFirst

\* A packet is taken off, or all that a dead connection had.
LEMMA ToServerTaken ==
  ASSUME ToServerRight, NEW s \in Server, NEW r \in Run, toServer[s][r] # << >>,
         toServer' = [toServer EXCEPT ![s][r] = Tail(@)],
         \A q \in Server, k \in Run : q # s \/ k # r => object'[q][k] = object[q][k]
  PROVE  ToServerRight'
  <1> DEFINE v == Tail(toServer[s][r])
  <1>1. SynFirst(toServer[s][r], SentTo(s))
    BY DEF ToServerRight
  <1>2. v \in Seq(SentTo(s))
    BY <1>1, SynFirstOps
  <1>3. SynFirst(v, SentTo(s))
    BY <1>2, SeqOps
  <1>4. toServer' = [toServer EXCEPT ![s][r] = v]
    OBVIOUS
  <1> HIDE DEF v
  <1>5. QED BY <1>2, <1>3, <1>4, PutToServer, ZenonT(60)

LEMMA ToServerLink ==
  ASSUME LinkType, ToServerRight, NEW s \in Server, NEW r \in Run,
         Accept(s, r) \/ Rebind(s, r) \/ Kick(s, r) \/ Break(s, r)
  PROVE  ToServerRight'
  <1>1. ASSUME Accept(s, r) PROVE ToServerRight'
    <2>1. UNCHANGED toServer /\ object' = [object EXCEPT ![s][r] = "temp"]
      BY <1>1 DEF Accept
    <2>2. \A q \in Server, k \in Run : object'[q][k] = "json" => object[q][k] = "json"
      BY <2>1 DEF LinkType
    <2>3. QED BY <2>1, <2>2, ToServerAlone
  <1>2. ASSUME Rebind(s, r) PROVE ToServerRight'
    <2>1. \A q \in Server, k \in Run : q # s \/ k # r => object'[q][k] = object[q][k]
      BY <1>2 DEF Rebind, LinkType
    <2>2. toServer[s][r] # << >> /\ toServer' = [toServer EXCEPT ![s][r] = Tail(@)]
      BY <1>2 DEF Rebind
    <2>3. QED BY <2>1, <2>2, ToServerTaken
  <1>3. ASSUME Kick(s, r) PROVE ToServerRight'
    <2>1. \A q \in Server, k \in Run : q # s \/ k # r => object'[q][k] = object[q][k]
      BY <1>3 DEF Kick, LinkType
    <2>2. toServer' = [toServer EXCEPT ![s][r] = << >>]
      BY <1>3 DEF Kick
    <2>3. SynFirst(<< >>, SentTo(s)) /\ << >> \in Seq(SentTo(s))
      BY SynFirstStart
    <2>4. QED BY <2>1, <2>2, <2>3, PutToServer
  <1>4. ASSUME Break(s, r) PROVE ToServerRight'
    <2>1. UNCHANGED <<toServer, object>>
      BY <1>4 DEF Break
    <2>2. QED BY <2>1, ToServerAlone
  <1>5. QED BY <1>1, <1>2, <1>3, <1>4

LEMMA ToServerLogin ==
  ASSUME LinkType, ToServerRight, LoginUpdate
  PROVE  ToServerRight'
  <1>1. ASSUME NEW c \in Client, OnAccept(c) \/ OnRecv(c) \/ OnDisconnect(c)
        PROVE  ToServerRight'
    <2>1. UNCHANGED <<toServer, object>>
      BY <1>1 DEF OnAccept, OnRecv, OnDisconnect, linkVars
    <2>2. QED BY <2>1, ToServerAlone
  <1>2. ASSUME NEW r \in Run, JsonOnRecv(r)
        PROVE  ToServerRight'
    <2>1. /\ toServer["login"][r] # << >> /\ UNCHANGED object /\ "login" \in Server
          /\ toServer' = [toServer EXCEPT !["login"][r] = Tail(@)]
      BY <1>2 DEF JsonOnRecv, Hears, Server
    <2>2. QED BY <2>1, ToServerTaken
  <1>3. ASSUME NEW r \in Run, Accept("login", r) \/ Rebind("login", r) \/ Kick("login", r)
        PROVE  ToServerRight'
    BY <1>3, ToServerLink DEF Server
  <1>4. QED BY <1>1, <1>2, <1>3 DEF LoginUpdate

LEMMA ToServerDB ==
  ASSUME LinkType, ToServerRight, DBUpdate
  PROVE  ToServerRight'
  <1>1. PICK r \in Run : DBAccept(r) \/ DBRebind(r) \/ DBKick(r) \/ OnPreLoginREQ(r)
    BY DEF DBUpdate
  <1>2. ASSUME DBAccept(r) \/ DBRebind(r) \/ DBKick(r)
        PROVE  ToServerRight'
    BY <1>2, ToServerLink DEF DBAccept, DBRebind, DBKick, Server
  <1>3. ASSUME OnPreLoginREQ(r)
        PROVE  ToServerRight'
    <2>1. /\ toServer["db"][r] # << >> /\ UNCHANGED object /\ "db" \in Server
          /\ toServer' = [toServer EXCEPT !["db"][r] = Tail(@)]
      BY <1>3 DEF OnPreLoginREQ, Hears, Server
    <2>2. QED BY <2>1, ToServerTaken
  <1>4. QED BY <1>1, <1>2, <1>3

\* NetworkObject::Send of a ServerSession.
LEMMA ToServerSent ==
  ASSUME ToServerRight, up, Fresh, NEW s \in Server, NEW p \in SentTo(s), SendTo(s, p),
         UNCHANGED object
  PROVE  ToServerRight'
  <1>1. CASE toServer' = toServer
    BY <1>1, ToServerAlone
  <1>2. CASE toServer' = [toServer EXCEPT ![s][run] = Append(@, p)]
    <2> DEFINE v == Append(toServer[s][run], p)
    <2>1. run \in Run
      BY DEF Fresh
    <2>2. SynFirst(toServer[s][run], SentTo(s))
      BY <2>1 DEF ToServerRight
    <2>3. SynFirst(v, SentTo(s))
      BY <2>2, SynFirstOps
    <2>4. object'[s][run] = "json" => v \in Seq(SentTo(s))
      <3>1. ASSUME object'[s][run] = "json" PROVE v \in Seq(SentTo(s))
        <4>1. toServer[s][run] \in Seq(SentTo(s))
          BY <2>1, <3>1 DEF ToServerRight
        <4>2. QED BY <4>1, SeqOps
      <3>2. QED BY <3>1
    <2>5. toServer' = [toServer EXCEPT ![s][run] = v]
      BY <1>2
    <2> HIDE DEF v
    <2>6. QED BY <2>1, <2>3, <2>4, <2>5, PutToServer
  <1>3. QED BY <1>1, <1>2 DEF SendTo

LEMMA ToServerJson ==
  ASSUME LinkType, ToServerRight, ToJsonRight, Fresh, JsonUpdate \/ Start \/ Crash
  PROVE  ToServerRight'
  <1>1. ASSUME UNCHANGED <<toServer, object>>
        PROVE  ToServerRight'
    BY <1>1, ToServerAlone
  <1>2. ASSUME Start \/ Crash
        PROVE  ToServerRight'
    <2>1. UNCHANGED <<toServer, object>>
      BY <1>2 DEF Start, Crash, linkVars
    <2>2. QED BY <1>1, <2>1
  <1>3. ASSUME NEW s \in Server, TryToConnect(s) \/ OnConnectFail(s) \/ OnJsonDisconnect(s)
        PROVE  ToServerRight'
    <2>1. UNCHANGED <<toServer, object>>
      BY <1>3 DEF TryToConnect, OnConnectFail, OnJsonDisconnect, linkVars
    <2>2. QED BY <1>1, <2>1
  <1>4. ASSUME NEW s \in Server, OnConnect(s)
        PROVE  ToServerRight'
    <2>1. /\ run \in Run /\ object[s][run] = "none" /\ UNCHANGED object
          /\ toServer' = [toServer EXCEPT ![s][run] = << Syn >>]
      BY <1>4 DEF OnConnect, Fresh
    <2>2. SynFirst(<< Syn >>, SentTo(s))
      BY SynFirstStart
    <2>3. object'[s][run] # "json"
      BY <2>1
    <2>4. QED BY <2>1, <2>2, <2>3, PutToServer
  <1>5. ASSUME OnLoginRecv
        PROVE  ToServerRight'
    <2> DEFINE p == Head(toJson["login"][run])
    <2>1. up /\ run \in Run /\ toJson["login"][run] # << >> /\ UNCHANGED object
      BY <1>5 DEF OnLoginRecv, Fresh
    <2>2. toJson["login"][run] \in Seq(Requests)
      BY <2>1 DEF ToJsonRight, GotFrom, Server
    <2>3. p \in SentTo("db") /\ "db" \in Server
      BY <2>1, <2>2, SeqOps DEF SentTo, Server
    <2>4. SendTo("db", p) \/ UNCHANGED toServer
      BY <1>5 DEF OnLoginRecv
    <2> HIDE DEF p
    <2>5. QED BY <1>1, <2>1, <2>3, <2>4, ToServerSent
  <1>6. ASSUME OnDBRecv
        PROVE  ToServerRight'
    <2> DEFINE p == Head(toJson["db"][run])
    <2>1. up /\ run \in Run /\ toJson["db"][run] # << >> /\ UNCHANGED object /\ SendTo("login", p)
      BY <1>6 DEF OnDBRecv, Fresh
    <2>2. toJson["db"][run] \in Seq(Replies)
      BY <2>1 DEF ToJsonRight, GotFrom, Server
    <2>3. p \in SentTo("login") /\ "login" \in Server
      BY <2>1, <2>2, SeqOps DEF SentTo, Server
    <2> HIDE DEF p
    <2>4. QED BY <2>1, <2>3, ToServerSent
  <1>7. QED BY <1>2, <1>3, <1>4, <1>5, <1>6 DEF JsonUpdate

-----------------------------------------------------------------------------
\* What is on its way to JsonSrv.
LEMMA ToJsonAlone ==
  ASSUME ToJsonRight, UNCHANGED toJson
  PROVE  ToJsonRight'
  BY DEF ToJsonRight, Shaped

\* NetworkObject::Send of JsonSession.
LEMMA ToJsonSent ==
  ASSUME LinkType, ToJsonRight, NEW s \in Server, NEW p \in GotFrom(s), SendToJson(s, p)
  PROVE  ToJsonRight'
  <1> DEFINE r == jsonSession[s]
             v == Append(toJson[s][r], p)
  <1>1. CASE UNCHANGED toJson
    BY <1>1, ToJsonAlone
  <1>2. CASE r # 0 /\ toJson' = [toJson EXCEPT ![s][r] = v]
    <2>1. r \in Run
      BY <1>2 DEF LinkType
    <2>2. toJson[s][r] \in Seq(GotFrom(s))
      BY <2>1 DEF ToJsonRight
    <2>3. v \in Seq(GotFrom(s))
      BY <2>2, SeqOps
    <2> HIDE DEF v, r
    <2>4. QED BY <1>2, <2>1, <2>3, PutToJson
  <1>3. QED BY <1>1, <1>2 DEF SendToJson

LEMMA ToJsonTaken ==
  ASSUME ToJsonRight, NEW s \in Server, NEW r \in Run, toJson[s][r] # << >>,
         toJson' = [toJson EXCEPT ![s][r] = Tail(@)]
  PROVE  ToJsonRight'
  <1> DEFINE v == Tail(toJson[s][r])
  <1>1. toJson[s][r] \in Seq(GotFrom(s))
    BY DEF ToJsonRight
  <1>2. v \in Seq(GotFrom(s))
    BY <1>1, SeqOps
  <1>3. toJson' = [toJson EXCEPT ![s][r] = v]
    OBVIOUS
  <1> HIDE DEF v
  <1>4. QED BY <1>2, <1>3, PutToJson

\* What UserSession::OnRecv sends.
LEMMA RequestType ==
  ASSUME UserType, AskedType, HasUser, NEW c \in Client, OnRecv(c),
         m_wUserKey[netObject[c]] # 0
  PROVE  Request(netObject[c], Head(inbox[c]), <<c, sent[c] - Len(inbox[c]) + 1>>) \in Requests
  <1>1. netObject[c] \in UserSet /\ inbox[c] # << >> /\ inbox[c] \in Seq(Text)
    BY DEF OnRecv, HasUser, AskedType
  <1>2. m_wUserKey[netObject[c]] \in Port
    BY <1>1 DEF UserType
  <1>3. Head(inbox[c]) \in Text
    BY <1>1, SeqOps
  <1>4. sent[c] \in Nat /\ Len(inbox[c]) \in Nat
    BY <1>1, LenProperties DEF AskedType
  <1>5. <<c, sent[c] - Len(inbox[c]) + 1>> \in From
    BY <1>4 DEF From
  <1>6. QED BY <1>2, <1>3, <1>5 DEF Request, Requests

LEMMA ToJsonLogin ==
  ASSUME LinkType, UserType, HasUser, AskedType, ToJsonRight, LoginUpdate
  PROVE  ToJsonRight'
  <1>1. ASSUME NEW c \in Client, OnAccept(c) \/ OnDisconnect(c)
        PROVE  ToJsonRight'
    <2>1. UNCHANGED toJson
      BY <1>1 DEF OnAccept, OnDisconnect, linkVars
    <2>2. QED BY <2>1, ToJsonAlone
  <1>2. ASSUME NEW c \in Client, OnRecv(c)
        PROVE  ToJsonRight'
    <2> DEFINE p == Request(netObject[c], Head(inbox[c]), <<c, sent[c] - Len(inbox[c]) + 1>>)
    <2>1. UNCHANGED toJson \/ (m_wUserKey[netObject[c]] # 0 /\ SendToJson("login", p))
      BY <1>2 DEF OnRecv
    <2>2. m_wUserKey[netObject[c]] # 0 => p \in GotFrom("login")
      BY <1>2, RequestType DEF GotFrom
    <2> HIDE DEF p
    <2>3. "login" \in Server
      BY DEF Server
    <2>4. QED BY <2>1, <2>2, <2>3, ToJsonAlone, ToJsonSent
  <1>3. ASSUME NEW r \in Run,
               JsonOnRecv(r) \/ Accept("login", r) \/ Rebind("login", r) \/ Kick("login", r)
        PROVE  ToJsonRight'
    <2>1. UNCHANGED toJson
      BY <1>3 DEF JsonOnRecv, Accept, Rebind, Kick
    <2>2. QED BY <2>1, ToJsonAlone
  <1>4. QED BY <1>1, <1>2, <1>3 DEF LoginUpdate

\* DBSrv answers with the key of the request.
LEMMA AnswerType ==
  ASSUME NEW p \in Requests, NEW e \in {0, 1}, NEW f \in From \cup {<< >>},
         "query" \in Fault \/ f = p.from
  PROVE  Answer(p, [err |-> e, from |-> f]) \in Replies
  BY DEF Answer, Replies, Requests

LEMMA ToJsonDB ==
  ASSUME LinkType, ToServerRight, ToJsonRight, RowType, DBUpdate
  PROVE  ToJsonRight' /\ RowType'
  <1>1. PICK r \in Run : DBAccept(r) \/ DBRebind(r) \/ DBKick(r) \/ OnPreLoginREQ(r)
    BY DEF DBUpdate
  <1>2. ASSUME DBAccept(r) \/ DBRebind(r) \/ DBKick(r)
        PROVE  ToJsonRight' /\ RowType'
    <2>1. UNCHANGED toJson /\ UNCHANGED row
      BY <1>2 DEF DBAccept, DBRebind, DBKick, Accept, Rebind, Kick
    <2>2. QED BY <2>1, ToJsonAlone DEF RowType
  <1>3. ASSUME OnPreLoginREQ(r)
        PROVE  ToJsonRight' /\ RowType'
    <2> DEFINE p == Head(toServer["db"][r])
    <2>1. Hears("db", r) /\ Query(p)
      BY <1>3 DEF OnPreLoginREQ
    <2>2. toServer["db"][r] \in Seq(Requests) /\ "db" \in Server
      BY <2>1 DEF Hears, ToServerRight, SentTo, Server
    <2>3. p \in Requests
      BY <2>1, <2>2, SeqOps DEF Hears
    <2> HIDE DEF p
    <2>4. CASE UNCHANGED toJson /\ UNCHANGED row
      BY <2>4, ToJsonAlone DEF RowType
    <2>5. ASSUME NEW e \in {0, 1}, row' = [err |-> e, from |-> p.from],
                 SendToJson("db", Answer(p, row'))
          PROVE  ToJsonRight' /\ RowType'
      <3>1. p.from \in From
        BY <2>3 DEF Requests
      <3>2. Answer(p, row') \in GotFrom("db")
        BY <2>3, <2>5, <3>1, AnswerType DEF GotFrom
      <3>3. RowType'
        BY <2>5, <3>1 DEF RowType
      <3>4. QED BY <2>2, <2>5, <3>2, <3>3, ToJsonSent
    <2>6. ASSUME "query" \in Fault, SendToJson("db", Answer(p, row)), UNCHANGED row
          PROVE  ToJsonRight' /\ RowType'
      <3>1. row.err \in {0, 1} /\ row.from \in From \cup {<< >>}
            /\ row = [err |-> row.err, from |-> row.from]
        BY DEF RowType
      <3>2. Answer(p, row) \in GotFrom("db")
        BY <2>3, <2>6, <3>1, AnswerType DEF GotFrom
      <3>3. QED BY <2>2, <2>6, <3>2, ToJsonSent DEF RowType
    <2>7. QED BY <2>1, <2>4, <2>5, <2>6 DEF Query
  <1>4. QED BY <1>1, <1>2, <1>3

LEMMA ToJsonJson ==
  ASSUME LinkType, Fresh, ToJsonRight, JsonUpdate \/ Start \/ Crash
  PROVE  ToJsonRight'
  <1>1. ASSUME Start
        PROVE  ToJsonRight'
    <2>1. UNCHANGED toJson
      BY <1>1 DEF Start, linkVars
    <2>2. QED BY <2>1, ToJsonAlone
  <1>2. ASSUME NEW s \in Server, TryToConnect(s) \/ OnConnect(s) \/ OnConnectFail(s)
        PROVE  ToJsonRight'
    <2>1. UNCHANGED toJson
      BY <1>2 DEF TryToConnect, OnConnect, OnConnectFail, linkVars
    <2>2. QED BY <2>1, ToJsonAlone
  <1>3. ASSUME NEW s \in Server, OnJsonDisconnect(s)
        PROVE  ToJsonRight'
    <2>1. run \in Run /\ toJson' = [toJson EXCEPT ![s][run] = << >>]
      BY <1>3 DEF OnJsonDisconnect, Fresh
    <2>2. << >> \in Seq(GotFrom(s))
      OBVIOUS
    <2>3. QED BY <2>1, <2>2, PutToJson
  <1>4. ASSUME Crash
        PROVE  ToJsonRight'
    <2>1. toJson' = [s \in Server |-> [toJson[s] EXCEPT ![run] = << >>]]
      BY <1>4 DEF Crash
    <2>2. \A S : << >> \in Seq(S)
      OBVIOUS
    <2>3. Shaped(toJson')
      BY <2>1 DEF ToJsonRight, Shaped
    <2>4. ASSUME NEW s \in Server, NEW r \in Run
          PROVE  toJson'[s][r] \in Seq(GotFrom(s))
      <3>1. toJson'[s][r] = toJson[s][r] \/ toJson'[s][r] = << >>
        BY <2>1 DEF ToJsonRight, Shaped
      <3>2. QED BY <2>2, <3>1 DEF ToJsonRight
    <2>5. QED BY <2>3, <2>4 DEF ToJsonRight, Shaped
  <1>5. ASSUME OnLoginRecv \/ OnDBRecv
        PROVE  ToJsonRight'
    <2>1. PICK s \in Server : /\ toJson[s][run] # << >> /\ run \in Run
                              /\ toJson' = [toJson EXCEPT ![s][run] = Tail(@)]
      BY <1>5 DEF OnLoginRecv, OnDBRecv, Server, Fresh
    <2>2. QED BY <2>1, ToJsonTaken
  <1>6. QED BY <1>1, <1>2, <1>3, <1>4, <1>5 DEF JsonUpdate

-----------------------------------------------------------------------------
LEMMA ClientAlone ==
  ASSUME ClientRight, UNCHANGED loginVars
  PROVE  ClientRight'
  BY DEF ClientRight, AskedType, PortOfClient, AnswersType, AnswerToPort, loginVars, userVars,
         clientVars

\* The client's UserSession: its key becomes the port of the client, whoever
\* had the object before.
LEMMA AcceptRight ==
  ASSUME UserType, ClientType, ClientRight, NEW c \in Client, OnAccept(c)
  PROVE  ClientRight'
  <1> DEFINE u == Head(pool)
  <1>1. PICK p \in Port :
          /\ port' = [port EXCEPT ![c] = p]
          /\ m_wUserKey' = [m_wUserKey EXCEPT ![u] = p]
          /\ m_pSession' = [m_pSession EXCEPT ![u] = c]
    BY DEF OnAccept
  <1>2. /\ conn[c] = "new" /\ conn' = [conn EXCEPT ![c] = "open"] /\ pool # << >>
        /\ UNCHANGED <<inbox, sent, answers>>
    BY DEF OnAccept
  <1>3. u \in UserSet
    BY <1>2, SeqOps DEF UserType
  <1> HIDE DEF u
  <1>4. AskedType'
    BY <1>2 DEF ClientRight, AskedType
  <1>5. PortOfClient'
    <2>1. port' \in [Client -> Port \cup {0}]
      BY <1>1 DEF ClientRight, PortOfClient
    <2>2. ASSUME NEW w \in UserSet, m_pSession'[w] # None
          PROVE  conn'[m_pSession'[w]] # "new" /\ m_wUserKey'[w] = port'[m_pSession'[w]]
      <3>1. CASE w = u
        <4>1. m_pSession'[w] = c /\ m_wUserKey'[w] = p
          BY <1>1, <1>3, <3>1 DEF UserType
        <4>2. conn'[c] = "open" /\ port'[c] = p
          BY <1>1, <1>2 DEF ClientType, ClientRight, PortOfClient
        <4>3. QED BY <4>1, <4>2
      <3>2. CASE w # u
        <4>1. m_pSession'[w] = m_pSession[w] /\ m_wUserKey'[w] = m_wUserKey[w]
          BY <1>1, <3>2 DEF UserType
        <4>2. /\ m_pSession[w] \in Client /\ conn[m_pSession[w]] # "new"
              /\ m_wUserKey[w] = port[m_pSession[w]]
          BY <2>2, <4>1 DEF ClientRight, PortOfClient, UserType
        <4>3. m_pSession[w] # c
          BY <1>2, <4>2
        <4>4. QED BY <1>1, <1>2, <4>1, <4>2, <4>3 DEF ClientType, ClientRight, PortOfClient
      <3>3. QED BY <3>1, <3>2
    <2>3. QED BY <2>1, <2>2 DEF PortOfClient
  <1>6. AnswersType'
    BY <1>2 DEF ClientRight, AnswersType, ClientType
  <1>7. AnswerToPort'
    <2>1. answers[c] = << >>
      BY <1>2 DEF ClientRight, AnswersType
    <2>2. \A d \in Client : d # c => port'[d] = port[d]
      BY <1>1 DEF ClientRight, PortOfClient
    <2>3. QED BY <1>2, <2>1, <2>2 DEF ClientRight, AnswerToPort
  <1>8. QED BY <1>4, <1>5, <1>6, <1>7 DEF ClientRight

\* A UserSession is released, also while a client has it: it keeps its key.
LEMMA RecvRight ==
  ASSUME UserType, ClientType, ClientRight, NEW c \in Client, OnRecv(c) \/ OnDisconnect(c)
  PROVE  ClientRight'
  <1>1. /\ UNCHANGED <<port, sent, answers, m_wUserKey>>
        /\ conn' = conn \/ conn' = [conn EXCEPT ![c] = "closed"]
        /\ m_pSession' = m_pSession \/ m_pSession' = [m_pSession EXCEPT ![netObject[c]] = None]
    BY DEF OnRecv, OnDisconnect, Release
  <1>2. AskedType'
    <2>1. CASE OnRecv(c)
      <3>1. inbox' = [inbox EXCEPT ![c] = Tail(inbox[c])] /\ inbox[c] # << >>
        BY <2>1 DEF OnRecv
      <3>2. inbox \in [Client -> Seq(Text)] /\ Tail(inbox[c]) \in Seq(Text)
        BY <3>1, SeqOps DEF ClientRight, AskedType
      <3>3. QED BY <1>1, <3>1, <3>2 DEF ClientRight, AskedType
    <2>2. CASE OnDisconnect(c)
      <3>1. inbox' = [inbox EXCEPT ![c] = << >>] /\ << >> \in Seq(Text)
        BY <2>2 DEF OnDisconnect
      <3>2. QED BY <1>1, <3>1 DEF ClientRight, AskedType
    <2>3. QED BY <2>1, <2>2
  <1>3. PortOfClient'
    <2>1. ASSUME NEW w \in UserSet, m_pSession'[w] # None
          PROVE  conn'[m_pSession'[w]] # "new" /\ m_wUserKey'[w] = port'[m_pSession'[w]]
      <3>1. m_pSession'[w] = m_pSession[w]
        BY <1>1, <2>1 DEF UserType
      <3>2. /\ m_pSession[w] \in Client /\ conn[m_pSession[w]] # "new"
            /\ m_wUserKey[w] = port[m_pSession[w]]
        BY <2>1, <3>1 DEF ClientRight, PortOfClient, UserType
      <3>3. QED BY <1>1, <3>1, <3>2 DEF ClientType
    <2>2. QED BY <1>1, <2>1 DEF ClientRight, PortOfClient
  <1>4. AnswersType'
    BY <1>1 DEF ClientRight, AnswersType, ClientType
  <1>5. AnswerToPort'
    BY <1>1 DEF ClientRight, AnswerToPort
  <1>6. QED BY <1>2, <1>3, <1>4, <1>5 DEF ClientRight

\* LoginServer::SendToClient: the key leads through the table to a UserSession
\* that has it, and that sends to a client of that port.
LEMMA SendRight ==
  ASSUME UserType, ClientType, TableRight, ToServerRight, ClientRight,
         NEW r \in Run, JsonOnRecv(r)
  PROVE  ClientRight'
  <1> DEFINE packet == Head(toServer["login"][r])
             u == IF packet.key = 0 THEN NoUser ELSE m_pUserSession[packet.key]
             c == IF u = NoUser THEN None ELSE m_pSession[u]
  <1>1. Hears("login", r) /\ UNCHANGED <<userVars, conn, port, inbox, sent>>
    BY DEF JsonOnRecv
  <1>2. packet \in Replies
    <2>1. toServer["login"][r] \in Seq(Replies)
      BY <1>1 DEF Hears, ToServerRight, SentTo, Server
    <2>2. QED BY <1>1, <2>1, SeqOps DEF Hears
  <1>3. packet.key \in Port /\ packet.key # 0
    BY <1>2, PortFacts DEF Replies
  <1>4. answers' = IF c # None /\ conn[c] = "open"
                   THEN [answers EXCEPT ![c] = Append(answers[c], packet)] ELSE answers
    BY DEF JsonOnRecv, SendToClient
  <1>5. u = m_pUserSession[packet.key]
    BY <1>3
  <1> HIDE DEF packet, u
  <1>6. AskedType' /\ PortOfClient'
    BY <1>1 DEF ClientRight, AskedType, PortOfClient, userVars
  <1>7. CASE answers' = answers
    BY <1>1, <1>6, <1>7 DEF ClientRight, AnswersType, AnswerToPort
  <1>8. CASE c # None /\ conn[c] = "open" /\ answers' = [answers EXCEPT ![c] = Append(answers[c], packet)]
    <2>1. u # NoUser /\ c = m_pSession[u] /\ u \in UserSet
      BY <1>3, <1>5, <1>8 DEF UserType
    <2>2. c \in Client
      BY <1>8, <2>1 DEF UserType
    <2>3. m_wUserKey[u] = packet.key
      BY <1>3, <1>5, <2>1 DEF TableRight
    <2>4. packet.key = port[c]
      BY <1>8, <2>1, <2>3 DEF ClientRight, PortOfClient
    <2> HIDE DEF c
    <2> DEFINE v == Append(answers[c], packet)
    <2>5. answers[c] \in Seq(Replies)
      BY <2>2 DEF ClientRight, AnswersType
    <2>6. /\ v \in Seq(Replies) /\ Len(v) = Len(answers[c]) + 1 /\ Len(answers[c]) \in Nat
          /\ \A i \in 1..Len(answers[c]) : v[i] = answers[c][i]
          /\ v[Len(answers[c]) + 1] = packet
      BY <1>2, <2>5, AppendProperties, LenProperties
    <2>7. \A i \in 1..Len(v) : v[i].key = port[c]
      <3>1. \A i \in 1..Len(answers[c]) : answers[c][i].key = port[c]
        BY <2>2 DEF ClientRight, AnswerToPort
      <3> DEFINE n == Len(answers[c])
                 a == answers[c]
      <3>2. n \in Nat /\ Len(v) = n + 1 /\ v[n + 1] = packet /\ \A i \in 1..n : v[i] = a[i]
        BY <2>6
      <3>3. \A i \in 1..n : a[i].key = port[c]
        BY <3>1
      <3> HIDE DEF v, n, a
      <3>4. QED BY <2>4, <3>2, <3>3
    <2>8. answers' = [answers EXCEPT ![c] = v]
      BY <1>8
    <2> HIDE DEF v
    <2>9. AnswersType'
      BY <1>1, <1>8, <2>6, <2>8 DEF ClientRight, AnswersType
    <2>10. AnswerToPort'
      BY <1>1, <2>7, <2>8 DEF ClientRight, AnswersType, AnswerToPort
    <2>11. QED BY <1>6, <2>9, <2>10 DEF ClientRight
  <1>9. QED BY <1>4, <1>7, <1>8

LEMMA ClientLogin ==
  ASSUME UserType, ClientType, TableRight, ToServerRight, ClientRight, LoginUpdate
  PROVE  ClientRight'
  BY AcceptRight, RecvRight, SendRight, ClientAlone DEF LoginUpdate

LEMMA ClientActs ==
  ASSUME ClientType, ClientRight, NEW c \in Client, ClientSends(c) \/ ClientLeaves(c)
  PROVE  ClientRight'
  <1>1. CASE ClientSends(c)
    <2>1. PICK t \in Text : inbox' = [inbox EXCEPT ![c] = Append(inbox[c], t)]
      BY <1>1 DEF ClientSends
    <2>2. inbox \in [Client -> Seq(Text)] /\ sent \in [Client -> Nat]
      BY DEF ClientRight, AskedType
    <2>3. Append(inbox[c], t) \in Seq(Text)
      BY <2>2, SeqOps
    <2>4. sent' = [sent EXCEPT ![c] = sent[c] + 1] /\ UNCHANGED <<userVars, conn, port, answers>>
      BY <1>1 DEF ClientSends
    <2>5. AskedType'
      BY <2>1, <2>2, <2>3, <2>4 DEF AskedType
    <2>6. QED BY <2>4, <2>5 DEF ClientRight, PortOfClient, AnswersType, AnswerToPort, userVars
  <1>2. CASE ClientLeaves(c)
    <2>1. /\ conn' = [conn EXCEPT ![c] = "left"] /\ conn[c] = "open"
          /\ UNCHANGED <<userVars, port, inbox, sent, answers>>
      BY <1>2 DEF ClientLeaves
    <2>2. \A d \in Client : conn'[d] = "new" <=> conn[d] = "new"
      BY <2>1 DEF ClientType
    <2>3. AskedType' /\ AnswerToPort'
      BY <2>1 DEF ClientRight, AskedType, AnswerToPort
    <2>4. AnswersType'
      BY <2>1, <2>2 DEF ClientRight, AnswersType
    <2>5. PortOfClient'
      BY <2>1, <2>2 DEF ClientRight, PortOfClient, userVars, ClientType
    <2>6. QED BY <2>3, <2>4, <2>5 DEF ClientRight
  <1>3. QED BY <1>1, <1>2

-----------------------------------------------------------------------------
LEMMA InitAnswers == Init => AInv
  <1> SUFFICES ASSUME Init PROVE AInv
    OBVIOUS
  <1>1. IInv
    BY InitInv
  <1>2. ToServerRight /\ ToJsonRight
    <2>1. /\ toServer = [s \in Server |-> [r \in Run |-> << >>]]
          /\ toJson = [s \in Server |-> [r \in Run |-> << >>]]
          /\ object = [s \in Server |-> [r \in Run |-> "none"]]
      BY DEF Init, LinkInit, Each
    <2>2. \A s \in Server : SynFirst(<< >>, SentTo(s)) /\ << >> \in Seq(GotFrom(s))
      BY SynFirstStart
    <2>3. ToServerRight
      BY <2>1, <2>2 DEF ToServerRight, Shaped
    <2>4. ToJsonRight
      BY <2>1, <2>2 DEF ToJsonRight, Shaped
    <2>5. QED BY <2>3, <2>4
  <1>3. Fresh
    BY DEF Init, JsonInit, LinkInit, Each, Fresh
  <1>4. RowType
    BY DEF Init, DBInit, NoRow, RowType
  <1>5. ClientRight
    <2>1. \A S : << >> \in Seq(S)
      OBVIOUS
    <2>2. AskedType /\ AnswersType
      BY <2>1 DEF Init, LoginInit, AskedType, AnswersType
    <2>3. PortOfClient
      BY DEF Init, LoginInit, PortOfClient
    <2>4. AnswerToPort
      <3>1. \A c \in Client : answers[c] = << >>
        BY DEF Init, LoginInit
      <3>2. Len(<< >>) = 0
        OBVIOUS
      <3>3. QED BY <3>1, <3>2 DEF AnswerToPort
    <2>5. QED BY <2>2, <2>3, <2>4 DEF ClientRight
  <1>6. QED BY <1>1, <1>2, <1>3, <1>4, <1>5 DEF AInv

LEMMA NextAnswers == AInv /\ [Next]_vars => AInv'
  <1> SUFFICES ASSUME AInv, [Next]_vars PROVE AInv'
    OBVIOUS
  <1>1. IInv'
    BY NextInv DEF AInv
  <1>2. /\ ToServerRight /\ ToJsonRight /\ Fresh /\ RowType /\ ClientRight
        /\ LinkType /\ UserType /\ ClientType /\ JsonType /\ TableRight /\ HasUser
    BY TypeParts DEF AInv, IInv
  <1>3. AskedType
    BY <1>2 DEF ClientRight
  <1>4. ASSUME UNCHANGED row PROVE RowType'
    BY <1>2, <1>4 DEF RowType
  <1>5. CASE LoginUpdate /\ UNCHANGED <<jsonVars, row>>
    <2>1. Fresh'
      BY <1>2, <1>5, FreshLogin
    <2>2. ToServerRight' /\ ToJsonRight'
      BY <1>2, <1>3, <1>5, ToServerLogin, ToJsonLogin
    <2>3. ClientRight'
      BY <1>2, <1>5, ClientLogin
    <2>4. QED BY <1>1, <1>4, <1>5, <2>1, <2>2, <2>3 DEF AInv
  <1>6. CASE JsonUpdate /\ UNCHANGED <<loginVars, row>>
    <2>1. Fresh' /\ ToServerRight' /\ ToJsonRight'
      BY <1>2, <1>6, FreshJson, ToServerJson, ToJsonJson
    <2>2. ClientRight'
      BY <1>2, <1>6, ClientAlone
    <2>3. QED BY <1>1, <1>4, <1>6, <2>1, <2>2 DEF AInv
  <1>7. CASE DBUpdate /\ UNCHANGED <<loginVars, jsonVars>>
    <2>1. Fresh' /\ ToServerRight' /\ ToJsonRight' /\ RowType'
      BY <1>2, <1>7, FreshDB, ToServerDB, ToJsonDB
    <2>2. ClientRight'
      BY <1>2, <1>7, ClientAlone
    <2>3. QED BY <1>1, <2>1, <2>2 DEF AInv
  <1>8. CASE Environment /\ UNCHANGED <<jsonVars, row>>
    <2>1. ASSUME NEW c \in Client, ClientSends(c) \/ ClientLeaves(c)
          PROVE  AInv'
      <3>1. UNCHANGED linkVars
        BY <2>1 DEF ClientSends, ClientLeaves
      <3>2. Fresh' /\ ToServerRight' /\ ToJsonRight'
        BY <1>2, <1>8, <3>1, FreshKept, ToServerAlone, ToJsonAlone DEF linkVars
      <3>3. ClientRight'
        BY <1>2, <2>1, ClientActs
      <3>4. QED BY <1>1, <1>4, <1>8, <3>2, <3>3 DEF AInv
    <2>2. ASSUME NEW s \in Server, NEW r \in Run, Break(s, r), UNCHANGED loginVars
          PROVE  AInv'
      <3>1. UNCHANGED toJson
        BY <2>2 DEF Break
      <3>2. Fresh' /\ ToServerRight' /\ ToJsonRight'
        BY <1>2, <1>8, <2>2, <3>1, FreshLink, ToServerLink, ToJsonAlone
      <3>3. ClientRight'
        BY <1>2, <2>2, ClientAlone
      <3>4. QED BY <1>1, <1>4, <1>8, <3>2, <3>3 DEF AInv
    <2>3. QED BY <1>8, <2>1, <2>2 DEF Environment
  <1>9. CASE (Start \/ Crash) /\ UNCHANGED <<loginVars, row>>
    <2>1. Fresh' /\ ToServerRight' /\ ToJsonRight'
      BY <1>2, <1>9, FreshJson, ToServerJson, ToJsonJson
    <2>2. ClientRight'
      BY <1>2, <1>9, ClientAlone
    <2>3. QED BY <1>1, <1>4, <1>9, <2>1, <2>2 DEF AInv
  <1>10. CASE UNCHANGED vars
    <2>1. UNCHANGED loginVars /\ UNCHANGED jsonVars /\ UNCHANGED linkVars /\ UNCHANGED row
      BY <1>10 DEF vars
    <2>2. Fresh' /\ ToServerRight' /\ ToJsonRight'
      BY <1>2, <2>1, FreshKept, ToServerAlone, ToJsonAlone DEF linkVars
    <2>3. ClientRight'
      BY <1>2, <2>1, ClientAlone
    <2>4. QED BY <1>1, <1>4, <2>1, <2>2, <2>3 DEF AInv
  <1>11. QED
    BY <1>5, <1>6, <1>7, <1>8, <1>9, <1>10 DEF Next, Servers

\* An answer reaches only a client on the port of the client that asked
\* (LoginServer.cpp:191-207, Handler_FromJsonServer.cpp:73-92,
\* Handler_FromDBServer.cpp:29-41), whichever clients share UserSessions, come
\* and go, and whatever fails between the servers, for any numbers of clients,
\* ports, UserSessions and runs.
THEOREM AnswersToPort == Spec => []AnswerToPort
  <1>1. AInv => AnswerToPort
    BY DEF AInv, ClientRight
  <1>2. QED
    BY <1>1, InitAnswers, NextAnswers, PTL DEF Spec

-----------------------------------------------------------------------------
(* 3. Each message in one place.                                          *)

\* Everything a request or an answer can wait in, as one function.
Channel ==
  {<<"toServer", s, r>> : s \in Server, r \in Run}
    \cup {<<"toJson", s, r>> : s \in Server, r \in Run}
    \cup {<<"answers", c>> : c \in Client}

Together(ts, tj, an) ==
  [x \in Channel |-> IF x[1] = "toServer" THEN ts[x[2]][x[3]]
                     ELSE IF x[1] = "toJson" THEN tj[x[2]][x[3]] ELSE an[x[2]]]

queue == Together(toServer, toJson, answers)

Packet == Requests \cup Replies \cup {Syn}

Queues(f) == \A x \in Channel : f[x] \in Seq(Packet)

\* A message of a client is in one place only, as a request or as its answer.
Once(f) ==
  \A x, y \in Channel : \A i \in 1..Len(f[x]), j \in 1..Len(f[y]) :
    f[x][i] # Syn /\ f[y][j] # Syn /\ f[x][i].from = f[y][j].from => x = y /\ i = j

\* The messages of c that LoginSrv has taken.
Done(c) == sent[c] - Len(inbox[c])

\* No request is underway for a message that LoginSrv has not taken.
Asked(f, done) ==
  \A x \in Channel : \A i \in 1..Len(f[x]) : \A c \in Client : \A n \in Int :
    f[x][i] # Syn /\ f[x][i].from = <<c, n>> => n <= done[c]

done == [c \in Client |-> Done(c)]

OnceInv == Once(queue) /\ Asked(queue, done)

\* A queue is shortened, or starts again.
Shorter(q, w) ==
  w = q \/ w = << >> \/ w = << Syn >> \/ (q # << >> /\ w = Tail(q))

Shortened(f, g) == \A x \in Channel : Shorter(f[x], g[x])

Later(d, e) ==
  d \in [Client -> Int] /\ e \in [Client -> Int] /\ \A c \in Client : d[c] <= e[c]

\* What is left of a shortened queue was in it before, so much further back.
LEMMA ShorterFacts ==
  ASSUME NEW q \in Seq(Packet), NEW w, Shorter(q, w)
  PROVE  \E k \in Nat : \A i \in 1..Len(w) :
           w[i] # Syn => i + k \in 1..Len(q) /\ w[i] = q[i + k]
  <1>1. Len(q) \in Nat
    BY LenProperties
  <1>2. CASE w = q
    <2>1. \A i \in 1..Len(w) : i + 0 \in 1..Len(q) /\ w[i] = q[i + 0]
      BY <1>1, <1>2
    <2>2. QED BY <2>1
  <1>3. CASE w = << >>
    BY <1>3
  <1>4. CASE w = << Syn >>
    <2>1. Len(w) = 1 /\ w[1] = Syn
      BY <1>4
    <2>2. \A i \in 1..Len(w) : w[i] = Syn
      BY <2>1
    <2>3. QED BY <2>2
  <1>5. CASE q # << >> /\ w = Tail(q)
    <2>1. Len(w) = Len(q) - 1 /\ \A i \in 1..Len(w) : w[i] = q[i + 1]
      BY <1>5, HeadTailProperties
    <2>2. \A i \in 1..Len(w) : i + 1 \in 1..Len(q) /\ w[i] = q[i + 1]
      BY <1>1, <2>1
    <2>3. QED BY <2>2
  <1>6. QED BY <1>2, <1>3, <1>4, <1>5 DEF Shorter

\* What is shortened stays without repetition.
LEMMA OnceShorter ==
  ASSUME NEW f, NEW g, NEW d, NEW e, Queues(f), Shortened(f, g), Later(d, e),
         Once(f), Asked(f, d)
  PROVE  Once(g) /\ Asked(g, e)
  <1>1. \A x \in Channel : \E k \in Nat : \A i \in 1..Len(g[x]) :
          g[x][i] # Syn => i + k \in 1..Len(f[x]) /\ g[x][i] = f[x][i + k]
    <2>1. TAKE x \in Channel
    <2> DEFINE q == f[x]
               w == g[x]
    <2>2. q \in Seq(Packet) /\ Shorter(q, w)
      BY DEF Queues, Shortened
    <2> HIDE DEF q, w
    <2>3. \E k \in Nat : \A i \in 1..Len(w) :
            w[i] # Syn => i + k \in 1..Len(q) /\ w[i] = q[i + k]
      BY <2>2, ShorterFacts
    <2>4. QED BY <2>3 DEF q, w
  <1>2. Once(g)
    <2> SUFFICES ASSUME NEW x \in Channel, NEW y \in Channel,
                        NEW i \in 1..Len(g[x]), NEW j \in 1..Len(g[y]),
                        g[x][i] # Syn, g[y][j] # Syn, g[x][i].from = g[y][j].from
                 PROVE  x = y /\ i = j
      BY DEF Once
    <2>1. PICK k \in Nat : \A m \in 1..Len(g[x]) :
            g[x][m] # Syn => m + k \in 1..Len(f[x]) /\ g[x][m] = f[x][m + k]
      BY <1>1
    <2>2. PICK l \in Nat : \A m \in 1..Len(g[y]) :
            g[y][m] # Syn => m + l \in 1..Len(f[y]) /\ g[y][m] = f[y][m + l]
      BY <1>1
    <2>3. i + k \in 1..Len(f[x]) /\ g[x][i] = f[x][i + k]
      BY <2>1
    <2>4. j + l \in 1..Len(f[y]) /\ g[y][j] = f[y][j + l]
      BY <2>2
    <2>5. x = y /\ i + k = j + l
      BY <2>3, <2>4, SMTT(40) DEF Once
    <2>6. j + k \in 1..Len(f[x]) /\ g[y][j] = f[x][j + k]
      BY <2>1, <2>5
    <2>7. i + k = j + k
      BY <2>3, <2>6, SMTT(40) DEF Once
    <2>8. QED BY <2>5, <2>7
  <1>3. Asked(g, e)
    <2> SUFFICES ASSUME NEW x \in Channel, NEW i \in 1..Len(g[x]), NEW c \in Client, NEW n \in Int,
                        g[x][i] # Syn, g[x][i].from = <<c, n>>
                 PROVE  n <= e[c]
      BY DEF Asked
    <2>1. PICK k \in Nat : i + k \in 1..Len(f[x]) /\ g[x][i] = f[x][i + k]
      BY <1>1
    <2>2. n <= d[c]
      BY <2>1 DEF Asked
    <2>3. QED BY <2>2 DEF Later
  <1>4. QED BY <1>2, <1>3

\* p joins queue b, and is about a message that no packet is about.
Joined(h, g, b, p) == (\A x \in Channel \ {b} : g[x] = h[x]) /\ g[b] = Append(h[b], p)

Unheard(h, p) == \A x \in Channel : \A i \in 1..Len(h[x]) : h[x][i] # Syn => h[x][i].from # p.from

\* One packet more, which no packet elsewhere shares its message with.
LEMMA OnceMore ==
  ASSUME NEW h, NEW g, NEW d, NEW b \in Channel, NEW p \in Requests \cup Replies,
         Queues(h), Joined(h, g, b, p), Unheard(h, p),
         \A c \in Client : \A n \in Int : p.from = <<c, n>> => n <= d[c],
         Once(h), Asked(h, d)
  PROVE  Once(g) /\ Asked(g, d)
  <1> DEFINE n == Len(h[b])
  <1>1. /\ n \in Nat /\ Len(g[b]) = n + 1 /\ g[b][n + 1] = p
        /\ \A i \in 1..n : g[b][i] = h[b][i]
    BY AppendProperties, LenProperties DEF Queues, Joined, Packet
  <1> HIDE DEF n
  <1>2. \A i \in 1..Len(g[b]) : i = n + 1 \/ i \in 1..n
    BY <1>1
  <1>3. \A x \in Channel : \A i \in 1..Len(g[x]) :
          \/ x = b /\ i = n + 1 /\ g[x][i] = p
          \/ i \in 1..Len(h[x]) /\ g[x][i] = h[x][i]
    BY <1>1, <1>2 DEF n, Joined
  <1>4. Once(g)
    <2> SUFFICES ASSUME NEW x \in Channel, NEW y \in Channel,
                        NEW i \in 1..Len(g[x]), NEW j \in 1..Len(g[y]),
                        g[x][i] # Syn, g[y][j] # Syn, g[x][i].from = g[y][j].from
                 PROVE  x = y /\ i = j
      BY DEF Once
    <2>1. CASE x = b /\ i = n + 1 /\ g[x][i] = p
      BY <1>3, <2>1 DEF Unheard
    <2>2. CASE y = b /\ j = n + 1 /\ g[y][j] = p
      BY <1>3, <2>2 DEF Unheard
    <2>3. CASE i \in 1..Len(h[x]) /\ g[x][i] = h[x][i] /\ j \in 1..Len(h[y]) /\ g[y][j] = h[y][j]
      BY <2>3 DEF Once
    <2>4. QED BY <1>3, <2>1, <2>2, <2>3
  <1>5. Asked(g, d)
    BY <1>3 DEF Asked
  <1>6. QED BY <1>4, <1>5

\* A packet that leaves the head of one queue, and what is made of it joins another.
LEMMA OnceMoved ==
  ASSUME NEW f, NEW g, NEW d, NEW a \in Channel, NEW b \in Channel, a # b,
         NEW p \in Requests \cup Replies,
         Queues(f), d \in [Client -> Int], f[a] # << >>, Head(f[a]) # Syn, p.from = Head(f[a]).from,
         \A x \in Channel \ {a, b} : g[x] = f[x], g[a] = Tail(f[a]), g[b] = Append(f[b], p),
         Once(f), Asked(f, d)
  PROVE  Once(g) /\ Asked(g, d)
  <1> DEFINE h == [x \in Channel |-> IF x = a THEN Tail(f[a]) ELSE f[x]]
  <1>1. \A x \in Channel : h[x] = IF x = a THEN Tail(f[a]) ELSE f[x]
    OBVIOUS
  <1> HIDE DEF h
  <1>2. /\ Head(f[a]) = f[a][1] /\ Tail(f[a]) \in Seq(Packet) /\ Len(Tail(f[a])) = Len(f[a]) - 1
        /\ \A i \in 1..Len(Tail(f[a])) : Tail(f[a])[i] = f[a][i + 1]
    BY HeadTailProperties DEF Queues
  <1>3. Queues(h)
    BY <1>1, <1>2 DEF Queues
  <1>4. Shortened(f, h) /\ Later(d, d)
    BY <1>1 DEF Shortened, Shorter, Later
  <1>5. Once(h) /\ Asked(h, d)
    BY <1>4, OnceShorter
  <1>6. 1 \in 1..Len(f[a]) /\ f[a][1] # Syn /\ p.from = f[a][1].from
    <2> DEFINE q == f[a]
    <2>1. q \in Seq(Packet) /\ q # << >>
      BY DEF Queues
    <2> HIDE DEF q
    <2>2. Len(q) \in Nat /\ Len(q) # 0
      BY <2>1, LenProperties, EmptySeq
    <2>3. 1 \in 1..Len(f[a])
      BY <2>2 DEF q
    <2>4. QED BY <1>2, <2>3
  <1>7. Unheard(h, p)
    <2> SUFFICES ASSUME NEW x \in Channel, NEW i \in 1..Len(h[x]), h[x][i] # Syn
                 PROVE  h[x][i].from # p.from
      BY DEF Unheard
    <2>1. CASE x = a
      <3>1. i \in 1..Len(Tail(f[a])) /\ h[x][i] = Tail(f[a])[i]
        BY <1>1, <2>1
      <3>2. i + 1 \in 1..Len(f[a]) /\ i + 1 # 1 /\ h[x][i] = f[a][i + 1]
        BY <1>2, <1>6, <3>1
      <3>3. f[a][i + 1] # Syn /\ f[a][i + 1].from # f[a][1].from
        BY <1>6, <3>2 DEF Once
      <3>4. QED BY <1>6, <3>2, <3>3
    <2>2. CASE x # a
      <3>1. i \in 1..Len(f[x]) /\ h[x][i] = f[x][i]
        BY <1>1, <2>2
      <3>2. f[x][i] # Syn /\ f[x][i].from # f[a][1].from
        BY <1>6, <2>2, <3>1 DEF Once
      <3>3. QED BY <1>6, <3>1, <3>2
    <2>3. QED BY <2>1, <2>2
  <1>8. \A c \in Client : \A n \in Int : p.from = <<c, n>> => n <= d[c]
    <2>1. \A c \in Client : \A n \in Int : f[a][1].from = <<c, n>> => n <= d[c]
      BY <1>6 DEF Asked
    <2>2. QED BY <1>6, <2>1
  <1>9. Joined(h, g, b, p)
    BY <1>1 DEF Joined
  <1>10. QED BY <1>3, <1>5, <1>7, <1>8, <1>9, OnceMore
-----------------------------------------------------------------------------
\* What a channel holds.
LEMMA TogetherFacts ==
  ASSUME NEW ts, NEW tj, NEW an
  PROVE  LET f == Together(ts, tj, an)
         IN  /\ \A s \in Server, r \in Run : /\ f[<<"toServer", s, r>>] = ts[s][r]
                                             /\ f[<<"toJson", s, r>>] = tj[s][r]
             /\ \A c \in Client : f[<<"answers", c>>] = an[c]
  BY DEF Together, Channel

LEMMA ChannelFacts ==
  /\ \A s \in Server, r \in Run : <<"toServer", s, r>> \in Channel /\ <<"toJson", s, r>> \in Channel
  /\ \A c \in Client : <<"answers", c>> \in Channel
  /\ \A x \in Channel :
       \/ \E s \in Server, r \in Run : x = <<"toServer", s, r>> \/ x = <<"toJson", s, r>>
       \/ \E c \in Client : x = <<"answers", c>>
  BY DEF Channel

LEMMA QueueTypes ==
  ASSUME ToServerRight, ToJsonRight, ClientRight
  PROVE  Queues(queue) /\ done \in [Client -> Int]
  <1>1. /\ \A s : SentTo(s) \cup {Syn} \subseteq Packet /\ GotFrom(s) \subseteq Packet
        /\ Replies \subseteq Packet
    BY DEF SentTo, GotFrom, Packet
  <1>2. \A s \in Server, r \in Run : toServer[s][r] \in Seq(Packet) /\ toJson[s][r] \in Seq(Packet)
    <2>1. TAKE s \in Server, r \in Run
    <2>2. toServer[s][r] \in Seq(SentTo(s) \cup {Syn}) /\ toJson[s][r] \in Seq(GotFrom(s))
      BY DEF ToServerRight, ToJsonRight, SynFirst
    <2>3. QED BY <1>1, <2>2, SeqMonotonic
  <1>3. \A c \in Client : answers[c] \in Seq(Packet)
    <2>1. TAKE c \in Client
    <2>2. answers[c] \in Seq(Replies)
      BY DEF ClientRight, AnswersType
    <2>3. QED BY <1>1, <2>2, SeqMonotonic
  <1>4. Queues(queue)
    <2>1. /\ \A s \in Server, r \in Run : /\ queue[<<"toServer", s, r>>] = toServer[s][r]
                                           /\ queue[<<"toJson", s, r>>] = toJson[s][r]
          /\ \A c \in Client : queue[<<"answers", c>>] = answers[c]
      BY TogetherFacts DEF queue
    <2>2. ASSUME NEW x \in Channel PROVE queue[x] \in Seq(Packet)
      <3>1. ASSUME NEW s \in Server, NEW r \in Run, x = <<"toServer", s, r>>
            PROVE  queue[x] \in Seq(Packet)
        BY <1>2, <2>1, <3>1
      <3>2. ASSUME NEW s \in Server, NEW r \in Run, x = <<"toJson", s, r>>
            PROVE  queue[x] \in Seq(Packet)
        BY <1>2, <2>1, <3>2
      <3>3. ASSUME NEW c \in Client, x = <<"answers", c>>
            PROVE  queue[x] \in Seq(Packet)
        BY <1>3, <2>1, <3>3
      <3>4. QED BY <3>1, <3>2, <3>3, ChannelFacts
    <2>3. QED BY <2>2 DEF Queues
  <1>5. done \in [Client -> Int]
    <2>1. \A c \in Client : sent[c] \in Nat /\ inbox[c] \in Seq(Text)
      BY DEF ClientRight, AskedType
    <2>2. \A c \in Client : sent[c] \in Nat /\ Len(inbox[c]) \in Nat
      BY <2>1, LenProperties
    <2>3. \A c \in Client : Done(c) \in Int
      BY <2>2 DEF Done
    <2>4. QED BY <2>3 DEF done
  <1>6. QED BY <1>4, <1>5

\* A step that shortens.
LEMMA StepShorter ==
  ASSUME Queues(queue), OnceInv, Later(done, done'),
         \A s \in Server, r \in Run : /\ Shorter(toServer[s][r], toServer'[s][r])
                                      /\ Shorter(toJson[s][r], toJson'[s][r]),
         \A c \in Client : Shorter(answers[c], answers'[c])
  PROVE  OnceInv'
  <1> DEFINE f == queue
             g == queue'
  <1>1. /\ \A s \in Server, r \in Run : /\ f[<<"toServer", s, r>>] = toServer[s][r]
                                         /\ f[<<"toJson", s, r>>] = toJson[s][r]
        /\ \A c \in Client : f[<<"answers", c>>] = answers[c]
    BY TogetherFacts DEF queue
  <1>2. /\ \A s \in Server, r \in Run : /\ g[<<"toServer", s, r>>] = toServer'[s][r]
                                         /\ g[<<"toJson", s, r>>] = toJson'[s][r]
        /\ \A c \in Client : g[<<"answers", c>>] = answers'[c]
    BY TogetherFacts DEF queue
  <1> HIDE DEF f, g
  <1>3. ASSUME NEW x \in Channel PROVE Shorter(f[x], g[x])
    <2>1. ASSUME NEW s \in Server, NEW r \in Run, x = <<"toServer", s, r>>
          PROVE  Shorter(f[x], g[x])
      BY <1>1, <1>2, <2>1
    <2>2. ASSUME NEW s \in Server, NEW r \in Run, x = <<"toJson", s, r>>
          PROVE  Shorter(f[x], g[x])
      BY <1>1, <1>2, <2>2
    <2>3. ASSUME NEW c \in Client, x = <<"answers", c>>
          PROVE  Shorter(f[x], g[x])
      BY <1>1, <1>2, <2>3
    <2>4. QED BY <2>1, <2>2, <2>3, ChannelFacts
  <1>4. Shortened(queue, queue')
    BY <1>3 DEF Shortened, f, g
  <1>5. Once(queue') /\ Asked(queue', done')
    BY <1>4, OnceShorter DEF OnceInv
  <1>6. QED BY <1>5 DEF OnceInv

\* One connection of f changes to v.
Put(f, g, s, r, v) ==
  \A q \in Server, k \in Run : g[q][k] = IF q = s /\ k = r THEN v ELSE f[q][k]

LEMMA PutFacts ==
  ASSUME NEW f, Shaped(f), NEW s \in Server, NEW r \in Run, NEW v, NEW g,
         g = [f EXCEPT ![s][r] = v]
  PROVE  Put(f, g, s, r, v)
  BY DEF Shaped, Put

\* A step that takes the packet at the head of one channel to another.
LEMMA StepMoved ==
  ASSUME Queues(queue), OnceInv, done \in [Client -> Int], done' = done,
         NEW a \in Channel, NEW b \in Channel, a # b, NEW p \in Requests \cup Replies,
         queue[a] # << >>, Head(queue[a]) # Syn, p.from = Head(queue[a]).from,
         \A x \in Channel \ {a, b} : queue'[x] = queue[x],
         queue'[a] = Tail(queue[a]), queue'[b] = Append(queue[b], p)
  PROVE  OnceInv'
  <1>1. Once(queue') /\ Asked(queue', done)
    BY OnceMoved DEF OnceInv
  <1>2. QED BY <1>1 DEF OnceInv

LEMMA NotSyn == \A p \in Requests \cup Replies : p # Syn
  BY DEF Requests, Replies, Syn

LEMMA SameDone ==
  ASSUME UNCHANGED <<sent, inbox>>
  PROVE  done' = done
  BY DEF done, Done

\* The channels before and after a step.
LEMMA QueueNow ==
  /\ \A s \in Server, r \in Run : /\ queue[<<"toServer", s, r>>] = toServer[s][r]
                                  /\ queue[<<"toJson", s, r>>] = toJson[s][r]
  /\ \A c \in Client : queue[<<"answers", c>>] = answers[c]
  BY TogetherFacts DEF queue

LEMMA QueueThen ==
  /\ \A s \in Server, r \in Run : /\ queue'[<<"toServer", s, r>>] = toServer'[s][r]
                                  /\ queue'[<<"toJson", s, r>>] = toJson'[s][r]
  /\ \A c \in Client : queue'[<<"answers", c>>] = answers'[c]
  BY TogetherFacts DEF queue

LEMMA PutShorter ==
  ASSUME NEW f, NEW g, NEW s, NEW r, NEW v, Put(f, g, s, r, v), Shorter(f[s][r], v)
  PROVE  \A q \in Server, k \in Run : Shorter(f[q][k], g[q][k])
  <1>1. TAKE q \in Server, k \in Run
  <1>2. g[q][k] = IF q = s /\ k = r THEN v ELSE f[q][k]
    BY DEF Put
  <1>3. Shorter(f[q][k], f[q][k])
    BY DEF Shorter
  <1>4. QED BY <1>2, <1>3

\* Of each kind of channels, all but one are as they were.
SameServers(x) ==
  \A s \in Server, r \in Run :
    <<"toServer", s, r>> # x => queue'[<<"toServer", s, r>>] = queue[<<"toServer", s, r>>]

SameJsons(x) ==
  \A s \in Server, r \in Run :
    <<"toJson", s, r>> # x => queue'[<<"toJson", s, r>>] = queue[<<"toJson", s, r>>]

SameAnswers(x) ==
  \A c \in Client : <<"answers", c>> # x => queue'[<<"answers", c>>] = queue[<<"answers", c>>]

LEMMA ServerKept ==
  ASSUME UNCHANGED toServer, NEW x
  PROVE  SameServers(x)
  <1>1. ASSUME NEW s \in Server, NEW r \in Run
        PROVE  queue'[<<"toServer", s, r>>] = queue[<<"toServer", s, r>>]
    <2>1. queue[<<"toServer", s, r>>] = toServer[s][r]
      BY QueueNow
    <2>2. queue'[<<"toServer", s, r>>] = toServer'[s][r]
      BY QueueThen
    <2>3. QED BY <2>1, <2>2
  <1>2. QED BY <1>1 DEF SameServers

LEMMA ServerPart ==
  ASSUME NEW s \in Server, NEW r \in Run, NEW v,
         Put(toServer, toServer', s, r, v)
  PROVE  /\ SameServers(<<"toServer", s, r>>)
         /\ queue[<<"toServer", s, r>>] = toServer[s][r] /\ queue'[<<"toServer", s, r>>] = v
  <1>1. \A q \in Server, k \in Run : (q = s /\ k = r) \/ toServer'[q][k] = toServer[q][k]
    BY DEF Put
  <1>2. \A q \in Server, k \in Run :
          <<"toServer", q, k>> # <<"toServer", s, r>> => q # s \/ k # r
    OBVIOUS
  <1>3. \A q \in Server, k \in Run : /\ queue[<<"toServer", q, k>>] = toServer[q][k]
                                     /\ queue'[<<"toServer", q, k>>] = toServer'[q][k]
    BY QueueNow, QueueThen
  <1>4. SameServers(<<"toServer", s, r>>)
    BY <1>1, <1>2, <1>3 DEF SameServers
  <1>5. toServer'[s][r] = v
    BY DEF Put
  <1>6. QED BY <1>3, <1>4, <1>5

LEMMA JsonKept ==
  ASSUME UNCHANGED toJson, NEW x
  PROVE  SameJsons(x)
  <1>1. ASSUME NEW s \in Server, NEW r \in Run
        PROVE  queue'[<<"toJson", s, r>>] = queue[<<"toJson", s, r>>]
    <2>1. queue[<<"toJson", s, r>>] = toJson[s][r]
      BY QueueNow
    <2>2. queue'[<<"toJson", s, r>>] = toJson'[s][r]
      BY QueueThen
    <2>3. QED BY <2>1, <2>2
  <1>2. QED BY <1>1 DEF SameJsons

LEMMA JsonPart ==
  ASSUME NEW s \in Server, NEW r \in Run, NEW v,
         Put(toJson, toJson', s, r, v)
  PROVE  /\ SameJsons(<<"toJson", s, r>>)
         /\ queue[<<"toJson", s, r>>] = toJson[s][r] /\ queue'[<<"toJson", s, r>>] = v
  <1>1. \A q \in Server, k \in Run : (q = s /\ k = r) \/ toJson'[q][k] = toJson[q][k]
    BY DEF Put
  <1>2. \A q \in Server, k \in Run :
          <<"toJson", q, k>> # <<"toJson", s, r>> => q # s \/ k # r
    OBVIOUS
  <1>3. \A q \in Server, k \in Run : /\ queue[<<"toJson", q, k>>] = toJson[q][k]
                                     /\ queue'[<<"toJson", q, k>>] = toJson'[q][k]
    BY QueueNow, QueueThen
  <1>4. SameJsons(<<"toJson", s, r>>)
    BY <1>1, <1>2, <1>3 DEF SameJsons
  <1>5. toJson'[s][r] = v
    BY DEF Put
  <1>6. QED BY <1>3, <1>4, <1>5

LEMMA AnswersKept ==
  ASSUME UNCHANGED answers, NEW x
  PROVE  SameAnswers(x)
  BY QueueNow, QueueThen DEF SameAnswers

LEMMA AnswersPart ==
  ASSUME NEW d \in Client, NEW v,
         \A c \in Client : answers'[c] = IF c = d THEN v ELSE answers[c]
  PROVE  /\ SameAnswers(<<"answers", d>>)
         /\ queue[<<"answers", d>>] = answers[d] /\ queue'[<<"answers", d>>] = v
  <1>1. \A c \in Client : <<"answers", c>> # <<"answers", d>> => c # d
    OBVIOUS
  <1>2. SameAnswers(<<"answers", d>>)
    BY <1>1, QueueNow, QueueThen DEF SameAnswers
  <1>3. QED BY <1>2, QueueNow, QueueThen

\* If of each kind all channels but a, or all but b, are as they were, then only
\* a and b have changed.
LEMMA Elsewhere ==
  ASSUME NEW a, NEW b, SameServers(a) \/ SameServers(b), SameJsons(a) \/ SameJsons(b),
         SameAnswers(a) \/ SameAnswers(b)
  PROVE  \A x \in Channel \ {a, b} : queue'[x] = queue[x]
  <1>1. TAKE x \in Channel \ {a, b}
  <1>2. ASSUME NEW s \in Server, NEW r \in Run, x = <<"toServer", s, r>>
        PROVE  queue'[x] = queue[x]
    BY <1>2 DEF SameServers
  <1>3. ASSUME NEW s \in Server, NEW r \in Run, x = <<"toJson", s, r>>
        PROVE  queue'[x] = queue[x]
    BY <1>3 DEF SameJsons
  <1>4. ASSUME NEW c \in Client, x = <<"answers", c>>
        PROVE  queue'[x] = queue[x]
    BY <1>4 DEF SameAnswers
  <1>5. QED BY <1>2, <1>3, <1>4, ChannelFacts

\* The queues stay or are shortened, and no client's message is untaken again.
LEMMA NoneAdded ==
  ASSUME ToServerRight, ToJsonRight, ClientRight, OnceInv, UNCHANGED <<sent, inbox, answers>>,
         \A s \in Server, r \in Run : Shorter(toServer[s][r], toServer'[s][r]),
         \A s \in Server, r \in Run : Shorter(toJson[s][r], toJson'[s][r])
  PROVE  OnceInv'
  <1>1. Queues(queue) /\ Later(done, done')
    <2>1. Queues(queue) /\ done \in [Client -> Int] /\ done' = done
      BY QueueTypes, SameDone
    <2>2. QED BY <2>1 DEF Later
  <1>2. \A c \in Client : Shorter(answers[c], answers'[c])
    BY DEF Shorter
  <1>3. \A s \in Server, r \in Run : /\ Shorter(toServer[s][r], toServer'[s][r])
                                     /\ Shorter(toJson[s][r], toJson'[s][r])
    OBVIOUS
  <1>4. QED BY <1>1, <1>2, <1>3, StepShorter

LEMMA SameShorter ==
  ASSUME NEW f, NEW g, g = f
  PROVE  \A s \in Server, r \in Run : Shorter(f[s][r], g[s][r])
  BY DEF Shorter

LEMMA TailShorter ==
  ASSUME NEW f, NEW g, NEW s \in Server, NEW r \in Run, f[s][r] # << >>,
         Put(f, g, s, r, Tail(f[s][r]))
  PROVE  \A q \in Server, k \in Run : Shorter(f[q][k], g[q][k])
  <1>1. Shorter(f[s][r], Tail(f[s][r]))
    BY DEF Shorter
  <1>2. QED BY <1>1, PutShorter

\* Channel a changes from q to w, channel b from z to v, and no other.
Moved(a, b, q, w, z, v) ==
  /\ a \in Channel /\ b \in Channel /\ a # b
  /\ queue[a] = q /\ queue'[a] = w /\ queue[b] = z /\ queue'[b] = v
  /\ \A x \in Channel \ {a, b} : queue'[x] = queue[x]

LEMMA MovedOnce ==
  ASSUME OnceInv, Queues(queue), done \in [Client -> Int], done' = done,
         NEW a, NEW b, NEW q, NEW w, NEW z, NEW v, NEW p \in Requests \cup Replies,
         Moved(a, b, q, w, z, v), q # << >>, Head(q) # Syn, p.from = Head(q).from,
         w = Tail(q), v = Append(z, p)
  PROVE  OnceInv'
  BY StepMoved DEF Moved

\* From a server's connection to that of the other.
LEMMA ForwardMoves ==
  ASSUME NEW s \in Server, NEW q \in Server, NEW k \in Run, NEW w, NEW v,
         Put(toJson, toJson', s, k, w), Put(toServer, toServer', q, k, v), UNCHANGED answers
  PROVE  LET a == <<"toJson", s, k>>
             b == <<"toServer", q, k>>
         IN  Moved(a, b, toJson[s][k], w, toServer[q][k], v)
  <1> DEFINE a == <<"toJson", s, k>>
             b == <<"toServer", q, k>>
  <1>1. a \in Channel /\ b \in Channel /\ a # b
    BY ChannelFacts
  <1>2. SameJsons(a) /\ queue[a] = toJson[s][k] /\ queue'[a] = w
    BY JsonPart
  <1>3. SameServers(b) /\ queue[b] = toServer[q][k] /\ queue'[b] = v
    BY ServerPart
  <1>4. SameAnswers(a)
    BY AnswersKept
  <1> HIDE DEF a, b
  <1>5. \A x \in Channel \ {a, b} : queue'[x] = queue[x]
    BY <1>2, <1>3, <1>4, Elsewhere
  <1>6. Moved(a, b, toJson[s][k], w, toServer[q][k], v)
    BY <1>1, <1>2, <1>3, <1>5 DEF Moved
  <1>7. QED BY <1>6 DEF a, b

\* From JsonSrv to a server and back.
LEMMA AnswerMoves ==
  ASSUME NEW s \in Server, NEW k \in Run, NEW l \in Run, NEW w, NEW v,
         Put(toServer, toServer', s, k, w), Put(toJson, toJson', s, l, v), UNCHANGED answers
  PROVE  LET a == <<"toServer", s, k>>
             b == <<"toJson", s, l>>
         IN  Moved(a, b, toServer[s][k], w, toJson[s][l], v)
  <1> DEFINE a == <<"toServer", s, k>>
             b == <<"toJson", s, l>>
  <1>1. a \in Channel /\ b \in Channel /\ a # b
    BY ChannelFacts
  <1>2. SameServers(a) /\ queue[a] = toServer[s][k] /\ queue'[a] = w
    BY ServerPart
  <1>3. SameJsons(b) /\ queue[b] = toJson[s][l] /\ queue'[b] = v
    BY JsonPart
  <1>4. SameAnswers(a)
    BY AnswersKept
  <1> HIDE DEF a, b
  <1>5. \A x \in Channel \ {a, b} : queue'[x] = queue[x]
    BY <1>2, <1>3, <1>4, Elsewhere
  <1>6. Moved(a, b, toServer[s][k], w, toJson[s][l], v)
    BY <1>1, <1>2, <1>3, <1>5 DEF Moved
  <1>7. QED BY <1>6 DEF a, b

\* From JsonSrv to a client.
LEMMA DeliverMoves ==
  ASSUME NEW s \in Server, NEW k \in Run, NEW c \in Client, NEW w, NEW v,
         Put(toServer, toServer', s, k, w), UNCHANGED toJson,
         \A e \in Client : answers'[e] = IF e = c THEN v ELSE answers[e]
  PROVE  LET a == <<"toServer", s, k>>
             b == <<"answers", c>>
         IN  Moved(a, b, toServer[s][k], w, answers[c], v)
  <1> DEFINE a == <<"toServer", s, k>>
             b == <<"answers", c>>
  <1>1. a \in Channel /\ b \in Channel /\ a # b
    BY ChannelFacts
  <1>2. SameServers(a) /\ queue[a] = toServer[s][k] /\ queue'[a] = w
    BY ServerPart
  <1>3. SameAnswers(b) /\ queue[b] = answers[c] /\ queue'[b] = v
    BY AnswersPart
  <1>4. SameJsons(a)
    BY JsonKept
  <1> HIDE DEF a, b
  <1>5. \A x \in Channel \ {a, b} : queue'[x] = queue[x]
    BY <1>2, <1>3, <1>4, Elsewhere
  <1>6. Moved(a, b, toServer[s][k], w, answers[c], v)
    BY <1>1, <1>2, <1>3, <1>5 DEF Moved
  <1>7. QED BY <1>6 DEF a, b

\* A step of JsonSrv: what one server sent goes on to the other.
LEMMA ForwardOnce ==
  ASSUME ToServerRight, ToJsonRight, ClientRight, Fresh, OnceInv, up,
         NEW s \in Server, NEW q \in Server, toJson[s][run] # << >>,
         SendTo(q, Head(toJson[s][run])) \/ UNCHANGED toServer,
         toJson' = [toJson EXCEPT ![s][run] = Tail(@)], UNCHANGED <<sent, inbox, answers>>
  PROVE  OnceInv'
  <1> DEFINE w == Tail(toJson[s][run])
             p == Head(toJson[s][run])
             v == Append(toServer[q][run], p)
  <1>1. run \in Run /\ Shaped(toJson) /\ Shaped(toServer)
    BY DEF Fresh, ToJsonRight, ToServerRight
  <1>2. Put(toJson, toJson', s, run, w)
    <2>1. toJson' = [toJson EXCEPT ![s][run] = w]
      OBVIOUS
    <2> HIDE DEF w
    <2>2. QED BY <1>1, <2>1, PutFacts
  <1>3. CASE UNCHANGED toServer
    BY <1>1, <1>2, <1>3, SameShorter, TailShorter, NoneAdded
  <1>4. CASE toServer' = [toServer EXCEPT ![q][run] = v]
    <2>1. Put(toServer, toServer', q, run, v)
      <3> HIDE DEF v
      <3>1. QED BY <1>1, <1>4, PutFacts
    <2>2. p \in Requests \cup Replies /\ p # Syn
      <3>1. toJson[s][run] \in Seq(GotFrom(s))
        BY <1>1 DEF ToJsonRight
      <3>2. p \in GotFrom(s)
        BY <3>1, SeqOps
      <3>3. p \in Requests \cup Replies
        BY <3>2 DEF GotFrom
      <3> HIDE DEF p
      <3>4. QED BY <3>3, NotSyn
    <2>3. Queues(queue) /\ done \in [Client -> Int] /\ done' = done
      BY QueueTypes, SameDone
    <2>4. Head(toJson[s][run]) # Syn /\ p.from = Head(toJson[s][run]).from
      BY <2>2
    <2> HIDE DEF p
    <2>5. w = Tail(toJson[s][run]) /\ v = Append(toServer[q][run], p)
      OBVIOUS
    <2> HIDE DEF v, w
    <2>6. Moved(<<"toJson", s, run>>, <<"toServer", q, run>>,
                toJson[s][run], w, toServer[q][run], v)
      BY <1>1, <1>2, <2>1, ForwardMoves
    <2>7. QED BY <2>2, <2>3, <2>4, <2>5, <2>6, MovedOnce
  <1>5. QED BY <1>3, <1>4 DEF SendTo

\* A step of DBSrv: a request becomes its answer.
LEMMA AnswerOnce ==
  ASSUME LinkType, ToServerRight, ToJsonRight, ClientRight, OnceInv, NEW r \in Run,
         NEW p \in Requests \cup Replies, toServer["db"][r] \in Seq(Requests),
         toServer["db"][r] # << >>, p.from = Head(toServer["db"][r]).from,
         SendToJson("db", p) \/ UNCHANGED toJson,
         toServer' = [toServer EXCEPT !["db"][r] = Tail(@)], UNCHANGED <<sent, inbox, answers>>
  PROVE  OnceInv'
  <1> DEFINE n == jsonSession["db"]
             w == Tail(toServer["db"][r])
             v == Append(toJson["db"][n], p)
  <1>1. "db" \in Server /\ Shaped(toJson) /\ Shaped(toServer)
    BY DEF Server, ToJsonRight, ToServerRight
  <1>2. Put(toServer, toServer', "db", r, w)
    <2>1. toServer' = [toServer EXCEPT !["db"][r] = w]
      OBVIOUS
    <2> HIDE DEF w
    <2>2. QED BY <1>1, <2>1, PutFacts
  <1>3. CASE UNCHANGED toJson
    BY <1>1, <1>2, <1>3, SameShorter, TailShorter, NoneAdded
  <1>4. CASE n # 0 /\ toJson' = [toJson EXCEPT !["db"][n] = v]
    <2>1. n \in Run
      BY <1>1, <1>4 DEF LinkType
    <2>2. Put(toJson, toJson', "db", n, v)
      <3> HIDE DEF v, n
      <3>1. QED BY <1>1, <1>4, <2>1, PutFacts
    <2> HIDE DEF n
    <2>3. Head(toServer["db"][r]) # Syn
      <3>1. Head(toServer["db"][r]) \in Requests
        BY SeqOps
      <3>2. QED BY <3>1, NotSyn
    <2>4. Queues(queue) /\ done \in [Client -> Int] /\ done' = done
      BY QueueTypes, SameDone
    <2>5. w = Tail(toServer["db"][r]) /\ v = Append(toJson["db"][n], p)
      OBVIOUS
    <2> HIDE DEF v, w
    <2>6. Moved(<<"toServer", "db", r>>, <<"toJson", "db", n>>,
                toServer["db"][r], w, toJson["db"][n], v)
      BY <1>1, <1>2, <2>1, <2>2, AnswerMoves
    <2>7. QED BY <2>3, <2>4, <2>5, <2>6, MovedOnce
  <1>5. QED BY <1>3, <1>4 DEF SendToJson

\* A step of LoginSrv: an answer reaches a client, or nobody.
LEMMA DeliverOnce ==
  ASSUME UserType, ToServerRight, ToJsonRight, ClientRight, OnceInv, NEW r \in Run, JsonOnRecv(r)
  PROVE  OnceInv'
  <1> DEFINE p == Head(toServer["login"][r])
             w == Tail(toServer["login"][r])
             u == IF p.key = 0 THEN NoUser ELSE m_pUserSession[p.key]
             d == IF u = NoUser THEN None ELSE m_pSession[u]
             v == Append(answers[d], p)
  <1>1. /\ "login" \in Server /\ Shaped(toServer) /\ UNCHANGED <<toJson, sent, inbox>>
        /\ toServer["login"][r] # << >> /\ object["login"][r] = "json"
    BY DEF Server, ToServerRight, JsonOnRecv, Hears
  <1>2. Put(toServer, toServer', "login", r, w)
    <2>1. toServer' = [toServer EXCEPT !["login"][r] = w]
      BY DEF JsonOnRecv
    <2> HIDE DEF w
    <2>2. QED BY <1>1, <2>1, PutFacts
  <1>3. p \in Replies
    <2>1. toServer["login"][r] \in Seq(Replies)
      BY <1>1 DEF ToServerRight, SentTo
    <2>2. QED BY <1>1, <2>1, SeqOps
  <1>4. answers' = answers \/ (d # None /\ answers' = [answers EXCEPT ![d] = v])
    BY DEF JsonOnRecv, SendToClient
  <1>5. d # None => d \in Client
    <2>1. p.key \in Port
      BY <1>3 DEF Replies
    <2>2. u \in UserSet \cup {NoUser}
      BY <2>1 DEF UserType
    <2> HIDE DEF u
    <2>3. QED BY <2>2 DEF UserType
  <1> HIDE DEF d, u
  <1>6. CASE answers' = answers
    BY <1>1, <1>2, <1>6, SameShorter, TailShorter, NoneAdded
  <1>7. CASE d # None /\ answers' = [answers EXCEPT ![d] = v]
    <2>1. \A c \in Client : answers'[c] = IF c = d THEN v ELSE answers[c]
      BY <1>7 DEF ClientRight, AnswersType
    <2>2. p \in Requests \cup Replies /\ p # Syn
      <3> HIDE DEF p
      <3>1. QED BY <1>3, NotSyn
    <2>3. Queues(queue) /\ done \in [Client -> Int] /\ done' = done
      BY <1>1, QueueTypes, SameDone
    <2>4. Head(toServer["login"][r]) # Syn /\ p.from = Head(toServer["login"][r]).from
      BY <2>2
    <2> HIDE DEF p
    <2>5. w = Tail(toServer["login"][r]) /\ v = Append(answers[d], p) /\ d \in Client
      BY <1>5, <1>7
    <2> HIDE DEF v, w
    <2>6. Moved(<<"toServer", "login", r>>, <<"answers", d>>,
                toServer["login"][r], w, answers[d], v)
      BY <1>1, <1>2, <2>1, <2>5, DeliverMoves
    <2>7. QED BY <1>1, <2>2, <2>3, <2>4, <2>5, <2>6, MovedOnce
  <1>8. QED BY <1>4, <1>6, <1>7

\* The messages that LoginSrv has taken only grow in number.
LEMMA DoneGrows ==
  ASSUME AskedType, AskedType', NEW c \in Client,
         \A e \in Client \ {c} : inbox'[e] = inbox[e] /\ sent'[e] = sent[e]
  PROVE  LET before == sent[c] - Len(inbox[c])
             after == sent'[c] - Len(inbox'[c])
         IN  /\ before \in Int /\ done[c] = before /\ done'[c] = after
             /\ before <= after => Later(done, done')
  <1>1. \A e \in Client : /\ sent[e] \in Nat /\ Len(inbox[e]) \in Nat
                          /\ sent'[e] \in Nat /\ Len(inbox'[e]) \in Nat
    <2>1. TAKE e \in Client
    <2>2. sent[e] \in Nat /\ inbox[e] \in Seq(Text) /\ sent'[e] \in Nat /\ inbox'[e] \in Seq(Text)
      BY DEF AskedType
    <2>3. QED BY <2>2, LenProperties
  <1>2. /\ done = [e \in Client |-> sent[e] - Len(inbox[e])]
        /\ done' = [e \in Client |-> sent'[e] - Len(inbox'[e])]
    BY DEF done, Done
  <1>3. done \in [Client -> Int] /\ done' \in [Client -> Int]
    BY <1>1, <1>2
  <1>4. \A e \in Client \ {c} : done[e] <= done'[e]
    BY <1>1, <1>2
  <1>5. sent[c] - Len(inbox[c]) \in Int
    BY <1>1
  <1>6. done[c] = sent[c] - Len(inbox[c]) /\ done'[c] = sent'[c] - Len(inbox'[c])
    BY <1>2
  <1>7. QED BY <1>3, <1>4, <1>5, <1>6 DEF Later

\* UserSession::OnRecv asks for a message that nobody has asked for.
LEMMA RecvOnce ==
  ASSUME LinkType, UserType, HasUser, ToServerRight, ToJsonRight, ClientRight, ClientRight', OnceInv,
         NEW c \in Client, OnRecv(c)
  PROVE  OnceInv'
  <1> DEFINE n == sent[c] - Len(inbox[c])
             p == Request(netObject[c], Head(inbox[c]), <<c, n + 1>>)
             r == jsonSession["login"]
             v == Append(toJson["login"][r], p)
  <1>1. /\ inbox[c] # << >> /\ inbox' = [inbox EXCEPT ![c] = Tail(inbox[c])]
        /\ UNCHANGED <<sent, answers, toServer>>
    BY DEF OnRecv
  <1>2. AskedType /\ AskedType' /\ Queues(queue)
    BY QueueTypes DEF ClientRight
  <1>3. sent[c] \in Nat /\ Len(inbox[c]) \in Nat /\ Len(inbox'[c]) = Len(inbox[c]) - 1
    <2>1. inbox[c] \in Seq(Text) /\ sent[c] \in Nat /\ inbox'[c] = Tail(inbox[c])
      BY <1>1, <1>2 DEF AskedType
    <2> DEFINE q == inbox[c]
    <2>2. q \in Seq(Text) /\ q # << >>
      BY <1>1, <2>1
    <2> HIDE DEF q
    <2>3. Len(q) \in Nat /\ Len(Tail(q)) = Len(q) - 1
      BY <2>2, HeadTailProperties, LenProperties
    <2>4. QED BY <2>1, <2>3 DEF q
  <1>4. \A e \in Client \ {c} : inbox'[e] = inbox[e] /\ sent'[e] = sent[e]
    BY <1>1, <1>2 DEF AskedType
  <1>5. n \in Int /\ done[c] = n /\ done'[c] = n + 1 /\ Later(done, done')
    <2>1. sent'[c] - Len(inbox'[c]) = n + 1 /\ n <= n + 1
      BY <1>1, <1>3
    <2>2. QED BY <1>2, <1>4, <2>1, DoneGrows
  <1>6. Shortened(queue, queue)
    BY DEF Shortened, Shorter
  <1>7. Once(queue) /\ Asked(queue, done) /\ Asked(queue, done')
    BY <1>2, <1>5, <1>6, OnceShorter DEF OnceInv
  <1>8. UNCHANGED toJson \/ (m_wUserKey[netObject[c]] # 0 /\ SendToJson("login", p))
    BY DEF OnRecv
  <1>9. CASE UNCHANGED toJson
    <2>1. \A s \in Server, k \in Run : /\ Shorter(toServer[s][k], toServer'[s][k])
                                       /\ Shorter(toJson[s][k], toJson'[s][k])
      BY <1>1, <1>9 DEF Shorter
    <2>2. \A e \in Client : Shorter(answers[e], answers'[e])
      BY <1>1 DEF Shorter
    <2>3. QED BY <1>2, <1>5, <2>1, <2>2, StepShorter
  <1>10. CASE m_wUserKey[netObject[c]] # 0 /\ r # 0 /\ toJson' = [toJson EXCEPT !["login"][r] = v]
    <2>1. p \in Requests
      BY <1>2, <1>10, RequestType
    <2>2. p.from = <<c, n + 1>>
      BY DEF Request
    <2>3. r \in Run /\ "login" \in Server
      BY <1>10 DEF LinkType, Server
    <2>4. Put(toJson, toJson', "login", r, v)
      <3>1. Shaped(toJson)
        BY DEF ToJsonRight
      <3> HIDE DEF v, r
      <3>2. QED BY <1>10, <2>3, <3>1, PutFacts
    <2> DEFINE b == <<"toJson", "login", r>>
    <2>5. SameServers(b) /\ SameAnswers(b)
      BY <1>1, ServerKept, AnswersKept
    <2>6. /\ b \in Channel /\ SameJsons(b) /\ queue[b] = toJson["login"][r]
          /\ queue'[b] = Append(toJson["login"][r], p)
      <3>1. SameJsons(b) /\ queue[b] = toJson["login"][r] /\ queue'[b] = v
        <4> HIDE DEF v, r
        <4>1. QED BY <2>3, <2>4, JsonPart
      <3>2. QED BY <2>3, <3>1, ChannelFacts
    <2> HIDE DEF b, p, n
    <2>7. Joined(queue, queue', b, p)
      <3>1. \A x \in Channel \ {b, b} : queue'[x] = queue[x]
        BY <2>5, <2>6, Elsewhere
      <3>2. QED BY <2>6, <3>1 DEF Joined
    <2>8. Unheard(queue, p)
      <3> SUFFICES ASSUME NEW x \in Channel, NEW i \in 1..Len(queue[x]), queue[x][i] # Syn,
                          queue[x][i].from = <<c, n + 1>>
                   PROVE  FALSE
        BY <2>2 DEF Unheard
      <3>1. n + 1 <= done[c]
        BY <1>5, <1>7 DEF Asked
      <3>2. QED BY <1>5, <3>1
    <2>9. \A e \in Client : \A m \in Int : p.from = <<e, m>> => m <= done'[e]
      BY <1>5, <2>2
    <2>10. Once(queue') /\ Asked(queue', done')
      BY <1>2, <1>7, <2>1, <2>6, <2>7, <2>8, <2>9, OnceMore
    <2>11. QED BY <2>10 DEF OnceInv
  <1>11. QED BY <1>8, <1>9, <1>10 DEF SendToJson

\* The client's messages are thrown away, or there is one more that is not taken.
LEMMA AskedOnce ==
  ASSUME ToServerRight, ToJsonRight, ClientRight, ClientRight', OnceInv, NEW c \in Client,
         UNCHANGED <<toServer, toJson, answers>>,
         \/ UNCHANGED sent /\ inbox' = [inbox EXCEPT ![c] = << >>]
         \/ /\ sent' = [sent EXCEPT ![c] = @ + 1]
            /\ \E t \in Text : inbox' = [inbox EXCEPT ![c] = Append(@, t)]
  PROVE  OnceInv'
  <1>1. AskedType /\ AskedType' /\ Queues(queue)
    BY QueueTypes DEF ClientRight
  <1>2. /\ sent[c] \in Nat /\ inbox[c] \in Seq(Text)
        /\ inbox \in [Client -> Seq(Text)] /\ sent \in [Client -> Nat]
    BY <1>1 DEF AskedType
  <1>3. \A e \in Client \ {c} : inbox'[e] = inbox[e] /\ sent'[e] = sent[e]
    BY <1>2
  <1>4. Len(inbox[c]) \in Nat
    BY <1>2, LenProperties
  <1>5. sent[c] - Len(inbox[c]) <= sent'[c] - Len(inbox'[c])
    <2>1. CASE UNCHANGED sent /\ inbox' = [inbox EXCEPT ![c] = << >>]
      <3>1. Len(inbox'[c]) = 0 /\ sent'[c] = sent[c]
        BY <1>2, <2>1
      <3>2. QED BY <1>2, <1>4, <3>1
    <2>2. ASSUME NEW t \in Text, sent' = [sent EXCEPT ![c] = @ + 1],
                 inbox' = [inbox EXCEPT ![c] = Append(@, t)]
          PROVE  sent[c] - Len(inbox[c]) <= sent'[c] - Len(inbox'[c])
      <3>1. sent'[c] = sent[c] + 1 /\ inbox'[c] = Append(inbox[c], t)
        BY <1>2, <2>2
      <3>2. Len(inbox'[c]) = Len(inbox[c]) + 1
        BY <1>2, <3>1, AppendProperties
      <3>3. QED BY <1>2, <1>4, <3>1, <3>2
    <2>3. QED BY <2>1, <2>2
  <1>6. Later(done, done')
    BY <1>1, <1>3, <1>5, DoneGrows
  <1>7. \A s \in Server, k \in Run : /\ Shorter(toServer[s][k], toServer'[s][k])
                                     /\ Shorter(toJson[s][k], toJson'[s][k])
    BY DEF Shorter
  <1>8. \A e \in Client : Shorter(answers[e], answers'[e])
    BY DEF Shorter
  <1>9. QED BY <1>1, <1>6, <1>7, <1>8, StepShorter

LEMMA LinkOnce ==
  ASSUME ToServerRight, ToJsonRight, ClientRight, OnceInv, UNCHANGED <<sent, inbox, answers>>,
         NEW s \in Server, NEW r \in Run,
         Accept(s, r) \/ Rebind(s, r) \/ Kick(s, r) \/ Break(s, r)
  PROVE  OnceInv'
  <1>1. UNCHANGED toJson /\ Shaped(toServer)
    BY DEF Accept, Rebind, Kick, Break, ToServerRight
  <1>2. \/ UNCHANGED toServer
        \/ toServer[s][r] # << >> /\ toServer' = [toServer EXCEPT ![s][r] = Tail(toServer[s][r])]
        \/ toServer' = [toServer EXCEPT ![s][r] = << >>]
    BY DEF Accept, Rebind, Kick, Break
  <1>3. PICK v : UNCHANGED toServer
                 \/ (Shorter(toServer[s][r], v) /\ toServer' = [toServer EXCEPT ![s][r] = v])
    BY <1>2 DEF Shorter
  <1>4. CASE UNCHANGED toServer
    BY <1>1, <1>4, SameShorter, NoneAdded
  <1>5. CASE Shorter(toServer[s][r], v) /\ toServer' = [toServer EXCEPT ![s][r] = v]
    <2>1. Put(toServer, toServer', s, r, v)
      BY <1>1, <1>5, PutFacts
    <2>2. QED BY <1>1, <1>5, <2>1, PutShorter, SameShorter, NoneAdded
  <1>6. QED BY <1>3, <1>4, <1>5

LEMMA LoginOnce ==
  ASSUME LinkType, UserType, HasUser, ToServerRight, ToJsonRight, ClientRight, ClientRight', OnceInv,
         LoginUpdate
  PROVE  OnceInv'
  <1>1. ASSUME NEW c \in Client, OnAccept(c)
        PROVE  OnceInv'
    <2>1. UNCHANGED <<toServer, toJson, sent, inbox, answers>>
      BY <1>1 DEF OnAccept, linkVars
    <2>2. QED BY <2>1, SameShorter, NoneAdded
  <1>2. ASSUME NEW c \in Client, OnDisconnect(c)
        PROVE  OnceInv'
    <2>1. UNCHANGED <<toServer, toJson, sent, answers>> /\ inbox' = [inbox EXCEPT ![c] = << >>]
      BY <1>2 DEF OnDisconnect, linkVars
    <2>2. QED BY <2>1, AskedOnce
  <1>3. ASSUME NEW r \in Run, Accept("login", r) \/ Rebind("login", r) \/ Kick("login", r),
               UNCHANGED loginVars
        PROVE  OnceInv'
    <2>1. UNCHANGED <<sent, inbox, answers>>
      BY <1>3 DEF loginVars, clientVars
    <2>2. QED BY <1>3, <2>1, LinkOnce DEF Server
  <1>4. QED BY <1>1, <1>2, <1>3, RecvOnce, DeliverOnce DEF LoginUpdate

LEMMA JsonOnce ==
  ASSUME ToServerRight, ToJsonRight, ClientRight, Fresh, OnceInv, UNCHANGED <<sent, inbox, answers>>,
         JsonUpdate \/ Start \/ Crash
  PROVE  OnceInv'
  <1>1. Shaped(toServer) /\ Shaped(toJson)
    BY DEF ToServerRight, ToJsonRight
  <1>2. ASSUME UNCHANGED <<toServer, toJson>>
        PROVE  OnceInv'
    BY <1>2, SameShorter, NoneAdded
  <1>3. ASSUME NEW s \in Server, TryToConnect(s) \/ OnConnectFail(s)
        PROVE  OnceInv'
    BY <1>2, <1>3 DEF TryToConnect, OnConnectFail, linkVars
  <1>4. ASSUME NEW s \in Server, OnConnect(s)
        PROVE  OnceInv'
    <2> DEFINE v == << Syn >>
    <2>1. run \in Run /\ toServer' = [toServer EXCEPT ![s][run] = v] /\ UNCHANGED toJson
      BY <1>4 DEF OnConnect, Fresh
    <2>2. Shorter(toServer[s][run], v)
      BY DEF Shorter
    <2> HIDE DEF v
    <2>3. Put(toServer, toServer', s, run, v)
      BY <1>1, <2>1, PutFacts
    <2>4. QED BY <2>1, <2>2, <2>3, PutShorter, SameShorter, NoneAdded
  <1>5. ASSUME NEW s \in Server, OnJsonDisconnect(s)
        PROVE  OnceInv'
    <2> DEFINE v == << >>
    <2>1. run \in Run /\ toJson' = [toJson EXCEPT ![s][run] = v] /\ UNCHANGED toServer
      BY <1>5 DEF OnJsonDisconnect, Fresh
    <2>2. Shorter(toJson[s][run], v)
      BY DEF Shorter
    <2> HIDE DEF v
    <2>3. Put(toJson, toJson', s, run, v)
      BY <1>1, <2>1, PutFacts
    <2>4. QED BY <2>1, <2>2, <2>3, PutShorter, SameShorter, NoneAdded
  <1>6. CASE OnLoginRecv
    <2>1. /\ up /\ toJson["login"][run] # << >> /\ "login" \in Server /\ "db" \in Server
          /\ toJson' = [toJson EXCEPT !["login"][run] = Tail(@)]
          /\ SendTo("db", Head(toJson["login"][run])) \/ UNCHANGED toServer
      BY <1>6 DEF OnLoginRecv, Server
    <2>2. QED BY <2>1, ForwardOnce
  <1>7. CASE OnDBRecv
    <2>1. /\ up /\ toJson["db"][run] # << >> /\ "login" \in Server /\ "db" \in Server
          /\ toJson' = [toJson EXCEPT !["db"][run] = Tail(@)]
          /\ SendTo("login", Head(toJson["db"][run]))
      BY <1>7 DEF OnDBRecv, Server
    <2>2. QED BY <2>1, ForwardOnce
  <1>8. CASE Start
    BY <1>2, <1>8 DEF Start, linkVars
  <1>9. CASE Crash
    <2>1. UNCHANGED toServer /\ toJson' = [s \in Server |-> [toJson[s] EXCEPT ![run] = << >>]]
      BY <1>9 DEF Crash
    <2>2. ASSUME NEW s \in Server, NEW r \in Run PROVE Shorter(toJson[s][r], toJson'[s][r])
      <3>1. toJson'[s][r] = toJson[s][r] \/ toJson'[s][r] = << >>
        BY <1>1, <2>1 DEF Shaped
      <3>2. QED BY <3>1 DEF Shorter
    <2>3. QED BY <2>1, <2>2, SameShorter, NoneAdded
  <1>10. QED BY <1>3, <1>4, <1>5, <1>6, <1>7, <1>8, <1>9 DEF JsonUpdate

LEMMA DBOnce ==
  ASSUME LinkType, ToServerRight, ToJsonRight, ClientRight, RowType, OnceInv,
         UNCHANGED <<sent, inbox, answers>>, DBUpdate
  PROVE  OnceInv'
  <1>1. PICK r \in Run : DBAccept(r) \/ DBRebind(r) \/ DBKick(r) \/ OnPreLoginREQ(r)
    BY DEF DBUpdate
  <1>2. ASSUME DBAccept(r) \/ DBRebind(r) \/ DBKick(r)
        PROVE  OnceInv'
    BY <1>2, LinkOnce DEF DBAccept, DBRebind, DBKick, Server
  <1>3. ASSUME OnPreLoginREQ(r)
        PROVE  OnceInv'
    <2> DEFINE p == Head(toServer["db"][r])
    <2>1. Hears("db", r) /\ Query(p) /\ toServer' = [toServer EXCEPT !["db"][r] = Tail(@)]
      BY <1>3 DEF OnPreLoginREQ
    <2>2. /\ toServer["db"][r] \in Seq(Requests) /\ "db" \in Server /\ Shaped(toServer)
          /\ toServer["db"][r] # << >>
      BY <2>1 DEF Hears, ToServerRight, SentTo, Server
    <2>3. p \in Requests
      BY <2>2, SeqOps
    <2>4. \/ UNCHANGED toJson
          \/ \E e \in {0, 1}, f \in From \cup {<< >>} :
               /\ "query" \in Fault \/ f = p.from
               /\ SendToJson("db", Answer(p, [err |-> e, from |-> f]))
      <3> HIDE DEF p
      <3>1. p.from \in From
        BY <2>3 DEF Requests
      <3>2. row.err \in {0, 1} /\ row.from \in From \cup {<< >>}
            /\ row = [err |-> row.err, from |-> row.from]
        BY DEF RowType
      <3>3. ASSUME NEW e \in {0, 1}, row' = [err |-> e, from |-> p.from],
                   SendToJson("db", Answer(p, row'))
            PROVE  SendToJson("db", Answer(p, [err |-> e, from |-> p.from]))
        BY <3>3
      <3>4. QED BY <2>1, <3>1, <3>2, <3>3 DEF Query
    <2>5. CASE UNCHANGED toJson
      <3>1. Put(toServer, toServer', "db", r, Tail(toServer["db"][r]))
        <4> DEFINE w == Tail(toServer["db"][r])
        <4>1. toServer' = [toServer EXCEPT !["db"][r] = w]
          BY <2>1
        <4> HIDE DEF w
        <4>2. Put(toServer, toServer', "db", r, w)
          BY <2>2, <4>1, PutFacts
        <4>3. QED BY <4>2 DEF w
      <3>2. QED BY <2>2, <2>5, <3>1, TailShorter, SameShorter, NoneAdded
    <2>6. ASSUME NEW e \in {0, 1}, NEW f \in From \cup {<< >>}, "query" \in Fault \/ f = p.from,
                 SendToJson("db", Answer(p, [err |-> e, from |-> f]))
          PROVE  OnceInv'
      <3> DEFINE a == Answer(p, [err |-> e, from |-> f])
      <3>1. a \in Requests \cup Replies
        <4> HIDE DEF p
        <4>1. QED BY <2>3, <2>6, AnswerType
      <3>2. a.from = Head(toServer["db"][r]).from
        BY DEF Answer
      <3>3. SendToJson("db", a)
        BY <2>6
      <3> HIDE DEF a, p
      <3>4. QED BY <2>1, <2>2, <3>1, <3>2, <3>3, AnswerOnce
    <2>7. QED BY <2>4, <2>5, <2>6
  <1>4. QED BY <1>1, <1>2, <1>3

LEMMA InitOnce == Init => OnceInv
  <1> SUFFICES ASSUME Init PROVE OnceInv
    OBVIOUS
  <1>1. ASSUME NEW x \in Channel PROVE queue[x] = << >>
    <2>1. /\ \A s \in Server, r \in Run : toServer[s][r] = << >> /\ toJson[s][r] = << >>
          /\ \A c \in Client : answers[c] = << >>
      BY DEF Init, LinkInit, LoginInit, Each
    <2>2. ASSUME NEW s \in Server, NEW r \in Run
          PROVE  queue[<<"toServer", s, r>>] = << >> /\ queue[<<"toJson", s, r>>] = << >>
      <3>1. queue[<<"toServer", s, r>>] = toServer[s][r] /\ queue[<<"toJson", s, r>>] = toJson[s][r]
        BY QueueNow
      <3>2. QED BY <2>1, <3>1
    <2>3. ASSUME NEW c \in Client
          PROVE  queue[<<"answers", c>>] = << >>
      <3>1. queue[<<"answers", c>>] = answers[c]
        BY QueueNow
      <3>2. QED BY <2>1, <3>1
    <2>4. ASSUME NEW s \in Server, NEW r \in Run, x = <<"toServer", s, r>>
          PROVE  queue[x] = << >>
      BY <2>2, <2>4
    <2>5. ASSUME NEW s \in Server, NEW r \in Run, x = <<"toJson", s, r>>
          PROVE  queue[x] = << >>
      BY <2>2, <2>5
    <2>6. ASSUME NEW c \in Client, x = <<"answers", c>>
          PROVE  queue[x] = << >>
      BY <2>3, <2>6
    <2>7. QED BY <2>4, <2>5, <2>6, ChannelFacts
  <1>2. \A x \in Channel : \A i \in 1..Len(queue[x]) : FALSE
    <2>1. Len(<< >>) = 0
      OBVIOUS
    <2>2. QED BY <1>1, <2>1
  <1>3. Once(queue) /\ Asked(queue, done)
    BY <1>2 DEF Once, Asked
  <1>4. QED BY <1>3 DEF OnceInv

LEMMA NextOnce == AInv /\ AInv' /\ OnceInv /\ [Next]_vars => OnceInv'
  <1> SUFFICES ASSUME AInv, AInv', OnceInv, [Next]_vars PROVE OnceInv'
    OBVIOUS
  <1>1. /\ ToServerRight /\ ToJsonRight /\ Fresh /\ RowType /\ ClientRight /\ ClientRight'
        /\ LinkType /\ UserType /\ HasUser
    BY TypeParts DEF AInv, IInv
  <1>2. ASSUME UNCHANGED <<toServer, toJson, sent, inbox, answers>>
        PROVE  OnceInv'
    BY <1>1, <1>2, SameShorter, NoneAdded
  <1>3. ASSUME UNCHANGED loginVars
        PROVE  UNCHANGED <<sent, inbox, answers>>
    BY <1>3 DEF loginVars, clientVars
  <1>4. CASE LoginUpdate
    BY <1>1, <1>4, LoginOnce
  <1>5. CASE (JsonUpdate \/ Start \/ Crash) /\ UNCHANGED loginVars
    <2>1. UNCHANGED <<sent, inbox, answers>>
      BY <1>3, <1>5
    <2>2. QED BY <1>1, <1>5, <2>1, JsonOnce
  <1>6. CASE DBUpdate /\ UNCHANGED loginVars
    <2>1. UNCHANGED <<sent, inbox, answers>>
      BY <1>3, <1>6
    <2>2. QED BY <1>1, <1>6, <2>1, DBOnce
  <1>7. CASE Environment
    <2>1. ASSUME NEW c \in Client, ClientSends(c)
          PROVE  OnceInv'
      <3>1. /\ UNCHANGED <<toServer, toJson, answers>>
            /\ sent' = [sent EXCEPT ![c] = @ + 1]
            /\ \E t \in Text : inbox' = [inbox EXCEPT ![c] = Append(@, t)]
        BY <2>1 DEF ClientSends, linkVars
      <3>2. QED BY <1>1, <3>1, AskedOnce
    <2>2. ASSUME NEW c \in Client, ClientLeaves(c)
          PROVE  OnceInv'
      BY <1>2, <2>2 DEF ClientLeaves, linkVars
    <2>3. ASSUME NEW s \in Server, NEW r \in Run, Break(s, r), UNCHANGED loginVars
          PROVE  OnceInv'
      <3>1. UNCHANGED <<sent, inbox, answers>>
        BY <1>3, <2>3
      <3>2. QED BY <1>1, <2>3, <3>1, LinkOnce
    <2>4. QED BY <1>7, <2>1, <2>2, <2>3 DEF Environment
  <1>8. CASE UNCHANGED vars
    BY <1>2, <1>8 DEF vars, linkVars, loginVars, clientVars
  <1>9. QED
    BY <1>4, <1>5, <1>6, <1>7, <1>8 DEF Next, Servers

\* What an answer is about is no other's, and the row is that of its request.
LEMMA OnceAnswered == AInv /\ OnceInv => AnsweredOnce
  <1> SUFFICES ASSUME AInv, OnceInv, NEW c \in Client, NEW d \in Client,
                      NEW i \in 1..Len(answers[c]), NEW j \in 1..Len(answers[d]),
                      answers[c][i].from = answers[d][j].from
               PROVE  c = d /\ i = j
    BY DEF AnsweredOnce
  <1> DEFINE x == <<"answers", c>>
             y == <<"answers", d>>
  <1>1. x \in Channel /\ y \in Channel /\ queue[x] = answers[c] /\ queue[y] = answers[d]
    BY ChannelFacts, QueueNow
  <1>2. answers[c] \in Seq(Replies) /\ answers[d] \in Seq(Replies)
    BY DEF AInv, ClientRight, AnswersType
  <1>3. answers[c][i] # Syn /\ answers[d][j] # Syn
    BY <1>2, ElementOfSeq, NotSyn
  <1>4. x = y => c = d
    OBVIOUS
  <1> HIDE DEF x, y
  <1>5. x = y /\ i = j
    BY <1>1, <1>3 DEF OnceInv, Once
  <1>6. QED BY <1>4, <1>5

LEMMA RowOfRequest == ASSUME "query" \notin Fault, AInv PROVE RowRight
  <1>1. ASSUME NEW c \in Client, NEW i \in 1..Len(answers[c])
        PROVE  answers[c][i].row = answers[c][i].from
    <2>1. answers[c] \in Seq(Replies)
      BY DEF AInv, ClientRight, AnswersType
    <2>2. answers[c][i] \in Replies
      BY <2>1, ElementOfSeq
    <2>3. QED BY <2>2 DEF Replies
  <1>2. QED BY <1>1 DEF RowRight

\* No request is answered twice, neither to one client nor to two, whatever
\* fails, comes or goes: a request is passed on and answered where it is taken,
\* and nowhere else (UserSession.cpp:98-127, LoginServer.cpp:191-207,
\* Handler_FromJsonServer.cpp:58-97).
THEOREM AnsweredAtMostOnce == Spec => []AnsweredOnce
  <1>1. Init => AInv /\ OnceInv
    BY InitAnswers, InitOnce
  <1>2. AInv /\ OnceInv /\ [Next]_vars => (AInv /\ OnceInv)'
    BY NextAnswers, NextOnce
  <1>3. QED
    BY <1>1, <1>2, OnceAnswered, PTL DEF Spec

\* While queries succeed, what a client receives is given once, and holds the
\* row that its own request led to although all requests share one query object
\* (Handler_FromJsonServer.cpp:58-97, PreLoginQuery.h:36-43), for any clients,
\* ports, UserSessions and runs, and whichever connections fail.
THEOREM AnswersAreRight ==
  ASSUME "query" \notin Fault
  PROVE  Spec => []AnswersRight
  <1>1. Init => AInv /\ OnceInv
    BY InitAnswers, InitOnce
  <1>2. AInv /\ OnceInv /\ [Next]_vars => (AInv /\ OnceInv)'
    BY NextAnswers, NextOnce
  <1>3. AInv /\ OnceInv => AnswersRight
    BY OnceAnswered, RowOfRequest DEF AnswersRight
  <1>4. QED
    BY <1>1, <1>2, <1>3, PTL DEF Spec
=============================================================================
