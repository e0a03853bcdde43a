---------------------------- MODULE MCLoginLive -----------------------------
(***************************************************************************)
(* Two instances of LoginSystem, one of them in each behaviour; which one  *)
(* is chosen at the start.  In the first the servers crash, their          *)
(* connections fail and break, and JsonSrv runs twice; there are no        *)
(* clients.  In the second two clients from the same port ask, rightly or  *)
(* wrongly, and queries may fail.                                          *)
(***************************************************************************)
EXTENDS LoginSystem

VARIABLE instance

\* The second instance; the constants of the first are this module's own.
Clients == INSTANCE LoginSystem WITH
  Client <- {1, 2}, Text <- {"login", "no password"},
  MaxSends <- 1, MaxRun <- 1, Fault <- {"query"}

MCUser == <<101, 102>>

allVars == <<instance, vars>>

MCInit ==
  \/ instance = "links" /\ Init
  \/ instance = "clients" /\ Clients!Init

InLinks(A) == instance = "links" /\ A /\ UNCHANGED instance

InClients(A) == instance = "clients" /\ A /\ UNCHANGED instance

MCNext == InLinks(Next) \/ InClients(Clients!Next)

\* The fairness of LoginSystem: each server is a thread that runs.
LoginThread == \/ InLinks(LoginUpdate /\ UNCHANGED <<jsonVars, row>>)
               \/ InClients(Clients!LoginUpdate /\ UNCHANGED <<jsonVars, row>>)

JsonThread == \/ InLinks(JsonUpdate /\ UNCHANGED <<loginVars, row>>)
              \/ InClients(Clients!JsonUpdate /\ UNCHANGED <<loginVars, row>>)

DBThread == \/ InLinks(DBUpdate /\ UNCHANGED <<loginVars, jsonVars>>)
            \/ InClients(Clients!DBUpdate /\ UNCHANGED <<loginVars, jsonVars>>)

MCSpec ==
  /\ MCInit /\ [][MCNext]_allVars
  /\ WF_allVars(LoginThread) /\ WF_allVars(JsonThread) /\ WF_allVars(DBThread)

-----------------------------------------------------------------------------
\* JsonSrv is linked to both servers in the end, or something that nobody
\* makes up for has happened (JsonServer.cpp:84-101, ServerSession.cpp:96-107).
LinkedOrLost ==
  \A s \in Server :
    (instance = "links" /\ Called(s)) ~> (instance = "links" /\ Settled(s))

\* A client that asks in the way expected gets an answer, or something that
\* nobody makes up for has happened (UserSession.cpp:71-127,
\* LoginServer.cpp:168-207).
Served ==
  \A c \in {1, 2} :
    (instance = "clients" /\ Clients!AsksRight(c))
      ~> (instance = "clients" /\ Clients!AnsweredOrDisturbed(c))
=============================================================================
