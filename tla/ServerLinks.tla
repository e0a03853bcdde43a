----------------------------- MODULE ServerLinks -----------------------------
(***************************************************************************)
(* The connections between JsonSrv and the two servers it calls, LoginSrv  *)
(* and DBSrv, which treat them alike.  An accepted connection starts with  *)
(* a TempServerSession; the first packet says who is calling, and the      *)
(* session is rebound to the one JsonSession of the server, whose          *)
(* m_pSession is where the server sends to.                                *)
(*                                                                         *)
(* A run of JsonSrv makes at most one connection to each server, so that a *)
(* connection is named by its server and its run.  Only JsonSrv connects.  *)
(* Alloc of a TempServerSession never fails (its pool grows).              *)
(***************************************************************************)
EXTENDS Naturals, Sequences

CONSTANTS
  MaxRun,        \* bound of the model: runs of JsonSrv, one after the other
  Fault          \* what may go wrong: a subset of FaultKinds

FaultKinds == {"crash", "break", "refuse", "query"}

ASSUME LinkAssumption == MaxRun \in Nat /\ Fault \subseteq FaultKinds

Server == {"login", "db"}

Run == 1..MaxRun

VARIABLES
  serverUp,      \* the server is running
  wire,          \* wire[s][r]: "none", "open" or "broken"
  toServer,      \* toServer[s][r]: packets on their way to the server
  toJson,        \* toJson[s][r]: packets on their way to JsonSrv
  object,        \* object[s][r]: network object of the server's session
  jsonSession    \* jsonSession[s]: m_pSession of the server's JsonSession

linkVars == <<serverUp, wire, toServer, toJson, object, jsonSession>>

Syn == [kind |-> "syn"]

Each(x) == [s \in Server |-> [r \in Run |-> x]]

LinkInit ==
  /\ serverUp = [s \in Server |-> TRUE]
  /\ wire = Each("none")
  /\ toServer = Each(<<>>) /\ toJson = Each(<<>>)
  /\ object = Each("none")
  /\ jsonSession = [s \in Server |-> 0]

-----------------------------------------------------------------------------
\* ProcessAcceptedSessionList: CreateServerSideAcceptedObject, Bind, OnAccept.
Accept(s, r) ==
  /\ serverUp[s] /\ object[s][r] = "none" /\ wire[s][r] # "none"
  /\ object' = [object EXCEPT ![s][r] = "temp"]
  /\ UNCHANGED <<serverUp, wire, toServer, toJson, jsonSession>>

\* TempServerSession::OnRecv: Unbind the temporary object, Bind JsonSession.
Rebind(s, r) ==
  /\ serverUp[s] /\ object[s][r] = "temp" /\ toServer[s][r] # <<>>
  /\ object' = [object EXCEPT ![s][r] = "json"]
  /\ jsonSession' = [jsonSession EXCEPT ![s] = r]
  /\ toServer' = [toServer EXCEPT ![s][r] = Tail(@)]
  /\ UNCHANGED <<serverUp, wire, toJson>>

\* JsonSession has the next packet of r's connection.
Hears(s, r) == serverUp[s] /\ object[s][r] = "json" /\ toServer[s][r] # <<>>

\* NetworkObject::Send of JsonSession: lost when it has no session, or one
\* whose connection is gone.
SendToJson(s, packet) ==
  LET r == jsonSession[s] IN
  toJson' = IF r # 0 /\ wire[s][r] = "open"
            THEN [toJson EXCEPT ![s][r] = Append(@, packet)] ELSE toJson

\* Mutant: the dead session is not unbound.
KickBound(s, r) ==
  /\ serverUp[s] /\ wire[s][r] = "broken" /\ object[s][r] \in {"temp", "json"}
  /\ object' = [object EXCEPT ![s][r] = "closed"]
  /\ toServer' = [toServer EXCEPT ![s][r] = <<>>]
  /\ UNCHANGED <<serverUp, wire, toJson, jsonSession>>

\* KickDeadSession, once the connection is seen to be gone: what has not been
\* processed is lost.  Unbind clears JsonSession's m_pSession even if it has
\* been bound to a later session since.
Kick(s, r) ==
  /\ serverUp[s] /\ wire[s][r] = "broken" /\ object[s][r] \in {"temp", "json"}
  /\ jsonSession' = [jsonSession EXCEPT ![s] = IF object[s][r] = "json" THEN 0 ELSE @]
  /\ object' = [object EXCEPT ![s][r] = "closed"]
  /\ toServer' = [toServer EXCEPT ![s][r] = <<>>]
  /\ UNCHANGED <<serverUp, wire, toJson>>

\* The network.
Break(s, r) ==
  /\ "break" \in Fault /\ wire[s][r] = "open"
  /\ wire' = [wire EXCEPT ![s][r] = "broken"]
  /\ UNCHANGED <<serverUp, toServer, toJson, object, jsonSession>>

-----------------------------------------------------------------------------
LinkType ==
  /\ serverUp \in [Server -> BOOLEAN]
  /\ wire \in [Server -> [Run -> {"none", "open", "broken"}]]
  /\ object \in [Server -> [Run -> {"none", "temp", "json", "closed"}]]
  /\ jsonSession \in [Server -> Run \cup {0}]

\* JsonSession's session, if it has one, is alive and bound to JsonSession: a
\* server never sends through a session that has gone back to its pool
\* (TempServerSession.cpp:60-64, SyncHandler.cpp:431-433).
SessionBack ==
  \A s \in Server : jsonSession[s] # 0 => object[s][jsonSession[s]] = "json"

\* JsonSession has lost its session although one is bound to it: a session
\* that it was bound to earlier has been kicked after the new one was bound.
Deaf(s) == jsonSession[s] = 0 /\ \E r \in Run : object[s][r] = "json"
=============================================================================
