---------------------------- MODULE MCLoginSystem ----------------------------
(***************************************************************************)
(* Connections of clients that may come from the same port or not, and a   *)
(* pool of two UserSession objects.                                        *)
(***************************************************************************)
EXTENDS LoginSystem

MCUser == <<101, 102>>
=============================================================================
