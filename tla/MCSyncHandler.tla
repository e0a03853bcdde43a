--------------------------- MODULE MCSyncHandler ---------------------------
(* Model values of the instances of SyncHandler: each configuration takes  *)
(* the few sessions, io threads and connections its question needs.        *)
EXTENDS SyncHandler

CONSTANTS s1, s2, t1, t2
=============================================================================
