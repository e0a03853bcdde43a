-------------------------------- MODULE Links --------------------------------
(***************************************************************************)
(* The links of the intrusive lists (LinkS_T): a link is 0 when its object *)
(* is in no list, -1 at the end, and the next object otherwise.            *)
(***************************************************************************)
EXTENDS Walks

CONSTANTS Object, List, None, Free, End

Answer(op, l, value) == [op |-> op, of |-> l, value |-> value]

\* front() and back() return 0 for an empty list.
OrNone(x) == IF x \in Object THEN x ELSE None
=============================================================================
