----------------------------- MODULE ObjectPool -----------------------------
(***************************************************************************)
(* What a caller of Utility/MemoryFactory.hpp may rely on: an object is    *)
(* free or held; Alloc hands out a free one, Free takes back one that is   *)
(* held, Release drops everything.  No band, stack or order is visible.    *)
(***************************************************************************)
CONSTANT Object          \* everything the pool may ever hand out

VARIABLES
  free,                  \* what Alloc may still hand out
  out                    \* the objects the callers hold

Init == free = Object /\ out = {}

Take == \E o \in free : free' = free \ {o} /\ out' = out \cup {o}

Give == \E o \in out : free' = free \cup {o} /\ out' = out \ {o}

Drop == free' = Object /\ out' = {}

Next == Take \/ Give \/ Drop

Spec == Init /\ [][Next]_<<free, out>>
=============================================================================
