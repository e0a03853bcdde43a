---------------------------- MODULE QueryService ----------------------------
(***************************************************************************)
(* What HyDatabase promises of its queries: they are taken in the order in *)
(* which they were given, and their results are handed over in the order   *)
(* in which they were finished, each one once.                             *)
(***************************************************************************)
EXTENDS Sequences, FiniteSets

CONSTANT Query

VARIABLES
  asked,     \* given and not yet taken by a worker
  running,   \* being executed
  answers,   \* executed and not yet handed over
  handed     \* handed over

vars == <<asked, running, answers, handed>>

Init == asked = <<>> /\ running = {} /\ answers = <<>> /\ handed = <<>>

Submit(q) == asked' = Append(asked, q) /\ UNCHANGED <<running, answers, handed>>

Take ==
  /\ asked # <<>>
  /\ asked' = Tail(asked) /\ running' = running \union {Head(asked)}
  /\ UNCHANGED <<answers, handed>>

Finish(q) ==
  /\ q \in running
  /\ running' = running \ {q} /\ answers' = Append(answers, q)
  /\ UNCHANGED <<asked, handed>>

HandOver ==
  /\ answers # <<>>
  /\ answers' = Tail(answers) /\ handed' = Append(handed, Head(answers))
  /\ UNCHANGED <<asked, running>>

\* What is left when the service ends is forgotten, but nothing that runs.
Close ==
  /\ running = {}
  /\ asked' = <<>> /\ answers' = <<>>
  /\ UNCHANGED <<running, handed>>

Next == Take \/ HandOver \/ Close \/ \E q \in Query : Submit(q) \/ Finish(q)

Spec == Init /\ [][Next]_vars
=============================================================================
