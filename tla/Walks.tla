-------------------------------- MODULE Walks --------------------------------
(***************************************************************************)
(* What a loop over links meets, and the operators on sequences that the   *)
(* containers use.  These are a part of SequencesExt, on its own: there is *)
(* an instance of every container, and a proof about the instances bears   *)
(* whatever they bring along.                                              *)
(***************************************************************************)
EXTENDS Naturals, Sequences, FiniteSets

\* The members of S one meets from h on through next, until one leaves S, which
\* a 0, a -1 or a NULL does; and one more if the links form a circle.
Walk(S, next, h) ==
  LET Step(x) == IF x \in S THEN next[x] ELSE x
      at[n \in 0..Cardinality(S)] == IF n = 0 THEN h ELSE Step(at[n - 1])
      met == Cardinality({n \in 0..Cardinality(S) : at[n] \in S})
  IN  [i \in 1..met |-> at[i - 1]]

-----------------------------------------------------------------------------
ToSet(s) == {s[i] : i \in DOMAIN s}

Contains(s, x) == \E i \in 1..Len(s) : s[i] = x

Last(s) == s[Len(s)]

Reverse(s) == [i \in 1..Len(s) |-> s[Len(s) - i + 1]]

InsertAt(s, i, x) == SubSeq(s, 1, i - 1) \o <<x>> \o SubSeq(s, i, Len(s))

RemoveAt(s, i) == SubSeq(s, 1, i - 1) \o SubSeq(s, i + 1, Len(s))
=============================================================================
