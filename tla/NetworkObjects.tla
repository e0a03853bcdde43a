--------------------------- MODULE NetworkObjects ---------------------------
(***************************************************************************)
(* What an application that derives from Network/NetworkObject.h may       *)
(* expect of its callbacks.  An object is told once that it is open        *)
(* (OnAccept, or OnConnect after a request to connect), hears the packets  *)
(* of its own peer, in order, each once, and only while it is open, and is *)
(* told once that it is closed, the last thing it hears.                   *)
(***************************************************************************)
EXTENDS Naturals, Sequences

CONSTANT Object

VARIABLES
  life,          \* what an object has been told
  inbox          \* inbox[o]: the packets OnRecv gave it, tagged by sender

Init ==
  /\ life = [o \in Object |-> "none"]
  /\ inbox = [o \in Object |-> <<>>]

Tell(o, from, to) ==
  /\ life[o] = from
  /\ life' = [life EXCEPT ![o] = to]
  /\ UNCHANGED inbox

Accept(o) == Tell(o, "none", "open")

Request(o) == Tell(o, "none", "opening")

Connected(o) == Tell(o, "opening", "open")

Refused(o) == Tell(o, "opening", "failed")

Close(o) == Tell(o, "open", "closed")

Hear(o) ==
  /\ life[o] = "open"
  /\ inbox' = [inbox EXCEPT ![o] = Append(@, <<o, Len(@) + 1>>)]
  /\ UNCHANGED life

Next ==
  \E o \in Object : \/ Accept(o) \/ Request(o) \/ Connected(o)
                    \/ Refused(o) \/ Close(o) \/ Hear(o)

Spec == Init /\ [][Next]_<<life, inbox>>
=============================================================================
