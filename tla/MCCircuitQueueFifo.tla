------------------------- MODULE MCCircuitQueueFifo -------------------------
(* A ring of four cells with two extra ones, fed with blocks of up to      *)
(* three: every pair of head and length occurs, full and empty at every    *)
(* head, and blocks that split at the end of the ring.                     *)
EXTENDS CircuitQueueFifo

MCElement == {"a", "b"}

MCChunk == {<<"a">>, <<"b">>, <<"a", "b">>, <<"b", "a", "a">>}
=============================================================================
