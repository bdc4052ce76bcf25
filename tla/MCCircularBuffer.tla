--------------------------- MODULE MCCircularBuffer ---------------------------
(* A ring of three slots, the smallest in which the read and the write       *)
(* pointer can each be ahead of the other, met, or one slot from wrapping.    *)
EXTENDS CircularBuffer

CONSTANTS a, b

MCElem == {a, b}
MCIndex == 0 .. 4
=============================================================================
