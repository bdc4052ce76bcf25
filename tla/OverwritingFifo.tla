--------------------------- MODULE OverwritingFifo ---------------------------
(***************************************************************************)
(* What a CircularBuffer promises its user: a first-in first-out queue of   *)
(* at most Size elements that never refuses an element, because it discards *)
(* the oldest one when it is full.  `ret' is what the last call returned,   *)
(* or RangeError when it threw range_error.                                 *)
(***************************************************************************)
EXTENDS Integers, Sequences

CONSTANTS Elem,        \* the values that can be stored
          Size,        \* capacity, the template parameter Size
          Index,       \* the arguments get(i) is called with
          RangeError   \* the exception thrown on an empty or too short queue

VARIABLES queue, ret

fifoVars == <<queue, ret>>

Init == /\ queue = << >>
        /\ ret = RangeError

Put(e) == /\ queue' = Append(IF Len(queue) = Size THEN Tail(queue) ELSE queue, e)
          /\ ret' = e

Pop == /\ queue # << >>
       /\ queue' = Tail(queue)
       /\ ret' = Head(queue)

Get(i) == /\ ret' = IF i < Len(queue) THEN queue[i + 1] ELSE RangeError
          /\ UNCHANGED queue

First == /\ ret' = IF queue # << >> THEN Head(queue) ELSE RangeError
         /\ UNCHANGED queue

Last == /\ ret' = IF queue # << >> THEN queue[Len(queue)] ELSE RangeError
        /\ UNCHANGED queue

PopEmpty == /\ queue = << >>
            /\ ret' = RangeError
            /\ UNCHANGED queue

Count == /\ ret' = Len(queue)
         /\ UNCHANGED queue

Next == \/ \E e \in Elem : Put(e)
        \/ Pop
        \/ PopEmpty
        \/ \E i \in Index : Get(i)
        \/ First
        \/ Last
        \/ Count

Spec == Init /\ [][Next]_fifoVars
=============================================================================
