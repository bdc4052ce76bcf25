--------------------------- MODULE CircularBuffer ---------------------------
(***************************************************************************)
(* collections/CircularBuffer.h: the ring in which CameraController keeps   *)
(* the commands it cannot serve yet.  One action per member function; the   *)
(* private fields are the variables, `ret' is the value the last call       *)
(* returned (RangeError when it threw).                                     *)
(***************************************************************************)
EXTENDS Integers, Sequences

CONSTANTS Elem,        \* the type T
          Size,        \* the template parameter Size
          Index,       \* the arguments get(i) is called with
          UIntRange,   \* 2^w for the w bits of unsigned int
          NoElem,      \* a slot that was never written
          RangeError   \* std::range_error

ASSUME SizeAssumption == Size \in Nat \ {0}
ASSUME IndexAssumption == Index \subseteq Nat
ASSUME UIntAssumption == UIntRange \in Nat /\ Size < UIntRange

VARIABLES buffer, write_ptr, read_ptr, empty, ret

vars == <<buffer, write_ptr, read_ptr, empty, ret>>

Slots == 0 .. Size - 1

TypeOK == /\ buffer \in [Slots -> Elem \cup {NoElem}]
          /\ write_ptr \in Slots
          /\ read_ptr \in Slots
          /\ empty \in BOOLEAN

Succ(ptr) == (ptr + 1) % Size

count == IF empty THEN 0
         ELSE IF write_ptr > read_ptr THEN write_ptr - read_ptr
         ELSE Size - read_ptr + write_ptr

At(i) == IF i < count THEN buffer[(read_ptr + i) % Size] ELSE RangeError

Init == /\ buffer = [s \in Slots |-> NoElem]
        /\ write_ptr = 0
        /\ read_ptr = 0
        /\ empty = TRUE
        /\ ret = RangeError

\* Variants with a fault: a full ring that keeps its oldest element, a pop() that
\* forgets `empty'.
putNoOverwrite(e) == /\ buffer' = [buffer EXCEPT ![write_ptr] = e]
                     /\ write_ptr' = Succ(write_ptr)
                     /\ empty' = FALSE
                     /\ ret' = e
                     /\ UNCHANGED read_ptr

popNotEmptied == /\ ~empty
                 /\ read_ptr' = Succ(read_ptr)
                 /\ ret' = buffer[read_ptr]
                 /\ UNCHANGED <<buffer, write_ptr, empty>>

put(e) == /\ buffer' = [buffer EXCEPT ![write_ptr] = e]
          /\ read_ptr' = IF ~empty /\ write_ptr = read_ptr
                         THEN Succ(read_ptr) ELSE read_ptr
          /\ write_ptr' = Succ(write_ptr)
          /\ empty' = FALSE
          /\ ret' = e

pop == /\ ~empty
       /\ read_ptr' = Succ(read_ptr)
       /\ empty' = (read_ptr' = write_ptr)
       /\ ret' = buffer[read_ptr]
       /\ UNCHANGED <<buffer, write_ptr>>

popEmpty == /\ empty
            /\ ret' = RangeError
            /\ UNCHANGED <<buffer, write_ptr, read_ptr, empty>>

get(i) == /\ ret' = At(i)
          /\ UNCHANGED <<buffer, write_ptr, read_ptr, empty>>

\* get() without an argument.
getFirst == /\ ret' = IF ~empty THEN buffer[read_ptr] ELSE RangeError
            /\ UNCHANGED <<buffer, write_ptr, read_ptr, empty>>

\* count() - 1 is computed in size_t and narrowed to get's unsigned int: on an
\* empty buffer it wraps to the largest unsigned int.
last == /\ ret' = At((count - 1) % UIntRange)
        /\ UNCHANGED <<buffer, write_ptr, read_ptr, empty>>

getCount == /\ ret' = count
            /\ UNCHANGED <<buffer, write_ptr, read_ptr, empty>>

Next == \/ \E e \in Elem : put(e)
        \/ pop
        \/ popEmpty
        \/ \E i \in Index : get(i)
        \/ getFirst
        \/ last
        \/ getCount

Spec == Init /\ [][Next]_vars

----------------------------------------------------------------------------
\* The elements in the order pop() will return them.
Contents == [i \in 1 .. count |-> buffer[(read_ptr + i - 1) % Size]]

Fifo == INSTANCE OverwritingFifo WITH queue <- Contents

\* The ring behaves, call by call and result by result, as a FIFO queue of
\* Size elements that discards the oldest element when a put finds it full
\* (put, pop, get, last and count of CircularBuffer).
ImplementsFifo == Fifo!Spec

\* The two pointers meet when nothing is stored, and a stored element is never
\* an unwritten slot: what pop() and get() rely on to read only live slots.
RingInv == /\ empty => write_ptr = read_ptr
           /\ \A i \in 1 .. count : Contents[i] \in Elem
=============================================================================
