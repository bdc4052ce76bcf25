------------------------ MODULE CircularBufferProofs ------------------------
(***************************************************************************)
(* Proofs about CircularBuffer, for every capacity and element type: the    *)
(* ring keeps its pointers in range and is an overwriting FIFO.             *)
(***************************************************************************)
EXTENDS CircularBuffer, TLAPS

USE SizeAssumption, IndexAssumption, UIntAssumption

\* The two values of % the ring needs.
LEMMA Wrap ==
  ASSUME NEW a \in 0 .. 2 * Size - 1
  PROVE  a % Size = IF a < Size THEN a ELSE a - Size
OBVIOUS

LEMMA WrapSum ==
  ASSUME NEW r \in 0 .. Size - 1, NEW i \in 0 .. Size
  PROVE  (r + i) % Size = IF r + i < Size THEN r + i ELSE r + i - Size
<1>. DEFINE a == r + i
<1>1. a \in 0 .. 2 * Size - 1
  OBVIOUS
<1>. HIDE DEF a
<1>2. a % Size = IF a < Size THEN a ELSE a - Size
  BY <1>1, Wrap
<1>. QED BY <1>2 DEF a

\* The slot of the i-th element, counted from 0.
Slot(i) == (read_ptr + i) % Size

\* count() is the number of elements, the next write goes behind the last one,
\* and different elements have different slots.
LEMMA Layout ==
  ASSUME TypeOK, RingInv
  PROVE  /\ count \in 0 .. Size
         /\ empty <=> count = 0
         /\ write_ptr = Slot(count)
         /\ \A i \in 0 .. Size - 1 : Slot(i) \in Slots
         /\ \A i, j \in 0 .. Size - 1 : Slot(i) = Slot(j) => i = j
<1>1. /\ write_ptr \in 0 .. Size - 1 /\ read_ptr \in 0 .. Size - 1
      /\ empty => write_ptr = read_ptr
  BY DEF TypeOK, RingInv, Slots
<1>2. \A i \in 0 .. Size : Slot(i) = IF read_ptr + i < Size THEN read_ptr + i ELSE read_ptr + i - Size
  BY <1>1, WrapSum DEF Slot
<1>3. count \in 0 .. Size /\ (empty <=> count = 0)
  BY <1>1 DEF count
<1>4. write_ptr = Slot(count)
  BY <1>1, <1>2, <1>3 DEF count
<1>. QED BY <1>1, <1>2, <1>3, <1>4 DEF Slots

\* Contents is a sequence of count() elements.
LEMMA ContentsSeq ==
  ASSUME TypeOK, RingInv
  PROVE  /\ Contents \in Seq(Elem) /\ Len(Contents) = count
         /\ \A i \in 1 .. count : Contents[i] = buffer[Slot(i - 1)]
<1>1. count \in Nat
  BY Layout
<1>2. \A i \in 1 .. count : read_ptr + i - 1 = read_ptr + (i - 1)
  BY <1>1 DEF TypeOK, Slots
<1>3. \A i \in 1 .. count : Contents[i] = buffer[Slot(i - 1)]
  BY <1>2 DEF Contents, Slot
<1>4. \A i \in 1 .. count : Contents[i] \in Elem
  BY DEF RingInv
<1>5. Contents = [i \in 1 .. count |-> Contents[i]]
  BY DEF Contents
<1>. QED BY <1>1, <1>3, <1>4, <1>5
\* A slot is written by the last put() before it can be read: the ring after
\* put(e), element by element.
LEMMA PutLayout ==
  ASSUME TypeOK, RingInv, NEW e \in Elem, put(e)
  PROVE  /\ TypeOK' /\ ~empty'
         /\ count' = IF count = Size THEN Size ELSE count + 1
         /\ \A i \in 0 .. count' - 1 :
              buffer'[Slot(i)'] = IF i = count' - 1 THEN e
                                  ELSE IF count = Size THEN buffer[Slot(i + 1)] ELSE buffer[Slot(i)]
<1>1. /\ write_ptr \in 0 .. Size - 1 /\ read_ptr \in 0 .. Size - 1 /\ empty \in BOOLEAN
      /\ empty => write_ptr = read_ptr
      /\ buffer \in [Slots -> Elem \cup {NoElem}]
  BY DEF TypeOK, RingInv, Slots
<1>2. \A a \in 0 .. 2 * Size - 1 : a % Size = IF a < Size THEN a ELSE a - Size
  BY Wrap
<1>3. Succ(write_ptr) = IF write_ptr + 1 < Size THEN write_ptr + 1 ELSE 0
  BY <1>1 DEF Succ
<1>4. Succ(read_ptr) = IF read_ptr + 1 < Size THEN read_ptr + 1 ELSE 0
  BY <1>1 DEF Succ
<1>5. /\ write_ptr' = Succ(write_ptr) /\ ~empty'
      /\ read_ptr' = IF ~empty /\ write_ptr = read_ptr THEN Succ(read_ptr) ELSE read_ptr
      /\ buffer' = [buffer EXCEPT ![write_ptr] = e]
  BY DEF put
<1>6. write_ptr' \in 0 .. Size - 1 /\ read_ptr' \in 0 .. Size - 1
  BY <1>1, <1>3, <1>4, <1>5
<1>7. TypeOK'
  <2>1. buffer' \in [Slots -> Elem \cup {NoElem}]
    BY <1>1, <1>5
  <2>2. empty' \in BOOLEAN
    BY DEF put
  <2>. QED BY <1>6, <2>1, <2>2 DEF TypeOK, Slots
<1>8. count = Size <=> ~empty /\ write_ptr = read_ptr
  BY <1>1 DEF count
<1>9. count' = IF count = Size THEN Size ELSE count + 1
  BY <1>1, <1>3, <1>4, <1>5, <1>6 DEF count
<1>10. \A i \in 0 .. Size - 1 :
         /\ Slot(i) = IF read_ptr + i < Size THEN read_ptr + i ELSE read_ptr + i - Size
         /\ Slot(i)' = IF read_ptr' + i < Size THEN read_ptr' + i ELSE read_ptr' + i - Size
  <2>. SUFFICES ASSUME NEW i \in 0 .. Size - 1
                PROVE  /\ Slot(i) = IF read_ptr + i < Size THEN read_ptr + i ELSE read_ptr + i - Size
                       /\ Slot(i)' = IF read_ptr' + i < Size THEN read_ptr' + i ELSE read_ptr' + i - Size
    OBVIOUS
  <2>1. i \in 0 .. Size
    OBVIOUS
  <2>2. (read_ptr + i) % Size = IF read_ptr + i < Size THEN read_ptr + i ELSE read_ptr + i - Size
    BY <1>1, <2>1, WrapSum
  <2>3. (read_ptr' + i) % Size = IF read_ptr' + i < Size THEN read_ptr' + i ELSE read_ptr' + i - Size
    BY <1>6, <2>1, WrapSum
  <2>. QED BY <2>2, <2>3 DEF Slot
<1>11. count \in 0 .. Size /\ write_ptr = (IF count = Size THEN read_ptr ELSE Slot(count))
  <2>1. count \in 0 .. Size
    BY Layout
  <2>. QED BY <1>1, <1>8, <2>1, Layout
<1>12. ASSUME NEW i \in 0 .. count' - 1
       PROVE  buffer'[Slot(i)'] = IF i = count' - 1 THEN e
                                  ELSE IF count = Size THEN buffer[Slot(i + 1)] ELSE buffer[Slot(i)]
  <2>0. i \in 0 .. Size - 1
    <3>. DEFINE n == count'
    <3>1. n \in 0 .. Size /\ i \in 0 .. n - 1
      BY <1>9, <1>11
    <3>. HIDE DEF n
    <3>. QED BY <3>1
  <2>1. i \in 0 .. Size - 1 /\ Slot(i)' \in Slots
    <3>1. Slot(i)' = IF read_ptr' + i < Size THEN read_ptr' + i ELSE read_ptr' + i - Size
      BY <1>10, <2>0
    <3>. DEFINE r == read_ptr'
                s == Slot(i)'
    <3>2. r \in 0 .. Size - 1 /\ s = IF r + i < Size THEN r + i ELSE r + i - Size
      BY <1>6, <3>1
    <3>. HIDE DEF r, s
    <3>3. s \in 0 .. Size - 1
      BY <2>0, <3>2
    <3>. QED BY <2>0, <3>3 DEF s, Slots
  <2>2. buffer'[Slot(i)'] = IF Slot(i)' = write_ptr THEN e ELSE buffer[Slot(i)']
    BY <1>1, <1>5, <2>1
  <2>3. CASE i = count' - 1
    <3>1. Slot(i)' = write_ptr
      BY <1>1, <1>3, <1>4, <1>5, <1>8, <1>9, <1>10, <1>11, <2>1, <2>3
    <3>. QED BY <2>2, <2>3, <3>1
  <2>4. CASE i # count' - 1 /\ count = Size
    <3>1. i + 1 \in 0 .. Size - 1 /\ Slot(i)' = Slot(i + 1) /\ Slot(i)' # write_ptr
      BY <1>1, <1>4, <1>5, <1>8, <1>9, <1>10, <2>1, <2>4
    <3>. QED BY <2>2, <2>4, <3>1
  <2>5. CASE i # count' - 1 /\ count # Size
    <3>1. Slot(i)' = Slot(i) /\ Slot(i)' # write_ptr
      BY <1>1, <1>5, <1>8, <1>9, <1>10, <1>11, <2>1, <2>5
    <3>. QED BY <2>2, <2>5, <3>1
  <2>. QED BY <2>3, <2>4, <2>5
<1>. QED BY <1>5, <1>7, <1>9, <1>12

\* The ring after pop().
LEMMA PopLayout ==
  ASSUME TypeOK, RingInv, pop
  PROVE  /\ TypeOK' /\ (empty' => write_ptr' = read_ptr')
         /\ count > 0 /\ count' = count - 1
         /\ \A i \in 0 .. count' - 1 : buffer'[Slot(i)'] = buffer[Slot(i + 1)]
         /\ ret' = buffer[Slot(0)]
<1>1. /\ write_ptr \in 0 .. Size - 1 /\ read_ptr \in 0 .. Size - 1 /\ ~empty
      /\ buffer \in [Slots -> Elem \cup {NoElem}]
  BY DEF TypeOK, RingInv, Slots, pop
<1>2. Succ(read_ptr) = IF read_ptr + 1 < Size THEN read_ptr + 1 ELSE 0
  BY <1>1 DEF Succ
<1>3. /\ write_ptr' = write_ptr /\ buffer' = buffer /\ read_ptr' = Succ(read_ptr)
      /\ empty' <=> read_ptr' = write_ptr
      /\ ret' = buffer[read_ptr]
  BY DEF pop
<1>4. read_ptr' \in 0 .. Size - 1
  BY <1>1, <1>2, <1>3
<1>5. TypeOK'
  <2>1. empty' \in BOOLEAN
    BY DEF pop
  <2>. QED BY <1>1, <1>3, <1>4, <2>1 DEF TypeOK, Slots
<1>6. count > 0 /\ count' = count - 1
  BY <1>1, <1>2, <1>3, <1>4 DEF count
<1>7. count \in 0 .. Size
  BY Layout
<1>8. ASSUME NEW i \in 0 .. count' - 1
      PROVE  buffer'[Slot(i)'] = buffer[Slot(i + 1)]
  <2>1. i \in 0 .. Size - 2 /\ i + 1 \in 0 .. Size - 1
    BY <1>6, <1>7
  <2>2. /\ Slot(i)' = IF read_ptr' + i < Size THEN read_ptr' + i ELSE read_ptr' + i - Size
        /\ Slot(i + 1) = IF read_ptr + (i + 1) < Size THEN read_ptr + (i + 1)
                         ELSE read_ptr + (i + 1) - Size
    <3>0. i \in 0 .. Size /\ i + 1 \in 0 .. Size
      BY <2>1
    <3>1. (read_ptr' + i) % Size = IF read_ptr' + i < Size THEN read_ptr' + i ELSE read_ptr' + i - Size
      BY <1>4, <3>0, WrapSum
    <3>2. (read_ptr + (i + 1)) % Size = IF read_ptr + (i + 1) < Size THEN read_ptr + (i + 1)
                                        ELSE read_ptr + (i + 1) - Size
      <4>. DEFINE k == i + 1
      <4>1. k \in 0 .. Size
        BY <3>0
      <4>. HIDE DEF k
      <4>2. (read_ptr + k) % Size = IF read_ptr + k < Size THEN read_ptr + k ELSE read_ptr + k - Size
        BY <1>1, <4>1, WrapSum
      <4>. QED BY <4>2 DEF k
    <3>. QED BY <3>1, <3>2 DEF Slot
  <2>3. Slot(i)' = Slot(i + 1)
    BY <1>1, <1>2, <1>3, <2>1, <2>2
  <2>. QED BY <1>3, <2>3
<1>9. Slot(0) = read_ptr
  BY <1>1 DEF Slot
<1>. QED BY <1>3, <1>5, <1>6, <1>8, <1>9

----------------------------------------------------------------------------
LEMMA InitInv == Init => TypeOK /\ RingInv
<1>. SUFFICES ASSUME Init
              PROVE  TypeOK /\ RingInv
  OBVIOUS
<1>1. TypeOK
  BY DEF Init, TypeOK, Slots
<1>2. count = 0
  BY DEF Init, count
<1>. QED BY <1>1, <1>2 DEF Init, RingInv

\* What RingInv says of the elements, slot by slot.
LEMMA LiveSlots ==
  ASSUME TypeOK, RingInv
  PROVE  \A i \in 0 .. count - 1 : buffer[Slot(i)] \in Elem
<1>1. count \in 0 .. Size
  BY Layout
<1>. SUFFICES ASSUME NEW i \in 0 .. count - 1
              PROVE  buffer[Slot(i)] \in Elem
  OBVIOUS
<1>2. i + 1 \in 1 .. count /\ (i + 1) - 1 = i
  BY <1>1
<1>3. Contents[i + 1] = buffer[Slot((i + 1) - 1)]
  BY <1>2, ContentsSeq
<1>. QED BY <1>2, <1>3 DEF RingInv

\* RingInv after a step, from its slot-wise parts.
LEMMA FromSlots ==
  ASSUME TypeOK', count' \in Nat, empty' => write_ptr' = read_ptr',
         \A i \in 0 .. count' - 1 : buffer'[Slot(i)'] \in Elem
  PROVE  RingInv'
<1>. SUFFICES ASSUME NEW i \in 1 .. count'
              PROVE  Contents'[i] \in Elem
  BY DEF RingInv
<1>0. read_ptr' \in Int /\ i \in Int /\ i - 1 \in 0 .. count' - 1
  <2>1. read_ptr' \in Int
    BY DEF TypeOK, Slots
  <2>2. i \in Int /\ i - 1 \in 0 .. count' - 1
    <3>. DEFINE n == count'
    <3>1. n \in Nat /\ i \in 1 .. n
      OBVIOUS
    <3>. HIDE DEF n
    <3>2. i \in Int /\ i - 1 \in 0 .. n - 1
      BY <3>1
    <3>. QED BY <3>2 DEF n
  <2>. QED BY <2>1, <2>2
<1>1. read_ptr' + i - 1 = read_ptr' + (i - 1)
  BY <1>0
<1>2. Contents'[i] = buffer'[Slot(i - 1)']
  <2>1. Contents'[i] = buffer'[(read_ptr' + i - 1) % Size]
    BY DEF Contents
  <2>2. Slot(i - 1)' = (read_ptr' + (i - 1)) % Size
    BY DEF Slot
  <2>. QED BY <1>1, <2>1, <2>2
<1>. QED BY <1>0, <1>2

LEMMA StepInv == TypeOK /\ RingInv /\ [Next]_vars => TypeOK' /\ RingInv'
<1>. SUFFICES ASSUME TypeOK, RingInv, [Next]_vars
              PROVE  TypeOK' /\ RingInv'
  OBVIOUS
<1>0. count \in 0 .. Size
  BY Layout
<1>1. ASSUME NEW e \in Elem, put(e)
      PROVE  TypeOK' /\ RingInv'
  <2>1. TypeOK' /\ ~empty' /\ count' \in 1 .. Size
    BY <1>0, <1>1, PutLayout
  <2>2. \A i \in 0 .. count' - 1 : buffer'[Slot(i)'] \in Elem
    <3>. SUFFICES ASSUME NEW i \in 0 .. count' - 1
                  PROVE  buffer'[Slot(i)'] \in Elem
      OBVIOUS
    <3>1. count' = (IF count = Size THEN Size ELSE count + 1)
      BY <1>1, PutLayout
    <3>2. buffer'[Slot(i)'] = IF i = count' - 1 THEN e
                              ELSE IF count = Size THEN buffer[Slot(i + 1)] ELSE buffer[Slot(i)]
      BY <1>1, PutLayout
    <3>3. CASE i = count' - 1
      BY <3>2, <3>3
    <3>4. CASE i # count' - 1 /\ count = Size
      <4>1. i + 1 \in 0 .. count - 1
        BY <1>0, <3>1, <3>4
      <4>. QED BY <3>2, <3>4, <4>1, LiveSlots
    <3>5. CASE i # count' - 1 /\ count # Size
      <4>1. i \in 0 .. count - 1
        BY <1>0, <3>1, <3>5
      <4>. QED BY <3>2, <3>5, <4>1, LiveSlots
    <3>. QED BY <3>3, <3>4, <3>5
  <2>3. count' \in Nat /\ (empty' => write_ptr' = read_ptr')
    BY <2>1
  <2>. QED BY <2>1, <2>2, <2>3, FromSlots
<1>2. ASSUME pop
      PROVE  TypeOK' /\ RingInv'
  <2>1. TypeOK' /\ (empty' => write_ptr' = read_ptr') /\ count' = count - 1 /\ count > 0
    BY <1>2, PopLayout
  <2>2. \A i \in 0 .. count' - 1 : buffer'[Slot(i)'] \in Elem
    <3>. SUFFICES ASSUME NEW i \in 0 .. count' - 1
                  PROVE  buffer'[Slot(i)'] \in Elem
      OBVIOUS
    <3>1. i + 1 \in 0 .. count - 1
      BY <1>0, <2>1
    <3>2. buffer'[Slot(i)'] = buffer[Slot(i + 1)]
      BY <1>2, PopLayout
    <3>. QED BY <3>1, <3>2, LiveSlots
  <2>3. count' \in Nat
    BY <1>0, <2>1
  <2>. QED BY <2>1, <2>2, <2>3, FromSlots
<1>3. ASSUME UNCHANGED <<buffer, write_ptr, read_ptr, empty>>
      PROVE  TypeOK' /\ RingInv'
  <2>1. count' = count
    BY <1>3 DEF count
  <2>2. Contents' = Contents
    BY <1>3, <2>1 DEF Contents
  <2>. QED BY <1>3, <2>1, <2>2 DEF TypeOK, RingInv
<1>. QED BY <1>1, <1>2, <1>3 DEF Next, vars, popEmpty, get, getFirst, last, getCount

\* The pointers of the ring stay inside the array, and pop() and get() only ever
\* read slots a put() has written, for every capacity.
THEOREM RingCorrect == Spec => [](TypeOK /\ RingInv)
  BY InitInv, StepInv, PTL DEF Spec

----------------------------------------------------------------------------
\* ContentsSeq after a step.
LEMMA ContentsSeqNext ==
  ASSUME TypeOK', RingInv', count' \in Nat
  PROVE  /\ Contents' \in Seq(Elem) /\ Len(Contents') = count'
         /\ \A i \in 1 .. count' : Contents'[i] = buffer'[Slot(i - 1)']
<1>1. read_ptr' \in Int
  BY DEF TypeOK, Slots
<1>2. ASSUME NEW i \in 1 .. count'
      PROVE  Contents'[i] = buffer'[Slot(i - 1)']
  <2>1. i \in Int
    OBVIOUS
  <2>2. read_ptr' + i - 1 = read_ptr' + (i - 1)
    BY <1>1, <2>1
  <2>3. Contents'[i] = buffer'[(read_ptr' + i - 1) % Size]
    BY DEF Contents
  <2>4. Slot(i - 1)' = (read_ptr' + (i - 1)) % Size
    BY DEF Slot
  <2>. QED BY <2>2, <2>3, <2>4
<1>3. \A i \in 1 .. count' : Contents'[i] \in Elem
  BY DEF RingInv
<1>4. Contents' = [i \in 1 .. count' |-> Contents'[i]]
  BY DEF Contents
<1>. QED BY <1>2, <1>3, <1>4

\* The queue before and after put(e) and pop(), as sequences.
LEMMA PutQueue ==
  ASSUME TypeOK, RingInv, TypeOK', RingInv', NEW e \in Elem, put(e)
  PROVE  Contents' = Append(IF Len(Contents) = Size THEN Tail(Contents) ELSE Contents, e)
<1>. DEFINE q == Contents
            r == Contents'
            kept == IF Len(q) = Size THEN Tail(q) ELSE q
<1>1. /\ q \in Seq(Elem) /\ Len(q) = count /\ count \in 0 .. Size
      /\ \A i \in 1 .. count : q[i] = buffer[Slot(i - 1)]
  BY ContentsSeq, Layout
<1>2. count' = IF count = Size THEN Size ELSE count + 1
  BY PutLayout
<1>3. /\ r \in Seq(Elem) /\ Len(r) = count'
      /\ \A i \in 1 .. count' : r[i] = buffer'[Slot(i - 1)']
  BY <1>1, <1>2, ContentsSeqNext
<1>4. ASSUME NEW i \in 1 .. count'
      PROVE  r[i] = IF i = count' THEN e ELSE IF count = Size THEN q[i + 1] ELSE q[i]
  <2>0. count' \in Nat /\ i - 1 \in 0 .. count' - 1 /\ (i - 1) + 1 = i /\ (i = count' <=> i - 1 = count' - 1)
    BY <1>1, <1>2
  <2>1. buffer'[Slot(i - 1)'] = IF i - 1 = count' - 1 THEN e
                                ELSE IF count = Size THEN buffer[Slot((i - 1) + 1)] ELSE buffer[Slot(i - 1)]
    BY <2>0, PutLayout
  <2>2. CASE i = count'
    BY <1>3, <2>0, <2>1, <2>2
  <2>3. CASE i # count' /\ count = Size
    <3>1. i + 1 \in 1 .. count /\ (i + 1) - 1 = (i - 1) + 1
      BY <1>1, <1>2, <2>0, <2>3
    <3>2. q[i + 1] = buffer[Slot((i - 1) + 1)]
      BY <1>1, <3>1
    <3>. QED BY <1>3, <2>0, <2>1, <2>3, <3>2
  <2>4. CASE i # count' /\ count # Size
    <3>1. i \in 1 .. count
      BY <1>1, <1>2, <2>0, <2>4
    <3>. QED BY <1>1, <1>3, <2>0, <2>1, <2>4, <3>1
  <2>. QED BY <2>2, <2>3, <2>4
<1>. HIDE DEF q, r
<1>5. kept \in Seq(Elem) /\ Len(kept) = count' - 1
  <2>1. CASE count = Size
    BY <1>1, <1>2, <2>1
  <2>2. CASE count # Size
    BY <1>1, <1>2, <2>2
  <2>. QED BY <2>1, <2>2
<1>6. \A i \in 1 .. count' - 1 : kept[i] = IF count = Size THEN q[i + 1] ELSE q[i]
  <2>1. CASE count = Size
    BY <1>1, <1>2, <2>1
  <2>2. CASE count # Size
    BY <1>1, <1>2, <2>2
  <2>. QED BY <2>1, <2>2
<1>. HIDE DEF kept
<1>7. count' \in Nat \ {0}
  BY <1>1, <1>2
<1>8. /\ Append(kept, e) \in Seq(Elem) /\ Len(Append(kept, e)) = count'
      /\ \A i \in 1 .. count' : Append(kept, e)[i] = IF i = count' THEN e ELSE kept[i]
  BY <1>5, <1>7
<1>9. ASSUME NEW i \in 1 .. count'
      PROVE  r[i] = Append(kept, e)[i]
  <2>1. CASE i = count'
    BY <1>4, <1>8, <2>1
  <2>2. CASE i # count'
    <3>1. i \in 1 .. count' - 1
      <4>. DEFINE n == count'
      <4>1. n \in Nat \ {0} /\ i \in 1 .. n /\ i # n
        BY <1>7, <2>2
      <4>. HIDE DEF n
      <4>2. i \in 1 .. n - 1
        BY <4>1
      <4>. QED BY <4>2 DEF n
    <3>2. kept[i] = IF count = Size THEN q[i + 1] ELSE q[i]
      BY <1>6, <3>1
    <3>. QED BY <1>4, <1>8, <2>2, <3>2
  <2>. QED BY <2>1, <2>2
<1>10. r = Append(kept, e)
  BY <1>3, <1>8, <1>9
<1>. QED BY <1>10 DEF q, r, kept

LEMMA PopQueue ==
  ASSUME TypeOK, RingInv, TypeOK', RingInv', pop
  PROVE  /\ Contents # << >> /\ Contents' = Tail(Contents)
         /\ ret' = Head(Contents)
<1>. DEFINE q == Contents
            r == Contents'
<1>1. /\ q \in Seq(Elem) /\ Len(q) = count /\ count \in 0 .. Size
      /\ \A i \in 1 .. count : q[i] = buffer[Slot(i - 1)]
  BY ContentsSeq, Layout
<1>2. count > 0 /\ count' = count - 1 /\ ret' = buffer[Slot(0)]
  BY PopLayout
<1>3. /\ r \in Seq(Elem) /\ Len(r) = count'
      /\ \A i \in 1 .. count' : r[i] = buffer'[Slot(i - 1)']
  BY <1>1, <1>2, ContentsSeqNext
<1>4. ASSUME NEW i \in 1 .. count'
      PROVE  r[i] = q[i + 1]
  <2>0. /\ count' \in Nat /\ i - 1 \in 0 .. count' - 1 /\ (i + 1) - 1 = (i - 1) + 1
        /\ i + 1 \in 1 .. count
    BY <1>1, <1>2
  <2>1. buffer'[Slot(i - 1)'] = buffer[Slot((i - 1) + 1)]
    BY <2>0, PopLayout
  <2>2. q[i + 1] = buffer[Slot((i - 1) + 1)]
    BY <1>1, <2>0
  <2>. QED BY <1>3, <2>1, <2>2
<1>5. q[1] = buffer[Slot(0)]
  BY <1>1, <1>2
<1>. HIDE DEF q, r
<1>6. /\ Tail(q) \in Seq(Elem) /\ Len(Tail(q)) = count'
      /\ \A i \in 1 .. count' : Tail(q)[i] = q[i + 1]
  BY <1>1, <1>2
<1>7. r = Tail(q)
  BY <1>3, <1>4, <1>6
<1>8. q # << >> /\ Head(q) = q[1]
  BY <1>1, <1>2
<1>. QED BY <1>2, <1>5, <1>7, <1>8 DEF q, r

\* Every call of the ring is the same call of the queue, with the same result.
LEMMA StepRefines ==
  TypeOK /\ RingInv /\ TypeOK' /\ RingInv' /\ [Next]_vars => [Fifo!Next]_(Fifo!fifoVars)
<1>. SUFFICES ASSUME TypeOK, RingInv, TypeOK', RingInv', [Next]_vars
              PROVE  [Fifo!Next]_(Fifo!fifoVars)
  OBVIOUS
<1>0. /\ Contents \in Seq(Elem) /\ Len(Contents) = count /\ count \in 0 .. Size
      /\ \A i \in 1 .. count : Contents[i] = buffer[Slot(i - 1)]
      /\ empty <=> count = 0
  BY ContentsSeq, Layout
<1>1. ASSUME NEW e \in Elem, put(e)
      PROVE  Fifo!Put(e)
  BY <1>1, PutQueue DEF Fifo!Put, put
<1>2. ASSUME pop
      PROVE  Fifo!Pop
  BY <1>2, PopQueue DEF Fifo!Pop
<1>3. ASSUME UNCHANGED <<buffer, write_ptr, read_ptr, empty>>
      PROVE  Contents' = Contents
  <2>1. count' = count
    BY <1>3 DEF count
  <2>. QED BY <1>3, <2>1 DEF Contents
<1>4. ASSUME popEmpty
      PROVE  Fifo!PopEmpty
  <2>1. Contents' = Contents
    BY <1>3, <1>4 DEF popEmpty
  <2>2. Contents = << >>
    BY <1>0, <1>4 DEF popEmpty
  <2>. QED BY <1>4, <2>1, <2>2 DEF popEmpty, Fifo!PopEmpty
<1>5. \A i \in Nat : At(i) = IF i < Len(Contents) THEN Contents[i + 1] ELSE RangeError
  <2>. SUFFICES ASSUME NEW i \in Nat
                PROVE  At(i) = IF i < Len(Contents) THEN Contents[i + 1] ELSE RangeError
    OBVIOUS
  <2>1. CASE i < count
    <3>1. i + 1 \in 1 .. count /\ (i + 1) - 1 = i
      BY <1>0, <2>1
    <3>2. Contents[i + 1] = buffer[Slot(i)]
      BY <1>0, <3>1
    <3>. QED BY <1>0, <2>1, <3>2 DEF At, Slot
  <2>2. CASE ~ (i < count)
    BY <1>0, <2>2 DEF At
  <2>. QED BY <2>1, <2>2
<1>6. ASSUME NEW i \in Index, get(i)
      PROVE  Fifo!Get(i)
  <2>1. Contents' = Contents
    BY <1>3, <1>6 DEF get
  <2>2. i \in Nat
    OBVIOUS
  <2>. QED BY <1>5, <1>6, <2>1, <2>2 DEF get, Fifo!Get
<1>7. ASSUME last
      PROVE  Fifo!Last
  <2>. DEFINE n == (count - 1) % UIntRange
  <2>1. Contents' = Contents /\ ret' = At(n)
    BY <1>3, <1>7 DEF last
  <2>2. CASE count = 0
    <3>1. n = UIntRange - 1
      BY <2>2
    <3>2. n \in Nat /\ ~ (n < Len(Contents))
      BY <1>0, <2>2, <3>1
    <3>3. At(n) = RangeError
      BY <1>5, <3>2
    <3>4. Contents = << >>
      BY <1>0, <2>2
    <3>. QED BY <2>1, <3>3, <3>4 DEF Fifo!Last
  <2>3. CASE count # 0
    <3>1. n = count - 1
      BY <1>0, <2>3
    <3>2. n \in Nat /\ n < Len(Contents) /\ n + 1 = Len(Contents) /\ Contents # << >>
      BY <1>0, <2>3, <3>1
    <3>3. At(n) = Contents[Len(Contents)]
      BY <1>5, <3>2
    <3>. QED BY <2>1, <3>2, <3>3 DEF Fifo!Last
  <2>. QED BY <2>2, <2>3
<1>8. ASSUME getCount
      PROVE  Fifo!Count
  BY <1>0, <1>3, <1>8 DEF getCount, Fifo!Count
<1>9. ASSUME getFirst
      PROVE  Fifo!First
  <2>1. Contents' = Contents
    BY <1>3, <1>9 DEF getFirst
  <2>2. CASE empty
    BY <1>0, <1>9, <2>1, <2>2 DEF getFirst, Fifo!First
  <2>3. CASE ~empty
    <3>0. read_ptr \in 0 .. Size - 1 /\ 0 < count
      BY <1>0, <2>3 DEF TypeOK, Slots
    <3>1. 0 \in Nat /\ 0 < count /\ (read_ptr + 0) % Size = read_ptr
      <4>. DEFINE r == read_ptr
      <4>1. r \in 0 .. Size - 1
        BY <3>0
      <4>. HIDE DEF r
      <4>2. r + 0 = r /\ r % Size = r
        BY <4>1
      <4>3. (read_ptr + 0) % Size = read_ptr
        BY <4>2 DEF r
      <4>. QED BY <3>0, <4>3
    <3>2. At(0) = buffer[read_ptr]
      BY <3>1 DEF At
    <3>3. At(0) = Contents[0 + 1]
      BY <1>0, <1>5, <3>1
    <3>4. Contents # << >> /\ Head(Contents) = Contents[1]
      BY <1>0, <3>1
    <3>. QED BY <1>9, <2>1, <2>3, <3>2, <3>3, <3>4 DEF getFirst, Fifo!First
  <2>. QED BY <2>2, <2>3 DEF TypeOK
<1>10. CASE UNCHANGED vars
  BY <1>3, <1>10 DEF vars, Fifo!fifoVars
<1>. QED BY <1>1, <1>2, <1>4, <1>6, <1>7, <1>8, <1>9, <1>10 DEF Next, Fifo!Next

LEMMA InitRefines == Init => Fifo!Init
<1>. SUFFICES ASSUME Init
              PROVE  Fifo!Init
  OBVIOUS
<1>1. TypeOK /\ RingInv
  BY InitInv
<1>2. count = 0
  BY DEF Init, count
<1>3. Contents = << >>
  BY <1>1, <1>2, ContentsSeq
<1>. QED BY <1>3 DEF Init, Fifo!Init

\* For every capacity and every sequence of calls the ring is indistinguishable
\* from a FIFO queue that discards its oldest element when a put finds it full.
THEOREM FifoImplemented == Spec => ImplementsFifo
<1>1. Spec => [](TypeOK /\ RingInv)
  BY RingCorrect
<1>2. TypeOK /\ RingInv /\ (TypeOK /\ RingInv)' /\ [Next]_vars => [Fifo!Next]_(Fifo!fifoVars)
  BY StepRefines
<1>. QED BY <1>1, <1>2, InitRefines, PTL DEF Spec, ImplementsFifo, Fifo!Spec
=============================================================================
