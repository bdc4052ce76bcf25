------------------------- MODULE DelayedEventsProofs -------------------------
(***************************************************************************)
(* Proofs about DelayedEvents, for every set of delays and every bound: the *)
(* broker posts delayed events in the order of their deadlines and never    *)
(* before, each event is scheduled, in hand, posted or cancelled exactly    *)
(* once, and run() does not sleep past a deadline.                          *)
(***************************************************************************)
EXTENDS DelayedEvents, TLAPS, WellFoundedInduction, FiniteSetTheorems

USE DelaysAssumption, BoundsAssumption

\* A set of numbers that is not empty has a least element, and Min is that one.
LEMMA LeastNumber ==
  ASSUME NEW T \in SUBSET Nat, T # {}
  PROVE  Min(T) \in T /\ \A y \in T : Min(T) <= y
<1>. DEFINE R == OpToRel(<, Nat)
<1>1. IsWellFoundedOn(R, Nat)
  BY NatLessThanWellFounded
<1>2. \A x, y \in Nat : <<x, y>> \in R <=> x < y
  BY DEF OpToRel
<1>. HIDE DEF R
<1>3. PICK x \in T : \A y \in T : ~ (<<y, x>> \in R)
  BY <1>1, WFMin
<1>4. x \in Nat /\ \A y \in T : y \in Nat /\ ~ (y < x)
  BY <1>2, <1>3
<1>5. \A y \in T : x <= y
  BY <1>4
<1>. QED BY <1>5 DEF Min

\* r is s with e put in at position k.
Inserted(r, s, k, e) == /\ k \in 1 .. Len(s) + 1
                        /\ Len(r) = Len(s) + 1
                        /\ \A i \in 1 .. k - 1 : r[i] = s[i]
                        /\ r[k] = e
                        /\ \A i \in k + 1 .. Len(s) + 1 : r[i] = s[i - 1]

\* r is s without the element at position k.
Removed(r, s, k) == /\ k \in 1 .. Len(s)
                    /\ Len(r) = Len(s) - 1
                    /\ \A i \in 1 .. k - 1 : r[i] = s[i]
                    /\ \A i \in k .. Len(s) - 1 : r[i] = s[i + 1]

\* The concatenation of two sequences, position by position.
LEMMA Concat ==
  ASSUME NEW S, NEW s \in Seq(S), NEW t \in Seq(S)
  PROVE  /\ s \o t \in Seq(S)
         /\ Len(s) \in Nat /\ Len(t) \in Nat /\ Len(s \o t) = Len(s) + Len(t)
         /\ \A i \in 1 .. Len(s) : (s \o t)[i] = s[i]
         /\ \A i \in 1 .. Len(t) : (s \o t)[Len(s) + i] = t[i]
OBVIOUS

LEMMA InsertAtPlace ==
  ASSUME NEW S, NEW s \in Seq(S), NEW e \in S, NEW k \in 1 .. Len(s) + 1
  PROVE  InsertAt(s, k, e) \in Seq(S) /\ Inserted(InsertAt(s, k, e), s, k, e)
<1>. DEFINE a == SubSeq(s, 1, k - 1)
            b == SubSeq(s, k, Len(s))
<1>1. Len(s) \in Nat /\ k \in Nat
  OBVIOUS
<1>2. a \in Seq(S) /\ Len(a) = k - 1 /\ \A i \in 1 .. k - 1 : a[i] = s[i]
  BY <1>1
<1>3. b \in Seq(S) /\ Len(b) = Len(s) - k + 1 /\ \A i \in 1 .. Len(s) - k + 1 : b[i] = s[k + i - 1]
  BY <1>1
<1>. HIDE DEF a, b
<1>. DEFINE c == a \o <<e>>
            r == c \o b
<1>4. /\ c \in Seq(S) /\ Len(c) = k
      /\ \A i \in 1 .. k - 1 : c[i] = s[i]
      /\ c[k] = e
  BY <1>1, <1>2
<1>. HIDE DEF c
<1>5. /\ r \in Seq(S) /\ Len(r) = Len(s) + 1
      /\ \A i \in 1 .. k : r[i] = c[i]
      /\ \A i \in 1 .. Len(b) : r[k + i] = b[i]
  BY <1>1, <1>3, <1>4, Concat
<1>6. (\A i \in 1 .. k - 1 : r[i] = s[i]) /\ r[k] = e
  BY <1>1, <1>4, <1>5
<1>7. \A i \in k + 1 .. Len(s) + 1 : r[i] = s[i - 1]
  <2>1. TAKE i \in k + 1 .. Len(s) + 1
  <2>2. i - k \in 1 .. Len(s) - k + 1 /\ k + (i - k) - 1 = i - 1 /\ k + (i - k) = i
    BY <1>1
  <2>3. r[i] = b[i - k]
    BY <1>3, <1>5, <2>2
  <2>. QED BY <1>3, <2>2, <2>3
<1>. HIDE DEF r
<1>8. InsertAt(s, k, e) = r
  BY DEF InsertAt, a, b, c, r
<1>. QED BY <1>5, <1>6, <1>7, <1>8 DEF Inserted

LEMMA RemoveAtPlace ==
  ASSUME NEW S, NEW s \in Seq(S), NEW k \in 1 .. Len(s)
  PROVE  RemoveAt(s, k) \in Seq(S) /\ Removed(RemoveAt(s, k), s, k)
<1>. DEFINE a == SubSeq(s, 1, k - 1)
            b == SubSeq(s, k + 1, Len(s))
<1>1. Len(s) \in Nat /\ k \in Nat
  OBVIOUS
<1>2. a \in Seq(S) /\ Len(a) = k - 1 /\ \A i \in 1 .. k - 1 : a[i] = s[i]
  BY <1>1
<1>3. b \in Seq(S) /\ Len(b) = Len(s) - k /\ \A i \in 1 .. Len(s) - k : b[i] = s[k + i]
  BY <1>1
<1>. HIDE DEF a, b
<1>. DEFINE r == a \o b
<1>4. /\ r \in Seq(S) /\ Len(r) = Len(s) - 1
      /\ \A i \in 1 .. k - 1 : r[i] = a[i]
      /\ \A i \in 1 .. Len(b) : r[k - 1 + i] = b[i]
  <2>1. a \in Seq(S) /\ b \in Seq(S)
    BY <1>2, <1>3
  <2>2. /\ r \in Seq(S) /\ Len(r) = Len(a) + Len(b)
        /\ \A i \in 1 .. Len(a) : r[i] = a[i]
        /\ \A i \in 1 .. Len(b) : r[Len(a) + i] = b[i]
    <3>1. r \in Seq(S)
      BY <2>1, Concat
    <3>2. Len(r) = Len(a) + Len(b)
      BY <2>1, Concat
    <3>3. \A i \in 1 .. Len(a) : r[i] = a[i]
      BY <2>1, Concat
    <3>4. \A i \in 1 .. Len(b) : r[Len(a) + i] = b[i]
      BY <2>1, Concat
    <3>. QED BY <3>1, <3>2, <3>3, <3>4
  <2>. HIDE DEF r
  <2>. QED BY <1>1, <1>2, <1>3, <2>2
<1>5. \A i \in 1 .. k - 1 : r[i] = s[i]
  BY <1>2, <1>4
<1>6. \A i \in k .. Len(s) - 1 : r[i] = s[i + 1]
  <2>1. TAKE i \in k .. Len(s) - 1
  <2>2. i - k + 1 \in 1 .. Len(s) - k /\ k + (i - k + 1) = i + 1 /\ k - 1 + (i - k + 1) = i
    BY <1>1
  <2>3. r[i] = b[i - k + 1]
    BY <1>3, <1>4, <2>2
  <2>. QED BY <1>3, <2>2, <2>3
<1>. HIDE DEF r
<1>7. RemoveAt(s, k) = r
  BY DEF RemoveAt, a, b, r
<1>. QED BY <1>4, <1>5, <1>6, <1>7 DEF Removed

----------------------------------------------------------------------------
\* The order in which events have to leave.
Earlier(d, e) == d.deadline < e.deadline \/ (d.deadline = e.deadline /\ d.ev < e.ev)

Sorted(s) == \A i, j \in 1 .. Len(s) : i < j => Earlier(s[i], s[j])

\* The events of a schedule, and that none of them is in it twice.
Evs(s) == {s[i].ev : i \in 1 .. Len(s)}
Distinct(s) == \A i, j \in 1 .. Len(s) : s[i].ev = s[j].ev => i = j

\* The events that have left the schedule for the subscribers.
Out == {dispatched[i].event : i \in 1 .. Len(dispatched)} \cup {dev[i] : i \in 1 .. Len(dev)}

\* run() holds an event exactly while it posts it.
Handed == (thread = "posting") <=> (dev # << >>)

\* What has left was due, was scheduled, and goes before all that is scheduled.
Past == \A d \in Out : d.deadline <= now /\ d.ev <= posted
Ahead == \A d \in Out : \A i \in 1 .. Len(delayed_events) : Earlier(d, delayed_events[i])
HandLast == \A i \in 1 .. Len(dispatched), j \in 1 .. Len(dev) : Earlier(dispatched[i].event, dev[j])

\* Who has an event: the schedule, run(), the subscribers, or those who cancelled.
Sched == Evs(delayed_events)
Hand == Evs(dev)
Gone == {dispatched[i].event.ev : i \in 1 .. Len(dispatched)}

Partition == /\ 1 .. posted = Sched \cup Hand \cup Gone \cup cancelled
             /\ Sched \cap Hand = {} /\ Sched \cap Gone = {} /\ Sched \cap cancelled = {}
             /\ Hand \cap Gone = {} /\ Hand \cap cancelled = {} /\ Gone \cap cancelled = {}

GoneOnce == \A i, j \in 1 .. Len(dispatched) : dispatched[i].event.ev = dispatched[j].event.ev => i = j

Order == Sorted(delayed_events) /\ Handed /\ Past /\ Ahead /\ HandLast /\ InDeadlineOrder /\ NotEarly
Ledger == Partition /\ Distinct(delayed_events) /\ GoneOnce

DelayedInv == TypeOK /\ notifies <= posted /\ Order /\ Ledger

----------------------------------------------------------------------------
\* Where the elements of r come from, and where those of s go.
LEMMA InsertedMap ==
  ASSUME NEW s, Len(s) \in Nat, NEW r, NEW k, NEW e, Inserted(r, s, k, e)
  PROVE  /\ \A i \in 1 .. Len(r) : IF i = k THEN r[i] = e
                                   ELSE LET j == IF i < k THEN i ELSE i - 1
                                        IN  j \in 1 .. Len(s) /\ r[i] = s[j]
         /\ \A j \in 1 .. Len(s) : LET i == IF j < k THEN j ELSE j + 1
                                   IN  i \in 1 .. Len(r) /\ r[i] = s[j]
         /\ k \in 1 .. Len(r) /\ Len(r) \in Nat
BY DEF Inserted

LEMMA RemovedMap ==
  ASSUME NEW s, Len(s) \in Nat, NEW r, NEW k, Removed(r, s, k)
  PROVE  /\ \A i \in 1 .. Len(r) : LET j == IF i < k THEN i ELSE i + 1
                                   IN  j \in 1 .. Len(s) /\ j # k /\ r[i] = s[j]
         /\ \A j \in 1 .. Len(s) : j # k =>
              LET i == IF j < k THEN j ELSE j - 1
              IN  i \in 1 .. Len(r) /\ r[i] = s[j]
         /\ k \in 1 .. Len(s) /\ Len(r) \in Nat
BY DEF Removed

LEMMA RemovedKeeps ==
  ASSUME NEW s, Len(s) \in Nat, NEW r, NEW k, Removed(r, s, k)
  PROVE  \A i \in 1 .. Len(r) : \E j \in 1 .. Len(s) : r[i] = s[j]
<1>. SUFFICES ASSUME NEW i \in 1 .. Len(r) PROVE \E j \in 1 .. Len(s) : r[i] = s[j]
  OBVIOUS
<1>1. PICK j \in 1 .. Len(s) : r[i] = s[j]
  BY RemovedMap
<1>. QED BY <1>1

LEMMA InsertedEvs ==
  ASSUME NEW s, Len(s) \in Nat, NEW r, NEW k, NEW e, Inserted(r, s, k, e)
  PROVE  Evs(r) = Evs(s) \cup {e.ev}
<1>1. \A x \in Evs(r) : x \in Evs(s) \cup {e.ev}
  <2>1. TAKE x \in Evs(r)
  <2>2. PICK i \in 1 .. Len(r) : x = r[i].ev
    BY DEF Evs
  <2>3. r[i] = e \/ \E j \in 1 .. Len(s) : r[i] = s[j]
    BY InsertedMap
  <2>. QED BY <2>2, <2>3 DEF Evs
<1>2. \A x \in Evs(s) : x \in Evs(r)
  BY InsertedMap DEF Evs
<1>3. e.ev \in Evs(r)
  BY InsertedMap DEF Evs
<1>. QED BY <1>1, <1>2, <1>3

LEMMA InsertedDistinct ==
  ASSUME NEW s, Len(s) \in Nat, NEW r, NEW k, NEW e, Inserted(r, s, k, e),
         Distinct(s), e.ev \notin Evs(s)
  PROVE  Distinct(r)
<1>1. SUFFICES ASSUME NEW i \in 1 .. Len(r), NEW j \in 1 .. Len(r), r[i].ev = r[j].ev
               PROVE  i = j
  BY DEF Distinct
<1>2. \A n \in 1 .. Len(s) : s[n].ev # e.ev
  BY DEF Evs
<1>3. \A n \in 1 .. Len(r) : n = k <=> r[n].ev = e.ev
  <2>1. TAKE n \in 1 .. Len(r)
  <2>2. n = k => r[n] = e
    BY InsertedMap
  <2>3. n # k => \E m \in 1 .. Len(s) : r[n] = s[m]
    BY InsertedMap
  <2>. QED BY <1>2, <2>2, <2>3
<1>4. CASE i = k \/ j = k
  BY <1>1, <1>3, <1>4
<1>5. CASE i # k /\ j # k
  <2>. DEFINE m == IF i < k THEN i ELSE i - 1
              n == IF j < k THEN j ELSE j - 1
  <2>1. m \in 1 .. Len(s) /\ n \in 1 .. Len(s) /\ r[i] = s[m] /\ r[j] = s[n]
    BY <1>5, InsertedMap
  <2>2. m = n
    BY <1>1, <2>1 DEF Distinct
  <2>3. k \in Int
    BY DEF Inserted
  <2>. QED BY <1>5, <2>2, <2>3, InsertedMap
<1>. QED BY <1>4, <1>5

LEMMA InsertedSorted ==
  ASSUME NEW s, Len(s) \in Nat, NEW r, NEW k, NEW e, Inserted(r, s, k, e), Sorted(s),
         \A i \in 1 .. k - 1 : Earlier(s[i], e),
         \A i \in k .. Len(s) : Earlier(e, s[i])
  PROVE  Sorted(r)
<1>1. SUFFICES ASSUME NEW i \in 1 .. Len(r), NEW j \in 1 .. Len(r), i < j
               PROVE  Earlier(r[i], r[j])
  BY DEF Sorted
<1>2. k \in 1 .. Len(s) + 1 /\ r[k] = e /\ Len(r) = Len(s) + 1
  BY DEF Inserted
<1>. DEFINE m == IF i < k THEN i ELSE i - 1
            n == IF j < k THEN j ELSE j - 1
<1>3. CASE i = k
  <2>1. n \in k .. Len(s) /\ r[j] = s[n]
    BY <1>1, <1>2, <1>3, InsertedMap
  <2>. QED BY <1>2, <1>3, <2>1
<1>4. CASE j = k
  <2>1. m \in 1 .. k - 1 /\ r[i] = s[m]
    BY <1>1, <1>2, <1>4, InsertedMap
  <2>. QED BY <1>2, <1>4, <2>1
<1>5. CASE i # k /\ j # k
  <2>1. m \in 1 .. Len(s) /\ n \in 1 .. Len(s) /\ r[i] = s[m] /\ r[j] = s[n]
    BY <1>5, InsertedMap
  <2>2. m < n
    BY <1>1, <1>2, <1>5
  <2>. QED BY <2>1, <2>2 DEF Sorted
<1>. QED BY <1>3, <1>4, <1>5

LEMMA RemovedEvs ==
  ASSUME NEW s, Len(s) \in Nat, NEW r, NEW k, Removed(r, s, k), Distinct(s)
  PROVE  /\ s[k].ev \in Evs(s)
         /\ Evs(r) = Evs(s) \ {s[k].ev}
         /\ Distinct(r)
<1>1. s[k].ev \in Evs(s)
  BY RemovedMap DEF Evs
<1>2. \A x \in Evs(r) : x \in Evs(s) /\ x # s[k].ev
  BY RemovedMap DEF Evs, Distinct
<1>3. \A x \in Evs(s) : x # s[k].ev => x \in Evs(r)
  <2>1. TAKE x \in Evs(s)
  <2>2. HAVE x # s[k].ev
  <2>3. PICK j \in 1 .. Len(s) : x = s[j].ev
    BY DEF Evs
  <2>4. j # k
    BY <2>2, <2>3
  <2>5. \E i \in 1 .. Len(r) : r[i] = s[j]
    BY <2>4, RemovedMap
  <2>. QED BY <2>3, <2>5 DEF Evs
<1>4. Distinct(r)
  <2>1. SUFFICES ASSUME NEW i \in 1 .. Len(r), NEW j \in 1 .. Len(r), r[i].ev = r[j].ev
                 PROVE  i = j
    BY DEF Distinct
  <2>. DEFINE m == IF i < k THEN i ELSE i + 1
              n == IF j < k THEN j ELSE j + 1
  <2>2. m \in 1 .. Len(s) /\ n \in 1 .. Len(s) /\ r[i] = s[m] /\ r[j] = s[n]
    BY RemovedMap
  <2>3. m = n
    BY <2>1, <2>2 DEF Distinct
  <2>. QED BY <2>3, RemovedMap
<1>. QED BY <1>1, <1>2, <1>3, <1>4

LEMMA RemovedSorted ==
  ASSUME NEW s, Len(s) \in Nat, NEW r, NEW k, Removed(r, s, k), Sorted(s)
  PROVE  Sorted(r)
<1>1. SUFFICES ASSUME NEW i \in 1 .. Len(r), NEW j \in 1 .. Len(r), i < j
               PROVE  Earlier(r[i], r[j])
  BY DEF Sorted
<1>. DEFINE m == IF i < k THEN i ELSE i + 1
            n == IF j < k THEN j ELSE j + 1
<1>2. m \in 1 .. Len(s) /\ n \in 1 .. Len(s) /\ r[i] = s[m] /\ r[j] = s[n] /\ m < n
  BY <1>1, RemovedMap
<1>. QED BY <1>2 DEF Sorted

\* erase(begin()).
LEMMA FirstRemoved ==
  ASSUME NEW S, NEW s \in Seq(S), s # << >>
  PROVE  /\ Head(s) = s[1] /\ s[1] \in S /\ Tail(s) \in Seq(S)
         /\ Len(s) \in Nat /\ 1 \in 1 .. Len(s) /\ Removed(Tail(s), s, 1)
BY DEF Removed

\* postDelayed()'s loop puts a new event where the order wants it.
LEMMA InsertPlace ==
  ASSUME NEW s \in Seq(DelayedEvent), Sorted(s), NEW e \in DelayedEvent,
         \A i \in 1 .. Len(s) : s[i].ev < e.ev
  PROVE  /\ insert(s, e) \in Seq(DelayedEvent)
         /\ \E k : Inserted(insert(s, e), s, k, e)
         /\ Sorted(insert(s, e))
<1>. DEFINE later == {i \in 1 .. Len(s) : e.deadline < s[i].deadline}
            k == IF later = {} THEN Len(s) + 1 ELSE Min(later)
<1>1. Len(s) \in Nat /\ later \in SUBSET Nat
  OBVIOUS
<1>2. \A i \in 1 .. Len(s) : s[i] \in DelayedEvent /\ s[i].deadline \in Nat /\ s[i].ev \in Nat
  <2>1. \A i \in 1 .. Len(s) : s[i] \in DelayedEvent
    OBVIOUS
  <2>2. \A d \in DelayedEvent : d.deadline \in Nat /\ d.ev \in Nat
    BY DEF DelayedEvent
  <2>. QED BY <2>1, <2>2
<1>3. e.deadline \in Nat /\ e.ev \in Nat
  BY DEF DelayedEvent
<1>4. later # {} => Min(later) \in later /\ \A y \in later : Min(later) <= y
  <2>. HIDE DEF later
  <2>. QED BY <1>1, LeastNumber
<1>5. k \in 1 .. Len(s) + 1
  BY <1>1, <1>4
<1>6. \A i \in 1 .. k - 1 : i \in 1 .. Len(s) /\ ~ (e.deadline < s[i].deadline)
  BY <1>1, <1>4, <1>5
<1>7. \A i \in 1 .. k - 1 : Earlier(s[i], e)
  BY <1>2, <1>3, <1>6 DEF Earlier
<1>8. \A i \in k .. Len(s) : Earlier(e, s[i])
  <2>1. SUFFICES ASSUME NEW i \in k .. Len(s) PROVE Earlier(e, s[i])
    OBVIOUS
  <2>2. later # {} /\ k \in later /\ i \in 1 .. Len(s)
    BY <1>1, <1>4, <1>5
  <2>3. k \in 1 .. Len(s) /\ e.deadline < s[k].deadline
    BY <2>2
  <2>. HIDE DEF k, later
  <2>4. CASE i = k
    BY <2>3, <2>4 DEF Earlier
  <2>5. CASE i # k
    <3>1. k < i
      BY <1>5, <2>5
    <3>2. Earlier(s[k], s[i])
      BY <2>2, <2>3, <3>1 DEF Sorted
    <3>. QED BY <1>2, <1>3, <2>2, <2>3, <3>2 DEF Earlier
  <2>. QED BY <2>4, <2>5
<1>. HIDE DEF k, later
<1>9. insert(s, e) = InsertAt(s, k, e)
  BY DEF insert, k, later
<1>10. insert(s, e) \in Seq(DelayedEvent) /\ Inserted(insert(s, e), s, k, e)
  BY <1>5, <1>9, InsertAtPlace
<1>11. Sorted(insert(s, e))
  BY <1>1, <1>7, <1>8, <1>10, InsertedSorted
<1>. QED BY <1>10, <1>11

----------------------------------------------------------------------------
LEMMA Fields ==
  ASSUME NEW d \in DelayedEvent
  PROVE  /\ d.deadline \in Nat /\ d.ev \in Nat /\ d.ev \in 1 .. MaxEvents
         /\ d.sched_id \in 0 .. IdRange - 1
BY DEF DelayedEvent

LEMMA Elements ==
  ASSUME TypeOK
  PROVE  /\ Len(delayed_events) \in Nat /\ Len(dev) \in Nat /\ Len(dispatched) \in Nat
         /\ \A i \in 1 .. Len(delayed_events) : delayed_events[i] \in DelayedEvent
         /\ \A i \in 1 .. Len(dev) : dev[i] \in DelayedEvent
         /\ \A i \in 1 .. Len(dispatched) : dispatched[i].event \in DelayedEvent
         /\ Out \subseteq DelayedEvent
         /\ now \in Nat /\ posted \in Nat
<1>1. /\ delayed_events \in Seq(DelayedEvent) /\ dev \in Seq(DelayedEvent)
      /\ dispatched \in Seq([event : DelayedEvent, time : 0 .. MaxTime])
  BY DEF TypeOK
<1>2. now \in Nat /\ posted \in Nat
  BY DEF TypeOK
<1>3. \A i \in 1 .. Len(dispatched) : dispatched[i] \in [event : DelayedEvent, time : 0 .. MaxTime]
  <2>. DEFINE R == [event : DelayedEvent, time : 0 .. MaxTime]
  <2>1. dispatched \in Seq(R)
    BY <1>1
  <2>. HIDE DEF R
  <2>2. \A i \in 1 .. Len(dispatched) : dispatched[i] \in R
    BY <2>1
  <2>. QED BY <2>2 DEF R
<1>4. \A i \in 1 .. Len(dispatched) : dispatched[i].event \in DelayedEvent
  BY <1>3
<1>5. /\ \A i \in 1 .. Len(delayed_events) : delayed_events[i] \in DelayedEvent
      /\ \A i \in 1 .. Len(dev) : dev[i] \in DelayedEvent
  BY <1>1
<1>6. Len(delayed_events) \in Nat /\ Len(dev) \in Nat /\ Len(dispatched) \in Nat
  BY <1>1
<1>. QED BY <1>2, <1>4, <1>5, <1>6 DEF Out

\* The events of the schedule have been scheduled.
LEMMA ScheduledEvs ==
  ASSUME Partition
  PROVE  \A i \in 1 .. Len(delayed_events) : delayed_events[i].ev \in 1 .. posted
BY DEF Partition, Sched, Evs

LEMMA DelayedInit == Init => DelayedInv
<1>. SUFFICES ASSUME Init PROVE DelayedInv
  OBVIOUS
<1>1. TypeOK
  <2>1. /\ delayed_events \in Seq(DelayedEvent) /\ dev \in Seq(DelayedEvent)
        /\ dispatched \in Seq([event : DelayedEvent, time : 0 .. MaxTime])
        /\ Len(dev) <= 1
    BY DEF Init
  <2>2. should_stop \in BOOLEAN
    BY DEF Init
  <2>3. /\ eventCounter \in 0 .. IdRange - 1 /\ now \in 0 .. MaxTime /\ wake \in 0 .. Forever
        /\ notifies \in 0 .. MaxEvents /\ posted \in 0 .. MaxEvents /\ cancelled \subseteq 1 .. MaxEvents
    BY DEF Init, Forever
  <2>. QED BY <2>1, <2>2, <2>3, Zenon DEF Init, TypeOK
<1>2. notifies <= posted
  BY DEF Init
<1>3. Order
  BY DEF Init, Order, Sorted, Handed, Past, Ahead, HandLast, InDeadlineOrder, NotEarly, Out
<1>5. Ledger
  BY DEF Init, Ledger, Partition, Distinct, GoneOnce, Sched, Hand, Gone, Evs
<1>. QED BY <1>1, <1>2, <1>3, <1>5 DEF DelayedInv

\* Steps that leave the events where they are, while time may pass.
LEMMA QuietKeeps ==
  ASSUME DelayedInv, TypeOK', Handed', notifies' <= posted', now <= now',
         UNCHANGED <<delayed_events, eventCounter, dev, posted, cancelled, dispatched>>
  PROVE  DelayedInv'
<1>1. TypeOK /\ Order /\ Ledger
  BY DEF DelayedInv
<1>2. Out' = Out
  BY DEF Out
<1>3. Past'
  <2>1. now \in Nat /\ now' \in Nat /\ \A d \in Out : d.deadline \in Nat
    BY <1>1, Elements, Fields DEF TypeOK
  <2>. QED BY <1>1, <1>2, <2>1 DEF Order, Past
<1>4. Sorted(delayed_events)' /\ Ahead' /\ HandLast'
  BY <1>1, <1>2 DEF Order, Sorted, Ahead, HandLast
<1>5. InDeadlineOrder' /\ NotEarly'
  BY <1>1 DEF Order, InDeadlineOrder, NotEarly
<1>7. Ledger'
  <2>1. Sched' = Sched /\ Hand' = Hand /\ Gone' = Gone
    BY DEF Sched, Hand, Gone, Evs
  <2>2. Partition'
    BY <1>1, <2>1 DEF Ledger, Partition
  <2>. QED BY <1>1, <2>2 DEF Ledger, Distinct, GoneOnce
<1>8. Order'
  BY <1>3, <1>4, <1>5 DEF Order
<1>. QED BY <1>7, <1>8 DEF DelayedInv

LEMMA TypeKept ==
  ASSUME TypeOK, UNCHANGED <<delayed_events, eventCounter, notifies, posted, now, wake, dev, cancelled, dispatched>>,
         should_stop' \in BOOLEAN, stopper' \in {"none", "raised", "joining", "stopped"},
         thread' \in {"start", "test", "decided", "waiting", "woken", "check", "posting", "done"}
  PROVE  TypeOK'
BY Zenon DEF TypeOK

LEMMA QuietSteps ==
  ASSUME DelayedInv,
         \/ Notify \/ Tick \/ RaiseFlag \/ NotifyStop \/ Join \/ UNCHANGED vars
         \/ Lock \/ Test \/ Wait \/ Timeout \/ WakeSpuriously \/ Relock \/ NotExpired
  PROVE  DelayedInv'
<1>1. TypeOK /\ Handed /\ notifies <= posted
  BY DEF DelayedInv, Order
<1>2. CASE Notify
  <2>1. TypeOK' /\ Handed' /\ notifies' <= posted' /\ now <= now'
    BY <1>1, <1>2 DEF TypeOK, Handed, Notify, Awakened, stopping, history
  <2>. QED BY <1>2, <2>1, QuietKeeps DEF Notify, history
<1>3. CASE Tick
  <2>1. TypeOK' /\ Handed' /\ notifies' <= posted' /\ now <= now'
    BY <1>1, <1>3 DEF TypeOK, Handed, Tick, clients, stopping, history
  <2>. QED BY <1>3, <2>1, QuietKeeps DEF Tick, clients, history
<1>4. CASE RaiseFlag \/ NotifyStop \/ Join
  <2>1. should_stop' \in BOOLEAN /\ stopper' \in {"none", "raised", "joining", "stopped"}
    BY <1>1, <1>4, Zenon DEF TypeOK, RaiseFlag, NotifyStop, Join
  <2>2. thread' = thread \/ (thread = "waiting" /\ thread' = "woken")
    BY <1>4 DEF RaiseFlag, NotifyStop, Join, Awakened
  <2>3. UNCHANGED <<delayed_events, clients, now, wake, dev, history>>
    BY <1>4, Zenon DEF RaiseFlag, NotifyStop, Join
  <2>4. TypeOK'
    <3>1. thread' \in {"start", "test", "decided", "waiting", "woken", "check", "posting", "done"}
      BY <1>1, <2>2 DEF TypeOK
    <3>. QED BY <1>1, <2>1, <2>3, <3>1, TypeKept DEF clients, history
  <2>5. Handed' /\ notifies' <= posted' /\ now <= now'
    BY <1>1, <2>2, <2>3 DEF TypeOK, Handed, clients
  <2>. QED BY <2>3, <2>4, <2>5, QuietKeeps DEF clients, history
<1>5. CASE Wait
  <2>1. wake' \in 0 .. Forever
    <3>1. CASE delayed_events = << >>
      BY <1>5, <3>1 DEF Wait, Forever
    <3>2. CASE delayed_events # << >>
      <4>1. delayed_events \in Seq(DelayedEvent)
        BY <1>1 DEF TypeOK
      <4>2. Head(delayed_events) \in DelayedEvent
        BY <3>2, <4>1, FirstRemoved
      <4>3. Head(delayed_events).deadline \in 0 .. MaxTime
        BY <4>2 DEF DelayedEvent
      <4>. QED BY <1>5, <3>2, <4>3 DEF Wait, Forever
    <3>. QED BY <3>1, <3>2
  <2>2. TypeOK' /\ Handed' /\ notifies' <= posted' /\ now <= now'
    BY <1>1, <1>5, <2>1 DEF TypeOK, Handed, Wait, clients, stopping, history
  <2>. QED BY <1>5, <2>2, QuietKeeps DEF Wait, clients, history
<1>6. CASE Lock \/ Test \/ Timeout \/ WakeSpuriously \/ Relock \/ NotExpired
  <2>1. UNCHANGED <<delayed_events, clients, now, wake, dev, stopping, history>>
    BY <1>6, Zenon DEF Lock, Test, Timeout, WakeSpuriously, Relock, NotExpired
  <2>2. thread # "posting" /\ thread' \in {"test", "done", "decided", "woken", "check"}
    BY <1>6 DEF Lock, Test, Timeout, WakeSpuriously, Relock, NotExpired
  <2>3. TypeOK'
    <3>1. should_stop' \in BOOLEAN /\ stopper' \in {"none", "raised", "joining", "stopped"}
      BY <1>1, <2>1, Zenon DEF TypeOK, stopping
    <3>. QED BY <1>1, <2>1, <2>2, <3>1, TypeKept DEF clients, history
  <2>4. Handed' /\ notifies' <= posted' /\ now <= now'
    BY <1>1, <2>1, <2>2 DEF TypeOK, Handed, clients
  <2>. QED BY <2>1, <2>3, <2>4, QuietKeeps DEF clients, history
<1>7. CASE UNCHANGED vars
  <2>1. TypeOK' /\ Handed' /\ notifies' <= posted' /\ now <= now'
    BY <1>1, <1>7 DEF TypeOK, Handed, vars
  <2>. QED BY <1>7, <2>1, QuietKeeps DEF vars
<1>. QED BY <1>2, <1>3, <1>4, <1>5, <1>6, <1>7

----------------------------------------------------------------------------
\* The types that a step which moves events does not touch.
Untouched == /\ now \in 0 .. MaxTime /\ wake \in 0 .. Forever
             /\ should_stop \in BOOLEAN /\ stopper \in {"none", "raised", "joining", "stopped"}

LEMMA UntouchedKept ==
  ASSUME TypeOK, UNCHANGED <<now, wake, should_stop, stopper>>
  PROVE  Untouched'
BY Zenon DEF TypeOK, Untouched

LEMMA TypeParts ==
  ASSUME Untouched',
         delayed_events' \in Seq(DelayedEvent), eventCounter' \in 0 .. IdRange - 1,
         thread' \in {"start", "test", "decided", "waiting", "woken", "check", "posting", "done"},
         dev' \in Seq(DelayedEvent), Len(dev') <= 1,
         notifies' \in 0 .. MaxEvents, posted' \in 0 .. MaxEvents, cancelled' \subseteq 1 .. MaxEvents,
         dispatched' \in Seq([event : DelayedEvent, time : 0 .. MaxTime])
  PROVE  TypeOK'
BY Zenon DEF TypeOK, Untouched

\* postDelayed(): what has left was due before the new deadline and has a smaller
\* number, and so has everything scheduled with the same deadline.
LEMMA PostDelayedKeeps ==
  ASSUME DelayedInv, NEW delay \in Delays, postDelayed(delay)
  PROVE  DelayedInv'
<1>. DEFINE e == [sched_id |-> eventCounter, ev |-> posted + 1, deadline |-> now + delay]
            s == delayed_events
            r == insert(s, e)
<1>1. TypeOK /\ notifies <= posted /\ Order /\ Ledger /\ Partition
  BY DEF DelayedInv, Ledger
<1>2. /\ delayed_events' = r /\ posted' = posted + 1 /\ notifies' = notifies + 1
      /\ eventCounter' = (eventCounter + 1) % IdRange
      /\ UNCHANGED <<now, thread, wake, dev, should_stop, stopper, cancelled, dispatched>>
  BY DEF postDelayed, stopping, history
<1>3. /\ posted \in Nat /\ posted + 1 \in 1 .. MaxEvents /\ now \in Nat /\ delay \in Nat
      /\ now + delay \in 0 .. MaxTime /\ eventCounter \in 0 .. IdRange - 1
      /\ notifies \in Nat /\ notifies + 1 \in 0 .. MaxEvents
  BY <1>1 DEF TypeOK, postDelayed
<1>4. e \in DelayedEvent
  BY <1>3 DEF DelayedEvent
<1>5. /\ s \in Seq(DelayedEvent) /\ Len(s) \in Nat /\ Sorted(s) /\ Distinct(s)
      /\ \A i \in 1 .. Len(s) : s[i].ev < e.ev
  <2>1. s \in Seq(DelayedEvent) /\ Len(s) \in Nat /\ Sorted(s) /\ Distinct(s)
    BY <1>1, Elements DEF TypeOK, Order, Ledger
  <2>2. \A i \in 1 .. Len(s) : s[i].ev \in 1 .. posted
    BY <1>1, ScheduledEvs
  <2>. QED BY <1>3, <2>1, <2>2
<1>6. e.ev = posted + 1 /\ e.deadline = now + delay /\ e.sched_id = eventCounter
  OBVIOUS
<1>. HIDE DEF e, s, r
<1>7. r \in Seq(DelayedEvent) /\ Sorted(r)
  BY <1>4, <1>5, InsertPlace DEF r
<1>8. PICK k : Inserted(r, s, k, e)
  BY <1>4, <1>5, InsertPlace DEF r
<1>9. \A i \in 1 .. Len(r) : r[i] = e \/ \E j \in 1 .. Len(s) : r[i] = s[j]
  BY <1>5, <1>8, InsertedMap
<1>10. TypeOK'
  <2>1. Untouched'
    BY <1>1, <1>2, UntouchedKept
  <2>3. eventCounter' \in 0 .. IdRange - 1
    BY <1>2, <1>3
  <2>4. /\ thread' \in {"start", "test", "decided", "waiting", "woken", "check", "posting", "done"}
        /\ dev' \in Seq(DelayedEvent) /\ Len(dev') <= 1 /\ cancelled' \subseteq 1 .. MaxEvents
        /\ dispatched' \in Seq([event : DelayedEvent, time : 0 .. MaxTime])
    BY <1>1, <1>2, Zenon DEF TypeOK
  <2>5. delayed_events' \in Seq(DelayedEvent) /\ notifies' \in 0 .. MaxEvents /\ posted' \in 0 .. MaxEvents
    BY <1>2, <1>3, <1>7
  <2>. QED BY <2>1, <2>3, <2>4, <2>5, TypeParts
<1>11. notifies' <= posted'
  BY <1>1, <1>2, <1>3
<1>12. Order'
  <2>1. Out' = Out
    BY <1>2 DEF Out
  <2>2. \A d \in Out : d.deadline \in Nat /\ d.ev \in Nat /\ d.deadline <= now /\ d.ev <= posted
    BY <1>1, Elements, Fields DEF Order, Past
  <2>3. \A d \in Out : Earlier(d, e)
    BY <1>3, <1>6, <2>2 DEF Earlier
  <2>4. Past'
    BY <1>2, <1>3, <2>1, <2>2 DEF Past
  <2>5. Ahead'
    <3>1. \A d \in Out : \A j \in 1 .. Len(s) : Earlier(d, s[j])
      BY <1>1 DEF Order, Ahead, s
    <3>2. \A d \in Out : \A i \in 1 .. Len(r) : Earlier(d, r[i])
      BY <1>9, <2>3, <3>1
    <3>. QED BY <1>2, <2>1, <3>2 DEF Ahead
  <2>6. Handed' /\ HandLast' /\ InDeadlineOrder' /\ NotEarly'
    BY <1>1, <1>2 DEF Order, Handed, HandLast, InDeadlineOrder, NotEarly
  <2>7. Sorted(delayed_events)'
    BY <1>2, <1>7 DEF Sorted
  <2>. QED BY <2>4, <2>5, <2>6, <2>7 DEF Order
<1>14. Ledger'
  <2>1. Evs(r) = Evs(s) \cup {posted + 1}
    BY <1>5, <1>6, <1>8, InsertedEvs
  <2>2. Sched' = Sched \cup {posted + 1} /\ Hand' = Hand /\ Gone' = Gone
    BY <1>2, <2>1 DEF Sched, Hand, Gone, Evs, s
  <2>3. posted + 1 \notin Sched \cup Hand \cup Gone \cup cancelled
    BY <1>1, <1>3 DEF Partition
  <2>4. 1 .. posted + 1 = (1 .. posted) \cup {posted + 1}
    BY <1>3
  <2>5. Partition'
    BY <1>1, <1>2, <2>2, <2>3, <2>4 DEF Partition
  <2>6. Distinct(r)
    <3>1. e.ev \notin Evs(s)
      BY <1>6, <2>3 DEF Sched, s
    <3>. QED BY <1>5, <1>8, <3>1, InsertedDistinct
  <2>7. GoneOnce'
    BY <1>1, <1>2 DEF Ledger, GoneOnce
  <2>. QED BY <1>2, <2>5, <2>6, <2>7 DEF Ledger, Distinct
<1>. QED BY <1>10, <1>11, <1>12, <1>14 DEF DelayedInv

\* removeDelayed(): one event leaves the schedule for the cancelled ones.
LEMMA RemoveKeeps ==
  ASSUME DelayedInv, NEW id \in 0 .. IdRange - 1, removeDelayed(id)
  PROVE  DelayedInv'
<1>. DEFINE s == delayed_events
            is == {i \in 1 .. Len(s) : s[i].sched_id = id}
            k == Min(is)
            r == RemoveAt(s, k)
<1>1. TypeOK /\ notifies <= posted /\ Order /\ Ledger /\ Partition
  BY DEF DelayedInv, Ledger
<1>2. /\ is # {} /\ delayed_events' = r /\ cancelled' = cancelled \cup {s[k].ev}
      /\ UNCHANGED <<eventCounter, notifies, posted, now, thread, wake, dev, should_stop, stopper, dispatched>>
  BY DEF removeDelayed, clients, stopping
<1>3. s \in Seq(DelayedEvent) /\ Len(s) \in Nat /\ Sorted(s) /\ Distinct(s)
  BY <1>1, Elements DEF TypeOK, Order, Ledger
<1>4. k \in 1 .. Len(s)
  <2>1. is \in SUBSET Nat /\ \A i \in is : i \in 1 .. Len(s)
    BY <1>3
  <2>. HIDE DEF is
  <2>. QED BY <1>2, <2>1, LeastNumber
<1>. HIDE DEF k, is
<1>5. r \in Seq(DelayedEvent) /\ Removed(r, s, k)
  BY <1>3, <1>4, RemoveAtPlace
<1>. HIDE DEF r, s
<1>6. \A i \in 1 .. Len(r) : \E j \in 1 .. Len(s) : r[i] = s[j]
  BY <1>3, <1>5, RemovedKeeps
<1>7. /\ s[k].ev \in Evs(s) /\ Evs(r) = Evs(s) \ {s[k].ev} /\ Distinct(r) /\ Sorted(r)
  BY <1>3, <1>5, RemovedEvs, RemovedSorted
<1>8. TypeOK'
  <2>1. Untouched'
    BY <1>1, <1>2, UntouchedKept
  <2>2. s[k].ev \in 1 .. MaxEvents
    BY <1>3, <1>4, Fields
  <2>3. cancelled' \subseteq 1 .. MaxEvents
    BY <1>1, <1>2, <2>2 DEF TypeOK
  <2>. QED BY <1>1, <1>2, <1>5, <2>1, <2>3, TypeParts DEF TypeOK
<1>9. notifies' <= posted'
  BY <1>1, <1>2
<1>10. Order'
  <2>1. Out' = Out
    BY <1>2 DEF Out
  <2>2. Ahead'
    BY <1>1, <1>2, <1>6, <2>1 DEF Order, Ahead, s
  <2>3. Past' /\ Handed' /\ HandLast' /\ InDeadlineOrder' /\ NotEarly'
    BY <1>1, <1>2, <2>1 DEF Order, Past, Handed, HandLast, InDeadlineOrder, NotEarly
  <2>4. Sorted(delayed_events)'
    BY <1>2, <1>7 DEF Sorted
  <2>. QED BY <2>2, <2>3, <2>4 DEF Order
<1>12. Ledger'
  <2>1. Sched' = Sched \ {s[k].ev} /\ Hand' = Hand /\ Gone' = Gone /\ s[k].ev \in Sched
    BY <1>2, <1>7 DEF Sched, Hand, Gone, Evs, s
  <2>2. Partition'
    BY <1>1, <1>2, <2>1 DEF Partition
  <2>3. GoneOnce'
    BY <1>1, <1>2 DEF Ledger, GoneOnce
  <2>. QED BY <1>2, <1>7, <2>2, <2>3 DEF Ledger, Distinct
<1>. QED BY <1>8, <1>9, <1>10, <1>12 DEF DelayedInv

LEMMA ClearKeeps ==
  ASSUME DelayedInv, clearDelayedEvents
  PROVE  DelayedInv'
<1>1. TypeOK /\ notifies <= posted /\ Order /\ Ledger /\ Partition
  BY DEF DelayedInv, Ledger
<1>2. /\ delayed_events' = << >> /\ cancelled' = cancelled \cup {e.ev : e \in ToSet(delayed_events)}
      /\ UNCHANGED <<eventCounter, notifies, posted, now, thread, wake, dev, should_stop, stopper, dispatched>>
  BY DEF clearDelayedEvents, clients, stopping
<1>3. delayed_events \in Seq(DelayedEvent)
  BY <1>1 DEF TypeOK
<1>4. {e.ev : e \in ToSet(delayed_events)} = Sched
  <2>1. ToSet(delayed_events) = {delayed_events[i] : i \in 1 .. Len(delayed_events)}
    BY <1>3 DEF ToSet
  <2>. QED BY <2>1 DEF Sched, Evs
<1>5. Sched' = {} /\ Hand' = Hand /\ Gone' = Gone
  BY <1>2 DEF Sched, Hand, Gone, Evs
<1>6. Partition'
  BY <1>1, <1>2, <1>4, <1>5 DEF Partition
<1>7. TypeOK'
  <2>1. Untouched'
    BY <1>1, <1>2, UntouchedKept
  <2>2. cancelled' \subseteq 1 .. MaxEvents
    <3>1. posted \in 0 .. MaxEvents /\ cancelled' \subseteq 1 .. posted
      BY <1>1, <1>2, <1>6 DEF Partition, TypeOK
    <3>. QED BY <3>1
  <2>3. delayed_events' \in Seq(DelayedEvent)
    BY <1>2
  <2>. QED BY <1>1, <1>2, <2>1, <2>2, <2>3, TypeParts DEF TypeOK
<1>8. notifies' <= posted'
  BY <1>1, <1>2
<1>9. Order'
  <2>1. Out' = Out
    BY <1>2 DEF Out
  <2>2. Ahead' /\ Sorted(delayed_events)'
    BY <1>2 DEF Ahead, Sorted
  <2>3. Past' /\ Handed' /\ HandLast' /\ InDeadlineOrder' /\ NotEarly'
    BY <1>1, <1>2, <2>1 DEF Order, Past, Handed, HandLast, InDeadlineOrder, NotEarly
  <2>. QED BY <2>2, <2>3 DEF Order
<1>11. Ledger'
  <2>1. GoneOnce' /\ Distinct(delayed_events)'
    BY <1>1, <1>2 DEF Ledger, GoneOnce, Distinct
  <2>. QED BY <1>6, <2>1 DEF Ledger
<1>. QED BY <1>7, <1>8, <1>9, <1>11 DEF DelayedInv

\* run() takes the first event, which is due, into its hands.
LEMMA TakeKeeps ==
  ASSUME DelayedInv, TakeExpired
  PROVE  DelayedInv'
<1>. DEFINE s == delayed_events
            r == Tail(s)
            h == s[1]
<1>1. TypeOK /\ notifies <= posted /\ Order /\ Ledger /\ Partition
  BY DEF DelayedInv, Ledger
<1>2. s \in Seq(DelayedEvent) /\ s # << >> /\ Sorted(s) /\ Distinct(s)
  BY <1>1 DEF TypeOK, Order, Ledger, TakeExpired, Expired
<1>3. /\ Head(s) = h /\ h \in DelayedEvent /\ r \in Seq(DelayedEvent)
      /\ Len(s) \in Nat /\ 1 \in 1 .. Len(s) /\ Removed(r, s, 1)
  BY <1>2, FirstRemoved
<1>4. /\ thread = "check" /\ thread' = "posting" /\ h.deadline <= now
      /\ dev' = <<h>> /\ delayed_events' = r
      /\ UNCHANGED <<eventCounter, notifies, posted, now, wake, should_stop, stopper, cancelled, dispatched>>
  BY <1>3 DEF TakeExpired, Expired, clients, stopping, history
<1>5. dev = << >>
  BY <1>1, <1>4 DEF Order, Handed
<1>6. dev' \in Seq(DelayedEvent) /\ Len(dev') = 1 /\ dev'[1] = h /\ dev' # << >>
  BY <1>3, <1>4
<1>. HIDE DEF r, h, s
<1>7. \A i \in 1 .. Len(r) : \E j \in 1 .. Len(s) : r[i] = s[j] /\ j # 1
  BY <1>3, RemovedMap
<1>8. /\ s[1].ev \in Evs(s) /\ Evs(r) = Evs(s) \ {s[1].ev} /\ Distinct(r) /\ Sorted(r)
  BY <1>2, <1>3, RemovedEvs, RemovedSorted
<1>9. \A i \in 1 .. Len(r) : Earlier(h, r[i])
  <2>1. \A j \in 1 .. Len(s) : j # 1 => Earlier(s[1], s[j])
    BY <1>2, <1>3 DEF Sorted
  <2>. QED BY <1>7, <2>1 DEF h
<1>10. TypeOK'
  <2>1. Untouched'
    BY <1>1, <1>4, UntouchedKept
  <2>2. delayed_events' \in Seq(DelayedEvent) /\ dev' \in Seq(DelayedEvent) /\ Len(dev') <= 1
    BY <1>3, <1>4, <1>6
  <2>. QED BY <1>1, <1>4, <2>1, <2>2, TypeParts DEF TypeOK
<1>11. notifies' <= posted'
  BY <1>1, <1>4
<1>12. Out' = Out \cup {h}
  BY <1>4, <1>5, <1>6 DEF Out
<1>13. Order'
  <2>1. h.ev <= posted
    <3>1. h.ev \in 1 .. posted /\ posted \in Nat
      BY <1>1, <1>3, ScheduledEvs, Elements DEF h, s
    <3>. QED BY <3>1
  <2>2. Past'
    BY <1>1, <1>4, <1>12, <2>1 DEF Order, Past
  <2>3. Ahead'
    BY <1>1, <1>4, <1>7, <1>9, <1>12 DEF Order, Ahead, s
  <2>4. HandLast'
    <3>1. \A i \in 1 .. Len(dispatched) : Earlier(dispatched[i].event, h)
      BY <1>1, <1>3 DEF Order, Ahead, Out, h, s
    <3>. QED BY <1>4, <1>6, <3>1 DEF HandLast
  <2>5. Handed' /\ InDeadlineOrder' /\ NotEarly'
    BY <1>1, <1>4, <1>6 DEF Order, Handed, InDeadlineOrder, NotEarly
  <2>6. Sorted(delayed_events)'
    BY <1>4, <1>8 DEF Sorted
  <2>. QED BY <2>2, <2>3, <2>4, <2>5, <2>6 DEF Order
<1>15. Ledger'
  <2>1. Sched' = Sched \ {h.ev} /\ h.ev \in Sched /\ Gone' = Gone
    BY <1>4, <1>8 DEF Sched, Gone, Evs, s, h
  <2>2. Hand = {} /\ Hand' = {h.ev}
    BY <1>5, <1>6 DEF Hand, Evs
  <2>3. Partition'
    BY <1>1, <1>4, <2>1, <2>2 DEF Partition
  <2>4. GoneOnce'
    BY <1>1, <1>4 DEF Ledger, GoneOnce
  <2>. QED BY <1>4, <1>8, <2>3, <2>4 DEF Ledger, Distinct
<1>. QED BY <1>10, <1>11, <1>13, <1>15 DEF DelayedInv

LEMMA AtMostOne ==
  ASSUME NEW n \in Nat, n # 0, n <= 1
  PROVE  n = 1 /\ 1 \in 1 .. n
OBVIOUS

LEMMA OneElement ==
  ASSUME NEW S, NEW s \in Seq(S), Len(s) <= 1, s # << >>
  PROVE  Len(s) = 1 /\ 1 \in 1 .. Len(s) /\ Head(s) = s[1] /\ s[1] \in S
<1>1. Len(s) \in Nat /\ Len(s) # 0
  OBVIOUS
<1>2. Len(s) = 1
  BY <1>1, AtMostOne
<1>3. 1 \in 1 .. Len(s)
  BY <1>1, AtMostOne
<1>4. Head(s) = s[1]
  OBVIOUS
<1>5. s[1] \in S
  BY <1>3
<1>. QED BY <1>2, <1>3, <1>4, <1>5

\* run() posts the event in its hands, without the mutex.
LEMMA PostKeeps ==
  ASSUME DelayedInv, Post
  PROVE  DelayedInv'
<1>. DEFINE n == Len(dispatched)
            x == [event |-> dev[1], time |-> now]
            R == [event : DelayedEvent, time : 0 .. MaxTime]
<1>1. TypeOK /\ notifies <= posted /\ Order /\ Ledger /\ Partition
  BY DEF DelayedInv, Ledger
<1>2. dev \in Seq(DelayedEvent) /\ Len(dev) <= 1 /\ dev # << >>
  BY <1>1 DEF TypeOK, Order, Handed, Post
<1>3. Len(dev) = 1 /\ 1 \in 1 .. Len(dev) /\ Head(dev) = dev[1] /\ dev[1] \in DelayedEvent
  BY <1>2, OneElement
<1>4. /\ thread' = "test" /\ dev' = << >> /\ dispatched' = Append(dispatched, x)
      /\ UNCHANGED <<delayed_events, eventCounter, notifies, posted, now, wake, should_stop, stopper, cancelled>>
  BY <1>3 DEF Post, clients, stopping
<1>5. x \in R /\ x.event = dev[1] /\ x.time = now /\ dispatched \in Seq(R)
  BY <1>1, <1>3 DEF TypeOK
<1>. HIDE DEF x, R
<1>6. /\ dispatched' \in Seq(R) /\ n \in Nat /\ Len(dispatched') = n + 1
      /\ \A i \in 1 .. n : dispatched'[i] = dispatched[i]
      /\ dispatched'[n + 1] = x
  BY <1>4, <1>5
<1>7. TypeOK'
  <2>1. Untouched'
    BY <1>1, <1>4, UntouchedKept
  <2>2. dev' \in Seq(DelayedEvent) /\ Len(dev') <= 1
    BY <1>4
  <2>3. dispatched' \in Seq([event : DelayedEvent, time : 0 .. MaxTime])
    BY <1>6 DEF R
  <2>. QED BY <1>1, <1>4, <2>1, <2>2, <2>3, TypeParts DEF TypeOK
<1>8. notifies' <= posted'
  BY <1>1, <1>4
<1>. HIDE DEF n
<1>9. n = Len(dispatched)
  BY DEF n
<1>10. \A i \in 1 .. Len(dispatched') : i = n + 1 \/ i \in 1 .. n
  BY <1>6
<1>11. Out' = Out
  <2>1. \A d \in Out' : d \in Out
    BY <1>3, <1>4, <1>5, <1>6, <1>9, <1>10 DEF Out
  <2>2. \A d \in Out : d \in Out'
    <3>1. ASSUME NEW i \in 1 .. n PROVE dispatched[i].event \in Out'
      <4>1. i \in 1 .. Len(dispatched') /\ dispatched'[i] = dispatched[i]
        BY <1>6
      <4>. QED BY <4>1 DEF Out
    <3>2. dev[1] \in Out'
      <4>1. n + 1 \in 1 .. Len(dispatched') /\ dispatched'[n + 1].event = dev[1]
        BY <1>5, <1>6
      <4>. QED BY <4>1 DEF Out
    <3>3. \A i \in 1 .. Len(dev) : i = 1
      BY <1>3
    <3>. QED BY <1>9, <3>1, <3>2, <3>3 DEF Out
  <2>. QED BY <2>1, <2>2
<1>12. Order'
  <2>1. Past' /\ Ahead' /\ Sorted(delayed_events)'
    BY <1>1, <1>4, <1>11 DEF Order, Past, Ahead, Sorted
  <2>2. Handed' /\ HandLast'
    BY <1>4 DEF Handed, HandLast
  <2>3. dev[1] \in Out /\ dev[1].deadline <= now
    BY <1>1, <1>3 DEF Order, Past, Out
  <2>4. NotEarly'
    <3>1. \A i \in 1 .. n : dispatched[i].time >= dispatched[i].event.deadline
      BY <1>1, <1>9 DEF Order, NotEarly
    <3>2. x.time >= x.event.deadline
      BY <1>1, <1>3, <1>5, <2>3, Elements, Fields
    <3>. QED BY <1>6, <1>10, <3>1, <3>2 DEF NotEarly
  <2>5. InDeadlineOrder'
    <3>1. \A i, j \in 1 .. n : i < j => Earlier(dispatched[i].event, dispatched[j].event)
      BY <1>1, <1>9 DEF Order, InDeadlineOrder, Earlier
    <3>2. \A i \in 1 .. n : Earlier(dispatched[i].event, x.event)
      BY <1>1, <1>3, <1>5, <1>9 DEF Order, HandLast
    <3>3. ASSUME NEW i \in 1 .. Len(dispatched'), NEW j \in 1 .. Len(dispatched'), i < j
          PROVE  Earlier(dispatched'[i].event, dispatched'[j].event)
      <4>1. i \in 1 .. n
        BY <1>6, <3>3
      <4>. QED BY <1>6, <1>10, <3>1, <3>2, <3>3, <4>1
    <3>. QED BY <3>3 DEF InDeadlineOrder, Earlier
  <2>. QED BY <2>1, <2>2, <2>4, <2>5 DEF Order
<1>14. Ledger'
  <2>1. Sched' = Sched /\ Hand' = {} /\ Hand = {x.event.ev}
    BY <1>3, <1>4, <1>5 DEF Sched, Hand, Evs
  <2>2. Gone' = Gone \cup {x.event.ev}
    BY <1>6, <1>9, <1>10 DEF Gone
  <2>3. Partition'
    BY <1>1, <1>4, <2>1, <2>2 DEF Partition
  <2>4. \A i \in 1 .. n : dispatched[i].event.ev # x.event.ev
    BY <1>1, <1>9, <2>1 DEF Partition, Gone
  <2>5. \A i, j \in 1 .. n : dispatched[i].event.ev = dispatched[j].event.ev => i = j
    BY <1>1, <1>9 DEF Ledger, GoneOnce
  <2>6. GoneOnce'
    BY <1>6, <1>10, <2>4, <2>5 DEF GoneOnce
  <2>7. Distinct(delayed_events)'
    BY <1>1, <1>4 DEF Ledger, Distinct
  <2>. QED BY <2>3, <2>6, <2>7 DEF Ledger
<1>. QED BY <1>7, <1>8, <1>12, <1>14 DEF DelayedInv

LEMMA DelayedStep == DelayedInv /\ [Next]_vars => DelayedInv'
<1>. SUFFICES ASSUME DelayedInv, [Next]_vars PROVE DelayedInv'
  OBVIOUS
<1>1. CASE \E delay \in Delays : postDelayed(delay)
  BY <1>1, PostDelayedKeeps
<1>2. CASE \E id \in 0 .. IdRange - 1 : removeDelayed(id)
  BY <1>2, RemoveKeeps
<1>3. CASE clearDelayedEvents
  BY <1>3, ClearKeeps
<1>4. CASE TakeExpired
  BY <1>4, TakeKeeps
<1>5. CASE Post
  BY <1>5, PostKeeps
<1>6. CASE \/ Notify \/ Tick \/ RaiseFlag \/ NotifyStop \/ Join \/ UNCHANGED vars
           \/ Lock \/ Test \/ Wait \/ Timeout \/ WakeSpuriously \/ Relock \/ NotExpired
  BY <1>6, QuietSteps
<1>. QED BY <1>1, <1>2, <1>3, <1>4, <1>5, <1>6 DEF Next, run

LEMMA DelayedInvHolds == Spec => []DelayedInv
<1>. QED BY DelayedInit, DelayedStep, PTL DEF Spec

----------------------------------------------------------------------------
\* run() posts delayed events by deadline and, among equal ones, by the order of
\* the postDelayed() calls, whatever clients do between its steps.
THEOREM DeadlineOrder == Spec => []InDeadlineOrder
<1>1. DelayedInv => InDeadlineOrder
  BY DEF DelayedInv, Order
<1>. QED BY <1>1, DelayedInvHolds, PTL

\* run() posts no event before its deadline, whatever woke it up.
THEOREM NeverEarly == Spec => []NotEarly
<1>1. DelayedInv => NotEarly
  BY DEF DelayedInv, Order
<1>. QED BY <1>1, DelayedInvHolds, PTL

\* An event that is in one of the four, and there once, has one place.
LEMMA OnePlace == DelayedInv => Accounted
<1>. SUFFICES ASSUME DelayedInv, NEW e \in 1 .. posted
              PROVE  Cardinality(Places(e)) = 1
  BY DEF Accounted
<1>1. TypeOK /\ Partition /\ Distinct(delayed_events) /\ GoneOnce /\ Len(dev) <= 1 /\ Len(dev) \in Nat
  BY Elements DEF DelayedInv, Ledger, TypeOK
<1>. DEFINE S == {i \in 1 .. Len(delayed_events) : delayed_events[i].ev = e}
            H == {i \in 1 .. Len(dev) : dev[i].ev = e}
            G == {i \in 1 .. Len(dispatched) : dispatched[i].event.ev = e}
            C == cancelled \cap {e}
<1>2. /\ S # {} <=> e \in Sched
      /\ H # {} <=> e \in Hand
      /\ G # {} <=> e \in Gone
      /\ C # {} <=> e \in cancelled
  BY DEF Sched, Hand, Gone, Evs
<1>3. \A i, j \in S : i = j
  BY <1>1 DEF Distinct
<1>4. \A i, j \in H : i = j
  BY <1>1
<1>5. \A i, j \in G : i = j
  BY <1>1 DEF GoneOnce
<1>6. \A i, j \in C : i = j
  OBVIOUS
<1>7. Places(e) = {<<"scheduled", i>> : i \in S} \cup {<<"in hand", i>> : i \in H}
                  \cup {<<"posted", i>> : i \in G} \cup {<<"cancelled", i>> : i \in C}
  BY DEF Places
<1>. HIDE DEF S, H, G, C
<1>8. \/ S # {} /\ H = {} /\ G = {} /\ C = {}
      \/ S = {} /\ H # {} /\ G = {} /\ C = {}
      \/ S = {} /\ H = {} /\ G # {} /\ C = {}
      \/ S = {} /\ H = {} /\ G = {} /\ C # {}
  BY <1>1, <1>2 DEF Partition
<1>9. \E p : Places(e) = {p}
  <2>1. CASE S # {} /\ H = {} /\ G = {} /\ C = {}
    <3>1. PICK i \in S : S = {i}
      BY <1>3, <2>1
    <3>2. Places(e) = {<<"scheduled", i>>}
      BY <1>7, <2>1, <3>1
    <3>. QED BY <3>2
  <2>2. CASE S = {} /\ H # {} /\ G = {} /\ C = {}
    <3>1. PICK i \in H : H = {i}
      BY <1>4, <2>2
    <3>2. Places(e) = {<<"in hand", i>>}
      BY <1>7, <2>2, <3>1
    <3>. QED BY <3>2
  <2>3. CASE S = {} /\ H = {} /\ G # {} /\ C = {}
    <3>1. PICK i \in G : G = {i}
      BY <1>5, <2>3
    <3>2. Places(e) = {<<"posted", i>>}
      BY <1>7, <2>3, <3>1
    <3>. QED BY <3>2
  <2>4. CASE S = {} /\ H = {} /\ G = {} /\ C # {}
    <3>1. PICK i \in C : C = {i}
      BY <1>6, <2>4
    <3>2. Places(e) = {<<"cancelled", i>>}
      BY <1>7, <2>4, <3>1
    <3>. QED BY <3>2
  <2>. QED BY <1>8, <2>1, <2>2, <2>3, <2>4
<1>. QED BY <1>9, FS_Singleton

\* Every event given to postDelayed() is scheduled, in run()'s hands, posted or
\* cancelled, and only one of these, once: although run() posts without the
\* mutex, a cancelled event is not posted, none is posted twice, none is lost.
THEOREM EveryEventAccounted == Spec => []Accounted
<1>. QED BY OnePlace, DelayedInvHolds, PTL
----------------------------------------------------------------------------
\* Without one of its elements a schedule does not begin any earlier.
LEMMA RemovedHead ==
  ASSUME NEW s \in Seq(DelayedEvent), Sorted(s), NEW r \in Seq(DelayedEvent), r # << >>,
         NEW k, Removed(r, s, k)
  PROVE  s # << >> /\ Head(s).deadline \in Nat /\ Head(r).deadline \in Nat
         /\ Head(s).deadline <= Head(r).deadline
<1>1. /\ Head(r) = r[1] /\ r[1] \in DelayedEvent /\ Len(r) \in Nat /\ 1 \in 1 .. Len(r)
      /\ Len(s) \in Nat
  BY FirstRemoved
<1>2. Len(s) = Len(r) + 1
  BY <1>1 DEF Removed
<1>3. s # << >>
  BY <1>1, <1>2
<1>4. Head(s) = s[1] /\ s[1] \in DelayedEvent /\ 1 \in 1 .. Len(s)
  BY <1>3, FirstRemoved
<1>5. PICK j \in 1 .. Len(s) : r[1] = s[j]
  BY <1>1, RemovedKeeps
<1>6. s[1].deadline \in Nat /\ s[j].deadline \in Nat
  BY <1>1, <1>4, <1>5, Fields
<1>7. j = 1 \/ Earlier(s[1], s[j])
  <2>1. j = 1 \/ 1 < j
    BY <1>1
  <2>. QED BY <1>4, <2>1 DEF Sorted
<1>8. s[1].deadline <= s[j].deadline
  BY <1>6, <1>7 DEF Earlier
<1>. QED BY <1>1, <1>3, <1>4, <1>5, <1>6, <1>8

LEMMA OnTimeStep == DelayedInv /\ OnTime /\ [Next]_vars => OnTime'
<1>. SUFFICES ASSUME DelayedInv, OnTime, [Next]_vars,
                     thread' = "waiting", delayed_events' # << >>
              PROVE  notifies' > 0 \/ wake' <= Head(delayed_events').deadline
  BY DEF OnTime
<1>1. /\ notifies \in Nat /\ wake \in Nat
      /\ delayed_events \in Seq(DelayedEvent) /\ Sorted(delayed_events)
  BY DEF DelayedInv, Order, TypeOK, Forever
<1>2. CASE \E delay \in Delays : postDelayed(delay)
  <2>1. notifies' = notifies + 1
    BY <1>2 DEF postDelayed
  <2>. QED BY <1>1, <2>1
<1>3. CASE \E id \in 0 .. IdRange - 1 : removeDelayed(id)
  <2>1. PICK id \in 0 .. IdRange - 1 : removeDelayed(id)
    BY <1>3
  <2>. DEFINE is == {i \in 1 .. Len(delayed_events) : delayed_events[i].sched_id = id}
              k == Min(is)
  <2>2. /\ is # {} /\ delayed_events' = RemoveAt(delayed_events, k)
        /\ thread' = thread /\ wake' = wake /\ notifies' = notifies
    BY <2>1 DEF removeDelayed, clients
  <2>3. is \in SUBSET Nat /\ is \subseteq 1 .. Len(delayed_events)
    BY <1>1
  <2>. HIDE DEF is
  <2>4. k \in 1 .. Len(delayed_events)
    BY <2>2, <2>3, LeastNumber
  <2>. HIDE DEF k
  <2>. DEFINE r == RemoveAt(delayed_events, k)
  <2>5. r \in Seq(DelayedEvent) /\ Removed(r, delayed_events, k)
    BY <1>1, <2>4, RemoveAtPlace
  <2>6. r # << >> /\ delayed_events' = r
    BY <2>2
  <2>. HIDE DEF r
  <2>7. /\ delayed_events # << >> /\ Head(delayed_events).deadline \in Nat
        /\ Head(r).deadline \in Nat /\ Head(delayed_events).deadline <= Head(r).deadline
    BY <1>1, <2>5, <2>6, RemovedHead
  <2>8. notifies > 0 \/ wake <= Head(delayed_events).deadline
    BY <2>2, <2>7 DEF OnTime
  <2>9. notifies > 0 \/ wake <= Head(r).deadline
    BY <1>1, <2>7, <2>8
  <2>. QED BY <2>2, <2>6, <2>9
<1>4. CASE Notify
  BY <1>4 DEF Notify, Awakened
<1>5. CASE NotifyStop
  BY <1>5 DEF NotifyStop, Awakened
<1>6. CASE Wait
  <2>1. /\ delayed_events' = delayed_events
        /\ wake' = IF delayed_events # << >> THEN Head(delayed_events).deadline ELSE Forever
    BY <1>6 DEF Wait
  <2>2. wake' = Head(delayed_events).deadline
    BY <2>1
  <2>3. Head(delayed_events).deadline \in Nat
    BY <1>1, <2>1, FirstRemoved, Fields
  <2>. QED BY <2>1, <2>2, <2>3
<1>7. CASE clearDelayedEvents
  BY <1>7 DEF clearDelayedEvents
<1>8. CASE Tick \/ RaiseFlag \/ Join \/ UNCHANGED vars
  <2>1. UNCHANGED <<thread, delayed_events, wake, notifies>>
    BY <1>8 DEF Tick, RaiseFlag, Join, vars, clients
  <2>. QED BY <2>1 DEF OnTime
<1>9. CASE Lock \/ Test \/ Timeout \/ WakeSpuriously \/ Relock \/ TakeExpired \/ NotExpired \/ Post
  BY <1>9 DEF Lock, Test, Timeout, WakeSpuriously, Relock, TakeExpired, NotExpired, Post
<1>. QED BY <1>2, <1>3, <1>4, <1>5, <1>6, <1>7, <1>8, <1>9 DEF Next, run

\* run() never sleeps past the first deadline with nobody about to wake it: the
\* notification of postDelayed() is sent after the mutex was released, and still
\* none that run() needs is lost, whatever is removed, cleared or scheduled
\* between run()'s look at the schedule and its wait.
THEOREM NoNotificationIsLost == Spec => []OnTime
<1>1. Init => OnTime
  BY DEF Init, OnTime
<1>. QED BY <1>1, OnTimeStep, DelayedInit, DelayedStep, PTL DEF Spec
=============================================================================
