------------------------ MODULE CommandHistoryProofs ------------------------
(***************************************************************************)
(* Proofs about CommandHistory, for every number of commands, every ring    *)
(* and every fault model: no session command is lost or repeated, and       *)
(* commands that were deferred together are replayed in order.              *)
(***************************************************************************)
EXTENDS CommandHistory, CameraControllerProofs, FiniteSetTheorems

\* The ids of the commands in the ring, on their way to the thread, and done with.
InRing == {deferred_events[i].arg : i \in 1 .. Len(deferred_events)}
InQueue == {Pending[i].arg : i \in PendingAt(SessionCommands)}
InServed == {served[i] : i \in 1 .. Len(served)}

\* Every id is somewhere, and whatever has an id was issued.
Known == /\ issued = InRing \cup InQueue \cup InServed \cup refused \cup overwritten
         /\ issued \subseteq 1 .. posted
         /\ served \in Seq(Int)

Paired == \A p \in batched : p[1] \in issued /\ p[2] \in issued

\* No id is in two places of one kind, or in places of two kinds.
Unique == /\ \A i, j \in 1 .. Len(deferred_events) :
               deferred_events[i].arg = deferred_events[j].arg => i = j
          /\ \A i, j \in PendingAt(SessionCommands) : Pending[i].arg = Pending[j].arg => i = j
          /\ \A i, j \in 1 .. Len(served) : served[i] = served[j] => i = j

Apart == /\ InRing \cap InQueue = {}
         /\ InServed \cap (InRing \cup InQueue) = {}
         /\ refused \cap (InRing \cup InQueue \cup InServed) = {}
         /\ overwritten \cap (InRing \cup InQueue \cup InServed \cup refused) = {}

\* As long as a and b, deferred together and a first, both wait, a is ahead: with
\* nothing but commands between them, so that no result can come between that
\* would let Idle serve b while a is still deferred.
RingOrder(a, b) == \A i, j \in 1 .. Len(deferred_events) :
                     deferred_events[i].arg = a /\ deferred_events[j].arg = b => i < j

QueueOrder(a, b) == \A i, j \in PendingAt(SessionCommands) : Pending[i].arg = a /\ Pending[j].arg = b =>
                      i < j /\ \A k \in i .. j : Pending[k].sig \in CommandSignals

RingFirst(a, b) == \A j \in PendingAt(SessionCommands) : a \in InRing /\ Pending[j].arg = b =>
                     state # "Idle" /\ \A k \in 1 .. j : Pending[k].sig \in CommandSignals

ServedOrder(a, b) == \A i, j \in 1 .. Len(served) : served[i] = a /\ served[j] = b => i < j

Ahead(a, b) == /\ RingOrder(a, b) /\ QueueOrder(a, b) /\ RingFirst(a, b) /\ ServedOrder(a, b)
               /\ ~ (a \in InQueue /\ b \in InRing)
               /\ b \in InServed => a \notin InRing \cup InQueue

InBatches == \A p \in batched : Ahead(p[1], p[2])

HistoryInv == IInv /\ Known /\ Paired /\ Unique /\ Apart /\ InBatches

----------------------------------------------------------------------------
\* What a handler does to the commands on their way to the thread, when it posts
\* none itself: the first is taken and the others move up.
LEMMA Shifted ==
  ASSUME TypeOK, TypeOK', NEW states, NEW sigs, Handle(states, sigs),
         \A i \in 1 .. Len(outbox') : outbox'[i].sig \notin SessionCommands
  PROVE  /\ Len(Pending) \in Nat /\ Len(Pending) >= 1 /\ Pending[1] = Head(eventList)
         /\ \A i \in PendingAt(SessionCommands)' :
              /\ i \in Nat /\ i >= 1 /\ i + 1 \in PendingAt(SessionCommands)
              /\ \A k \in 1 .. i : Pending'[k] = Pending[k + 1]
         /\ \A i \in PendingAt(SessionCommands) : i # 1 =>
              i - 1 \in PendingAt(SessionCommands)' /\ Pending'[i - 1] = Pending[i]
<1>1. /\ Pending \in Seq(Event) /\ Len(Pending) > 0 /\ Pending[1] = Head(eventList)
      /\ Len(Pending') = Len(Pending) - 1 + Len(outbox')
      /\ \A i \in 1 .. Len(Pending') :
              Pending'[i] = IF i < Len(Pending) THEN Pending[i + 1]
                            ELSE outbox'[i - Len(Pending) + 1]
  BY Take
<1>2. Len(Pending) \in Nat /\ Len(outbox') \in Nat
  BY <1>1 DEF TypeOK
<1>3. \A i \in PendingAt(SessionCommands)' : i + 1 \in PendingAt(SessionCommands)
  BY Shift
<1>4. ASSUME NEW i \in PendingAt(SessionCommands)'
      PROVE  /\ i \in Nat /\ i >= 1
             /\ \A k \in 1 .. i : Pending'[k] = Pending[k + 1]
  <2>1. i \in 1 .. Len(Pending') /\ i + 1 \in 1 .. Len(Pending)
    BY <1>3 DEF PendingAt
  <2>. QED BY <1>1, <1>2, <2>1
<1>5. ASSUME NEW i \in PendingAt(SessionCommands), i # 1
      PROVE  i - 1 \in PendingAt(SessionCommands)' /\ Pending'[i - 1] = Pending[i]
  <2>1. i \in 1 .. Len(Pending) /\ Pending[i].sig \in SessionCommands
    BY DEF PendingAt
  <2>2. i - 1 \in 1 .. Len(Pending') /\ i - 1 < Len(Pending) /\ (i - 1) + 1 = i
    BY <1>1, <1>2, <1>5, <2>1
  <2>3. Pending'[i - 1] = Pending[i]
    BY <1>1, <2>2
  <2>. QED BY <2>1, <2>2, <2>3 DEF PendingAt
<1>. QED BY <1>1, <1>2, <1>3, <1>4, <1>5

\* The ids on their way, then.
TakenId == IF Pending[1].sig \in SessionCommands THEN {Pending[1].arg} ELSE {}

LEMMA ShiftedQueue ==
  ASSUME TypeOK, TypeOK', Unique, NEW states, NEW sigs, Handle(states, sigs),
         \A i \in 1 .. Len(outbox') : outbox'[i].sig \notin SessionCommands
  PROVE  /\ InQueue' = InQueue \ TakenId /\ TakenId \subseteq InQueue
         /\ \A i, j \in PendingAt(SessionCommands)' : Pending'[i].arg = Pending'[j].arg => i = j
         /\ \A a, b : QueueOrder(a, b) => QueueOrder(a, b)'
<1>. DEFINE At == PendingAt(SessionCommands)
            Next_ == PendingAt(SessionCommands)'
            P == Pending
            Q == Pending'
<1>1. /\ Len(P) \in Nat /\ Len(P) >= 1
      /\ \A i \in Next_ : /\ i \in Nat /\ i >= 1 /\ i + 1 \in At
                           /\ \A k \in 1 .. i : Q[k] = P[k + 1]
      /\ \A i \in At : i # 1 => i - 1 \in Next_ /\ Q[i - 1] = P[i]
  BY Shifted
<1>2. 1 \in At <=> P[1].sig \in SessionCommands
  BY <1>1 DEF PendingAt
<1>3. \A i, j \in At : P[i].arg = P[j].arg => i = j
  BY DEF Unique
<1>4. \A i \in Next_ : Q[i] = P[i + 1] /\ i + 1 # 1
  BY <1>1
<1>5. InQueue = {P[i].arg : i \in At} /\ InQueue' = {Q[i].arg : i \in Next_}
  BY DEF InQueue
<1>. HIDE DEF At, Next_, P, Q
<1>6. {Q[i].arg : i \in Next_} = {P[i].arg : i \in At} \ TakenId
  <2>1. ASSUME NEW i \in Next_ PROVE Q[i].arg \in {P[n].arg : n \in At} \ TakenId
    <3>1. Q[i].arg = P[i + 1].arg /\ i + 1 \in At /\ i + 1 # 1
      BY <1>1, <1>4
    <3>2. P[1].sig \in SessionCommands => Q[i].arg # P[1].arg
      BY <1>2, <1>3, <3>1
    <3>. QED BY <3>1, <3>2 DEF TakenId, P
  <2>2. ASSUME NEW i \in At, P[i].arg \notin TakenId PROVE P[i].arg \in {Q[n].arg : n \in Next_}
    <3>1. i # 1
      BY <1>2, <2>2 DEF TakenId, P
    <3>. QED BY <1>1, <3>1
  <2>. QED BY <2>1, <2>2
<1>7. TakenId \subseteq {P[i].arg : i \in At}
  BY <1>2 DEF TakenId, P
<1>8. \A i, j \in Next_ : Q[i].arg = Q[j].arg => i = j
  BY <1>1, <1>3, <1>4
<1>9. ASSUME NEW a, NEW b,
             \A i, j \in At : P[i].arg = a /\ P[j].arg = b => i < j /\ \A k \in i .. j : P[k].sig \in CommandSignals,
             NEW i \in Next_, NEW j \in Next_, Q[i].arg = a, Q[j].arg = b
      PROVE  i < j /\ \A k \in i .. j : Q[k].sig \in CommandSignals
  <2>1. /\ i \in Nat /\ j \in Nat /\ i >= 1 /\ i + 1 \in At /\ j + 1 \in At
        /\ P[i + 1].arg = a /\ P[j + 1].arg = b
    BY <1>1, <1>4, <1>9
  <2>2. i + 1 < j + 1 /\ \A k \in i + 1 .. j + 1 : P[k].sig \in CommandSignals
    BY <1>9, <2>1
  <2>3. ASSUME NEW k \in i .. j PROVE Q[k].sig \in CommandSignals
    <3>1. k \in 1 .. j /\ k + 1 \in i + 1 .. j + 1
      BY <2>1
    <3>2. Q[k] = P[k + 1]
      BY <1>1, <3>1
    <3>. QED BY <2>2, <3>1, <3>2
  <2>. QED BY <2>1, <2>2, <2>3
<1>10. \A a, b : QueueOrder(a, b) => QueueOrder(a, b)'
  BY <1>9 DEF QueueOrder, At, Next_, P, Q
<1>. QED BY <1>5, <1>6, <1>7, <1>8, <1>10 DEF Next_, Q

----------------------------------------------------------------------------
\* Idle serves a command: all its deferred fellows ahead of it are done with.
LEMMA Serve ==
  ASSUME IInv, TypeOK', Known, Unique, Apart, NEW sigs \in SUBSET SessionCommands,
         Handle({"Idle"}, sigs),
         \A i \in 1 .. Len(outbox') : outbox'[i].sig \notin SessionCommands,
         served' = Append(served, Head(eventList).arg),
         UNCHANGED <<deferred_events, issued, refused, overwritten>>
  PROVE  /\ Known' /\ Unique' /\ Apart'
         /\ \A a, b : Ahead(a, b) => Ahead(a, b)'
<1>. DEFINE x == Pending[1].arg
            n == Len(served)
<1>0. TypeOK
  BY DEF IInv
<1>1. /\ Pending[1] = Head(eventList) /\ Pending[1].sig \in SessionCommands
      /\ 1 \in PendingAt(SessionCommands) /\ Pending[1] \in Event
  BY <1>0, Take DEF PendingAt
<1>2. /\ InQueue' = InQueue \ {x} /\ x \in InQueue
      /\ \A i, j \in PendingAt(SessionCommands)' : Pending'[i].arg = Pending'[j].arg => i = j
      /\ \A a, b : QueueOrder(a, b) => QueueOrder(a, b)'
  BY <1>0, <1>1, ShiftedQueue DEF TakenId
<1>3. x \in Int
  BY <1>1 DEF Event
<1>4. /\ served' \in Seq(Int) /\ n \in Nat /\ Len(served') = n + 1 /\ served'[n + 1] = x
      /\ \A i \in 1 .. n : served'[i] = served[i]
  BY <1>1, <1>3 DEF Known
<1>5. InServed' = InServed \cup {x}
  <2>1. {served'[i] : i \in 1 .. n + 1} = {served[i] : i \in 1 .. n} \cup {x}
    BY <1>4
  <2>. QED BY <1>4, <2>1 DEF InServed
<1>6. InRing' = InRing
  BY DEF InRing
<1>7. x \notin InServed
  BY <1>2 DEF Apart
<1>. HIDE DEF x
<1>8. Known'
  <2>1. issued' = (InRing \cup InQueue \cup InServed \cup refused \cup overwritten)'
    BY <1>2, <1>5, <1>6 DEF Known
  <2>. QED BY <1>4, <2>1 DEF Known, Handle
<1>9. Apart'
  BY <1>2, <1>5, <1>6 DEF Apart
<1>10. Unique'
  <2>1. \A i \in 1 .. n : served[i] # x
    BY <1>7 DEF InServed
  <2>2. \A i, j \in 1 .. n : served[i] = served[j] => i = j
    BY DEF Unique
  <2>3. \A i, j \in 1 .. Len(served') : served'[i] = served'[j] => i = j
    BY <1>4, <2>1, <2>2
  <2>. QED BY <1>2, <2>3 DEF Unique
<1>11. ASSUME NEW a, NEW b, Ahead(a, b) PROVE Ahead(a, b)'
  <2>1. /\ RingOrder(a, b) /\ QueueOrder(a, b) /\ RingFirst(a, b) /\ ServedOrder(a, b)
        /\ ~ (a \in InQueue /\ b \in InRing) /\ (b \in InServed => a \notin InRing \cup InQueue)
    BY <1>11 DEF Ahead
  <2>2. RingOrder(a, b)' /\ QueueOrder(a, b)'
    BY <1>2, <2>1 DEF RingOrder
  <2>3. \A j \in PendingAt(SessionCommands) : ~ (a \in InRing /\ Pending[j].arg = b)
    BY <2>1 DEF RingFirst, Handle
  <2>4. ~ (a \in InRing /\ b \in InQueue)
    BY <2>3 DEF InQueue
  <2>5. RingFirst(a, b)'
    <3>1. \A j \in PendingAt(SessionCommands)' : Pending'[j].arg \in InQueue'
      BY DEF InQueue
    <3>. QED BY <1>2, <1>6, <2>4, <3>1 DEF RingFirst
  <2>6. ~ (a \in InQueue' /\ b \in InRing')
    BY <1>2, <1>6, <2>1
  <2>7. b = x => a \notin InQueue'
    <3>1. SUFFICES ASSUME b = x, a \in InQueue' PROVE FALSE
      OBVIOUS
    <3>a. a \in InQueue
      BY <1>2, <3>1
    <3>2. PICK i \in PendingAt(SessionCommands) : Pending[i].arg = a
      BY <3>a DEF InQueue
    <3>3. i < 1
      BY <1>1, <2>1, <3>1, <3>2 DEF QueueOrder, x
    <3>. QED BY <3>3 DEF PendingAt
  <2>8. b \in InServed' => a \notin InRing' \cup InQueue'
    BY <1>2, <1>5, <1>6, <2>1, <2>4, <2>7
  <2>9. ServedOrder(a, b)'
    <3>1. SUFFICES ASSUME NEW i \in 1 .. n + 1, NEW j \in 1 .. n + 1, served'[i] = a, served'[j] = b
                   PROVE  i < j
      BY <1>4 DEF ServedOrder
    <3>2. CASE i \in 1 .. n /\ j \in 1 .. n
      BY <1>4, <2>1, <3>1, <3>2 DEF ServedOrder
    <3>3. CASE i \in 1 .. n /\ j = n + 1
      BY <3>3
    <3>4. CASE i = n + 1 /\ j \in 1 .. n
      <4>1. a = x /\ served[j] = b
        BY <1>4, <3>1, <3>4
      <4>2. b \in InServed
        BY <3>4, <4>1 DEF InServed
      <4>. QED BY <1>2, <2>1, <4>1, <4>2
    <3>5. CASE i = n + 1 /\ j = n + 1
      <4>1. a = x /\ b = x
        BY <1>4, <3>1, <3>5
      <4>2. 1 < 1
        BY <1>1, <2>1, <4>1 DEF QueueOrder, x
      <4>. QED BY <4>2
    <3>. QED BY <1>4, <3>2, <3>3, <3>4, <3>5
  <2>. QED BY <2>2, <2>5, <2>6, <2>8, <2>9 DEF Ahead
<1>. QED BY <1>8, <1>9, <1>10, <1>11

\* Nothing else that a handler does without the ring, to a command for which
\* there is no session or to another event, lets anything overtake.
LEMMA PassBy ==
  ASSUME IInv, TypeOK', Known, Unique, Apart, NEW states, NEW sigs, Handle(states, sigs),
         \A i \in 1 .. Len(outbox') : outbox'[i].sig \notin SessionCommands,
         state' = "Idle" => state = "Idle" \/ Head(eventList).sig \notin CommandSignals,
         refused' = refused \cup TakenId,
         UNCHANGED <<deferred_events, issued, served, overwritten>>
  PROVE  /\ Known' /\ Unique' /\ Apart'
         /\ \A a, b : Ahead(a, b) => Ahead(a, b)'
<1>0. TypeOK
  BY DEF IInv
<1>1. /\ Len(Pending) \in Nat /\ Len(Pending) >= 1 /\ Pending[1] = Head(eventList)
      /\ \A i \in PendingAt(SessionCommands)' :
              /\ i \in Nat /\ i >= 1 /\ i + 1 \in PendingAt(SessionCommands)
              /\ \A k \in 1 .. i : Pending'[k] = Pending[k + 1]
  BY <1>0, Shifted
<1>2. /\ InQueue' = InQueue \ TakenId /\ TakenId \subseteq InQueue
      /\ \A i, j \in PendingAt(SessionCommands)' : Pending'[i].arg = Pending'[j].arg => i = j
      /\ \A a, b : QueueOrder(a, b) => QueueOrder(a, b)'
  BY <1>0, ShiftedQueue
<1>3. InRing' = InRing /\ InServed' = InServed
  BY DEF InRing, InServed
<1>. HIDE DEF TakenId
<1>4. Known'
  <2>1. issued' = (InRing \cup InQueue \cup InServed \cup refused \cup overwritten)'
    BY <1>2, <1>3 DEF Known
  <2>. QED BY <2>1 DEF Known, Handle
<1>5. Apart'
  BY <1>2, <1>3 DEF Apart
<1>6. Unique'
  BY <1>2 DEF Unique
<1>7. ASSUME NEW a, NEW b, Ahead(a, b) PROVE Ahead(a, b)'
  <2>1. /\ RingOrder(a, b) /\ QueueOrder(a, b) /\ RingFirst(a, b) /\ ServedOrder(a, b)
        /\ ~ (a \in InQueue /\ b \in InRing) /\ (b \in InServed => a \notin InRing \cup InQueue)
    BY <1>7 DEF Ahead
  <2>2. RingOrder(a, b)' /\ QueueOrder(a, b)' /\ ServedOrder(a, b)'
    BY <1>2, <2>1 DEF RingOrder, ServedOrder
  <2>3. RingFirst(a, b)'
    <3>1. SUFFICES ASSUME NEW j \in PendingAt(SessionCommands)', a \in InRing, Pending'[j].arg = b
                   PROVE  state' # "Idle" /\ \A k \in 1 .. j : Pending'[k].sig \in CommandSignals
      BY <1>3 DEF RingFirst
    <3>2. j \in Nat /\ j >= 1 /\ j + 1 \in PendingAt(SessionCommands) /\ Pending[j + 1].arg = b
      BY <1>1, <3>1
    <3>3. state # "Idle" /\ \A k \in 1 .. j + 1 : Pending[k].sig \in CommandSignals
      BY <2>1, <3>1, <3>2 DEF RingFirst
    <3>4. Head(eventList).sig \in CommandSignals
      BY <1>1, <3>2, <3>3
    <3>5. \A k \in 1 .. j : k + 1 \in 1 .. j + 1
      BY <3>2
    <3>. QED BY <1>1, <3>3, <3>4, <3>5
  <2>4. ~ (a \in InQueue' /\ b \in InRing') /\ (b \in InServed' => a \notin InRing' \cup InQueue')
    BY <1>2, <1>3, <2>1
  <2>. QED BY <2>2, <2>3, <2>4 DEF Ahead
<1>. QED BY <1>4, <1>5, <1>6, <1>7

\* A command that is deferred goes behind those that are, and a full ring loses
\* its oldest element.
Lost == IF Len(deferred_events) = Capacity THEN {Head(deferred_events).arg} ELSE {}

LEMMA OneMoreArg ==
  ASSUME NEW E, NEW m \in Nat, Len(E) = m + 1
  PROVE  {E[i].arg : i \in 1 .. Len(E)} = {E[i].arg : i \in 1 .. m} \cup {E[m + 1].arg}
<1>1. 1 .. Len(E) = (1 .. m) \cup {m + 1}
  OBVIOUS
<1>. QED BY <1>1, Zenon

LEMMA RingPut ==
  ASSUME TypeOK, Unique, NEW e \in Event,
         deferred_events' = Append(IF Len(deferred_events) = Capacity
                                   THEN Tail(deferred_events) ELSE deferred_events, e)
  PROVE  \E o \in {0, 1} :
           LET m == Len(deferred_events) - o
           IN  /\ m \in Nat /\ Len(deferred_events') = m + 1 /\ deferred_events'[m + 1] = e
               /\ \A i \in 1 .. m : /\ deferred_events'[i] = deferred_events[i + o]
                                    /\ i + o \in 1 .. Len(deferred_events)
               /\ InRing' = (InRing \ Lost) \cup {e.arg} /\ Lost \subseteq InRing
<1>. DEFINE D == deferred_events
            full == Len(D) = Capacity
            o == IF full THEN 1 ELSE 0
            R == IF full THEN Tail(D) ELSE D
            m == Len(D) - o
            E == deferred_events'
<1>1. D \in Seq(Event) /\ Len(D) \in Nat
  BY DEF TypeOK
<1>2. full => D # << >> /\ Len(D) >= 1 /\ Head(D) = D[1]
  BY <1>1, BoundsAssumption
<1>3. /\ R \in Seq(Event) /\ Len(R) = m /\ m \in Nat
      /\ \A i \in 1 .. m : R[i] = D[i + o] /\ i + o \in 1 .. Len(D)
  <2>1. CASE full
    BY <1>1, <1>2, <2>1
  <2>2. CASE ~full
    BY <1>1, <2>2
  <2>. QED BY <2>1, <2>2
<1>4. E = Append(R, e)
  OBVIOUS
<1>5. o \in {0, 1} /\ (full <=> o = 1)
  OBVIOUS
<1>6. m = Len(D) - o
  OBVIOUS
<1>7. Lost = IF full THEN {D[1].arg} ELSE {}
  BY <1>2 DEF Lost
<1>8. \A i, j \in 1 .. Len(D) : D[i].arg = D[j].arg => i = j
  BY DEF Unique
<1>9. InRing = {D[i].arg : i \in 1 .. Len(D)} /\ InRing' = {E[i].arg : i \in 1 .. Len(E)}
  BY DEF InRing
<1>. HIDE DEF R, E, D
<1>10. /\ Len(E) = m + 1 /\ E[m + 1] = e /\ \A i \in 1 .. m : E[i] = R[i]
  BY <1>3, <1>4
<1>11. full => 1 \in 1 .. Len(D)
  BY <1>1, <1>2
<1>. HIDE DEF full, o, m
<1>12. \A i \in 1 .. m : E[i] = D[i + o] /\ i + o \in 1 .. Len(D)
  BY <1>3, <1>10
<1>13. Lost \subseteq {D[i].arg : i \in 1 .. Len(D)}
  BY <1>7, <1>11
<1>14. {E[i].arg : i \in 1 .. Len(E)} = ({D[i].arg : i \in 1 .. Len(D)} \ Lost) \cup {e.arg}
  <2>1. ASSUME NEW i \in 1 .. m PROVE E[i].arg \in {D[j].arg : j \in 1 .. Len(D)} \ Lost
    <3>1. E[i].arg = D[i + o].arg /\ i + o \in 1 .. Len(D)
      BY <1>12
    <3>2. full => i + o # 1
      BY <1>5
    <3>3. full => D[i + o].arg # D[1].arg
      BY <1>8, <1>11, <3>1, <3>2
    <3>. QED BY <1>7, <3>1, <3>3
  <2>2. ASSUME NEW j \in 1 .. Len(D), D[j].arg \notin Lost PROVE D[j].arg \in {E[i].arg : i \in 1 .. m}
    <3>1. j # 1 \/ ~full
      BY <1>7, <2>2
    <3>2. j - o \in 1 .. m /\ (j - o) + o = j
      BY <1>1, <1>3, <1>5, <1>6, <3>1
    <3>3. E[j - o].arg = D[j].arg
      BY <1>12, <3>2
    <3>. QED BY <3>2, <3>3
  <2>3. {E[i].arg : i \in 1 .. Len(E)} = {E[i].arg : i \in 1 .. m} \cup {e.arg}
    <3>1. m \in Nat /\ Len(E) = m + 1
      BY <1>3, <1>10
    <3>2. E[m + 1].arg = e.arg
      BY <1>10
    <3>3. {E[i].arg : i \in 1 .. Len(E)} = {E[i].arg : i \in 1 .. m} \cup {E[m + 1].arg}
      BY <3>1, OneMoreArg
    <3>. QED BY <3>2, <3>3
  <2>4. {E[i].arg : i \in 1 .. m} \subseteq {D[i].arg : i \in 1 .. Len(D)} \ Lost
    BY <2>1
  <2>5. {D[i].arg : i \in 1 .. Len(D)} \ Lost \subseteq {E[i].arg : i \in 1 .. m}
    BY <2>2
  <2>6. {E[i].arg : i \in 1 .. m} = {D[i].arg : i \in 1 .. Len(D)} \ Lost
    BY <2>4, <2>5, Zenon
  <2>. QED BY <2>3, <2>6, Zenon
<1>15. /\ m \in Nat /\ Len(E) = m + 1 /\ E[m + 1] = e
       /\ \A i \in 1 .. m : E[i] = D[i + o] /\ i + o \in 1 .. Len(D)
       /\ InRing' = (InRing \ Lost) \cup {e.arg} /\ Lost \subseteq InRing
  BY <1>3, <1>9, <1>10, <1>12, <1>13, <1>14
<1>. QED BY <1>5, <1>6, <1>15 DEF D, E

LEMMA DeferIt ==
  ASSUME IInv, TypeOK', Known, Unique, Apart, Defer,
         overwritten' = overwritten \cup Lost,
         UNCHANGED <<issued, served, refused>>
  PROVE  /\ Known' /\ Unique' /\ Apart'
         /\ \A a, b : Ahead(a, b) => Ahead(a, b)'
<1>. DEFINE D == deferred_events
            E == deferred_events'
            x == Pending[1].arg
<1>0. TypeOK
  BY DEF IInv
<1>h. /\ Handle({"CaptureWired", "Downloading"}, SessionCommands) /\ outbox' = << >>
      /\ state' = state /\ state # "Idle"
  BY DEF Defer, Handle
<1>o. \A i \in 1 .. Len(outbox') : outbox'[i].sig \notin SessionCommands
  BY <1>h
<1>1. /\ Len(Pending) \in Nat /\ Len(Pending) >= 1 /\ Pending[1] = Head(eventList)
      /\ \A i \in PendingAt(SessionCommands)' :
              /\ i \in Nat /\ i >= 1 /\ i + 1 \in PendingAt(SessionCommands)
              /\ \A k \in 1 .. i : Pending'[k] = Pending[k + 1]
  BY <1>0, <1>h, <1>o, Shifted
<1>2. Pending[1] \in Event /\ Pending[1].sig \in SessionCommands /\ 1 \in PendingAt(SessionCommands)
  BY <1>0, <1>h, Take DEF PendingAt
<1>3. /\ InQueue' = InQueue \ {x} /\ x \in InQueue
      /\ \A i, j \in PendingAt(SessionCommands)' : Pending'[i].arg = Pending'[j].arg => i = j
      /\ \A a, b : QueueOrder(a, b) => QueueOrder(a, b)'
  BY <1>0, <1>2, <1>h, <1>o, ShiftedQueue DEF TakenId
<1>4. PICK o \in {0, 1} :
        LET m == Len(D) - o
        IN  /\ m \in Nat /\ Len(E) = m + 1 /\ E[m + 1] = Pending[1]
            /\ \A i \in 1 .. m : E[i] = D[i + o] /\ i + o \in 1 .. Len(D)
            /\ InRing' = (InRing \ Lost) \cup {x} /\ Lost \subseteq InRing
  BY <1>0, <1>1, <1>2, RingPut DEF Defer
<1>. DEFINE m == Len(D) - o
<1>5. /\ m \in Nat /\ Len(E) = m + 1 /\ E[m + 1].arg = x
      /\ \A i \in 1 .. m : E[i] = D[i + o] /\ i + o \in 1 .. Len(D)
  BY <1>4
<1>6. InRing' = (InRing \ Lost) \cup {x} /\ Lost \subseteq InRing /\ InServed' = InServed
  BY <1>4 DEF InServed
<1>. HIDE DEF m, E, x
<1>7. Known'
  <2>1. issued' = (InRing \cup InQueue \cup InServed \cup refused \cup overwritten)'
    BY <1>3, <1>6 DEF Known
  <2>. QED BY <1>h, <2>1 DEF Known, Handle
<1>8. Apart'
  BY <1>3, <1>6 DEF Apart
<1>9. Unique'
  <2>1. \A i, j \in 1 .. Len(D) : D[i].arg = D[j].arg => i = j
    BY DEF Unique
  <2>2. \A i \in 1 .. Len(D) : D[i].arg # x
    <3>1. x \notin InRing
      BY <1>3 DEF Apart
    <3>. QED BY <3>1 DEF InRing
  <2>3. ASSUME NEW i \in 1 .. Len(E), NEW j \in 1 .. Len(E), E[i].arg = E[j].arg PROVE i = j
    <3>1. CASE i \in 1 .. m /\ j \in 1 .. m
      <4>1. D[i + o].arg = D[j + o].arg /\ i + o \in 1 .. Len(D) /\ j + o \in 1 .. Len(D)
        BY <1>5, <2>3, <3>1
      <4>2. i + o = j + o
        BY <2>1, <4>1
      <4>. QED BY <3>1, <4>2
    <3>2. CASE i \in 1 .. m /\ j = m + 1
      BY <1>5, <2>2, <2>3, <3>2
    <3>3. CASE i = m + 1 /\ j \in 1 .. m
      BY <1>5, <2>2, <2>3, <3>3
    <3>. QED BY <1>5, <3>1, <3>2, <3>3
  <2>. QED BY <1>3, <2>3 DEF Unique, E
<1>10. ASSUME NEW a, NEW b, Ahead(a, b) PROVE Ahead(a, b)'
  <2>1. /\ RingOrder(a, b) /\ QueueOrder(a, b) /\ RingFirst(a, b) /\ ServedOrder(a, b)
        /\ ~ (a \in InQueue /\ b \in InRing) /\ (b \in InServed => a \notin InRing \cup InQueue)
    BY <1>10 DEF Ahead
  <2>2. QueueOrder(a, b)' /\ ServedOrder(a, b)'
    BY <1>3, <2>1 DEF ServedOrder
  <2>3. a = x => \A j \in PendingAt(SessionCommands) : Pending[j].arg = b =>
                   1 < j /\ \A k \in 1 .. j : Pending[k].sig \in CommandSignals
    BY <1>2, <2>1 DEF QueueOrder, x
  <2>4. RingOrder(a, b)'
    <3>1. SUFFICES ASSUME NEW i \in 1 .. Len(E), NEW j \in 1 .. Len(E), E[i].arg = a, E[j].arg = b
                   PROVE  i < j
      BY DEF RingOrder, E
    <3>2. CASE i \in 1 .. m /\ j \in 1 .. m
      <4>1. /\ D[i + o].arg = a /\ D[j + o].arg = b
            /\ i + o \in 1 .. Len(D) /\ j + o \in 1 .. Len(D)
        BY <1>5, <3>1, <3>2
      <4>2. i + o < j + o
        BY <2>1, <4>1 DEF RingOrder
      <4>. QED BY <3>2, <4>2
    <3>3. CASE i \in 1 .. m /\ j = m + 1
      BY <1>5, <3>3
    <3>4. CASE i = m + 1 /\ j \in 1 .. m
      <4>1. a = x /\ b = D[j + o].arg /\ j + o \in 1 .. Len(D)
        BY <1>5, <3>1, <3>4
      <4>2. b \in InRing
        BY <4>1 DEF InRing
      <4>. QED BY <1>3, <2>1, <4>1, <4>2
    <3>5. CASE i = m + 1 /\ j = m + 1
      <4>1. a = x /\ b = x
        BY <1>5, <3>1, <3>5
      <4>2. 1 < 1
        BY <1>2, <2>3, <4>1 DEF x
      <4>. QED BY <4>2
    <3>. QED BY <1>5, <3>2, <3>3, <3>4, <3>5
  <2>5. RingFirst(a, b)'
    <3>1. SUFFICES ASSUME NEW j \in PendingAt(SessionCommands)', a \in InRing', Pending'[j].arg = b
                   PROVE  \A k \in 1 .. j : Pending'[k].sig \in CommandSignals
      BY <1>h DEF RingFirst
    <3>2. j \in Nat /\ j >= 1 /\ j + 1 \in PendingAt(SessionCommands) /\ Pending[j + 1].arg = b
      BY <1>1, <3>1
    <3>3. \A k \in 1 .. j + 1 : Pending[k].sig \in CommandSignals
      <4>1. CASE a \in InRing
        BY <2>1, <3>2, <4>1 DEF RingFirst
      <4>2. CASE a = x
        BY <2>3, <3>2, <4>2
      <4>. QED BY <1>6, <3>1, <4>1, <4>2
    <3>4. \A k \in 1 .. j : k + 1 \in 1 .. j + 1
      BY <3>2
    <3>. QED BY <1>1, <3>3, <3>4
  <2>6. ~ (a \in InQueue' /\ b \in InRing')
    <3>1. SUFFICES ASSUME a \in InQueue', b \in InRing' PROVE FALSE
      OBVIOUS
    <3>2. a \in InQueue /\ b = x
      BY <1>3, <1>6, <2>1, <3>1
    <3>3. PICK i \in PendingAt(SessionCommands) : Pending[i].arg = a
      BY <3>2 DEF InQueue
    <3>4. i < 1
      BY <1>2, <2>1, <3>2, <3>3 DEF QueueOrder, x
    <3>. QED BY <3>4 DEF PendingAt
  <2>7. b \in InServed' => a \notin InRing' \cup InQueue'
    BY <1>3, <1>6, <2>1
  <2>. QED BY <2>2, <2>4, <2>5, <2>6, <2>7 DEF Ahead
<1>. QED BY <1>7, <1>8, <1>9, <1>10

\* Idle posts the deferred commands again, behind the errors it posts first: they
\* stay together, at f + 1 and on, and a result made way for them.
Replayed(f) ==
  /\ \A i \in PendingAt(SessionCommands)' :
       /\ i \in Nat /\ i >= 1
       /\ i <= f => /\ i + 1 \in PendingAt(SessionCommands)
                    /\ \A k \in 1 .. i : Pending'[k] = Pending[k + 1]
       /\ i > f => i - f \in 1 .. Len(deferred_events)
  /\ \A m \in 1 .. Len(deferred_events) :
       f + m \in PendingAt(SessionCommands)' /\ Pending'[f + m] = deferred_events[m]
  /\ \A i \in PendingAt(SessionCommands) :
       i \in Nat /\ i >= 2 /\ i - 1 \in PendingAt(SessionCommands)' /\ Pending'[i - 1] = Pending[i]

LEMMA ReplayQueue ==
  ASSUME IInv, TypeOK', NEW states, NEW sigs, Handle(states, sigs),
         Head(eventList).sig \notin CommandSignals,
         NEW w \in Seq(Event), \A i \in 1 .. Len(w) : w[i].sig = "GENERIC_ERROR",
         outbox' = w \o deferred_events
  PROVE  \E f \in Nat : Replayed(f)
<1>. DEFINE D == deferred_events
            P == Pending
            Q == Pending'
            f == Len(P) - 1 + Len(w)
<1>1. TypeOK /\ D \in Seq(Event) /\ Len(D) \in Nat /\ \A i \in 1 .. Len(D) : D[i].sig \in SessionCommands
  BY DEF IInv, TypeOK, DeferredCommands
<1>2. /\ P \in Seq(Event) /\ Len(P) > 0 /\ P[1] = Head(eventList) /\ Len(P) \in Nat
      /\ Len(Q) = Len(P) - 1 + Len(w \o D)
      /\ \A i \in 1 .. Len(Q) : Q[i] = IF i < Len(P) THEN P[i + 1] ELSE (w \o D)[i - Len(P) + 1]
  <2>1. /\ P \in Seq(Event) /\ Len(P) > 0 /\ P[1] = Head(eventList)
        /\ Len(Q) = Len(P) - 1 + Len(outbox')
        /\ \A i \in 1 .. Len(Q) : Q[i] = IF i < Len(P) THEN P[i + 1] ELSE outbox'[i - Len(P) + 1]
    BY <1>1, Take
  <2>2. Len(P) \in Nat
    BY <2>1
  <2>. HIDE DEF P, Q
  <2>. QED BY <2>1, <2>2
<1>3. /\ Len(w \o D) = Len(w) + Len(D) /\ Len(w) \in Nat
      /\ \A i \in 1 .. Len(w) + Len(D) : (w \o D)[i] = IF i <= Len(w) THEN w[i] ELSE D[i - Len(w)]
  BY <1>1, Concat
<1>4. 1 \notin PendingAt(SessionCommands)
  BY <1>2, SignalClasses DEF PendingAt
<1>. HIDE DEF P, Q, D
<1>5. f \in Nat
  BY <1>2, <1>3
<1>6. ASSUME NEW i \in PendingAt(SessionCommands)'
      PROVE  /\ i \in Nat /\ i >= 1
             /\ i <= f => i + 1 \in PendingAt(SessionCommands) /\ \A k \in 1 .. i : Q[k] = P[k + 1]
             /\ i > f => i - f \in 1 .. Len(D)
  <2>1. i \in 1 .. Len(Q) /\ Q[i].sig \in SessionCommands
    BY DEF PendingAt, Q
  <2>2. CASE i < Len(P)
    <3>1. i + 1 \in 1 .. Len(P) /\ P[i + 1] = Q[i] /\ i <= f /\ i >= 1 /\ i \in Nat
      <4>1. i + 1 \in 1 .. Len(P) /\ i >= 1 /\ i \in Nat /\ i <= Len(P) - 1
        BY <1>2, <2>1, <2>2
      <4>2. i <= f
        BY <1>2, <1>3, <4>1
      <4>. QED BY <1>2, <2>1, <2>2, <4>1, <4>2
    <3>2. i + 1 \in PendingAt(SessionCommands)
      BY <2>1, <3>1 DEF PendingAt, P
    <3>3. \A k \in 1 .. i : k \in 1 .. Len(Q) /\ k < Len(P)
      BY <1>2, <2>1, <2>2
    <3>. QED BY <1>2, <3>1, <3>2, <3>3
  <2>3. CASE ~ (i < Len(P))
    <3>. DEFINE n == i - Len(P) + 1
    <3>1. n \in 1 .. Len(w) + Len(D) /\ Q[i] = (w \o D)[n]
      BY <1>1, <1>2, <1>3, <2>1, <2>3
    <3>2. ~ (n <= Len(w))
      <4>1. SUFFICES ASSUME n <= Len(w) PROVE FALSE
        OBVIOUS
      <4>2. n \in 1 .. Len(w) /\ (w \o D)[n] = w[n]
        BY <1>3, <3>1, <4>1
      <4>3. Q[i].sig = "GENERIC_ERROR"
        BY <3>1, <4>2
      <4>. QED BY <2>1, <4>3 DEF SessionCommands
    <3>3. n > Len(w) /\ n <= Len(w) + Len(D) /\ n \in Int
      BY <1>1, <1>3, <3>1, <3>2
    <3>4. i - f \in 1 .. Len(D) /\ i > f /\ i \in Nat
      BY <1>1, <1>2, <1>3, <2>1, <3>3
    <3>5. i >= 1 /\ ~ (i <= f)
      <4>. HIDE DEF f
      <4>. QED BY <1>5, <2>1, <3>4
    <3>. HIDE DEF f
    <3>. QED BY <3>4, <3>5
  <2>. QED BY <2>2, <2>3
<1>7. ASSUME NEW m \in 1 .. Len(D) PROVE f + m \in PendingAt(SessionCommands)' /\ Q[f + m] = D[m]
  <2>. DEFINE n == Len(w) + m
  <2>1. f + m \in 1 .. Len(Q) /\ ~ (f + m < Len(P)) /\ (f + m) - Len(P) + 1 = n
    BY <1>1, <1>2, <1>3
  <2>2. Q[f + m] = (w \o D)[(f + m) - Len(P) + 1]
    BY <1>2, <2>1
  <2>3. n \in 1 .. Len(w) + Len(D) /\ ~ (n <= Len(w)) /\ n - Len(w) = m
    BY <1>1, <1>3
  <2>4. (w \o D)[n] = D[m]
    BY <1>3, <2>3
  <2>. QED BY <1>1, <2>1, <2>2, <2>4 DEF PendingAt, Q
<1>8. ASSUME NEW i \in PendingAt(SessionCommands)
      PROVE  i \in Nat /\ i >= 2 /\ i - 1 \in PendingAt(SessionCommands)' /\ Q[i - 1] = P[i]
  <2>1. i \in 1 .. Len(P) /\ P[i].sig \in SessionCommands /\ i # 1
    BY <1>4 DEF PendingAt, P
  <2>2. i \in Nat /\ i >= 2 /\ i - 1 \in 1 .. Len(Q) /\ i - 1 < Len(P) /\ (i - 1) + 1 = i
    BY <1>1, <1>2, <1>3, <2>1
  <2>3. Q[i - 1] = P[i]
    BY <1>2, <2>2
  <2>. QED BY <2>1, <2>2, <2>3 DEF PendingAt, Q
<1>. HIDE DEF f
<1>9. Replayed(f)
  BY <1>6, <1>7, <1>8 DEF Replayed, D, P, Q
<1>. QED BY <1>5, <1>9

LEMMA Replay ==
  ASSUME IInv, TypeOK', Known, Unique, Apart, NEW states, NEW sigs, Handle(states, sigs),
         Head(eventList).sig \notin CommandSignals,
         NEW w \in Seq(Event), \A i \in 1 .. Len(w) : w[i].sig = "GENERIC_ERROR",
         outbox' = w \o deferred_events, deferred_events' = << >>,
         UNCHANGED <<issued, served, refused, overwritten>>
  PROVE  /\ Known' /\ Unique' /\ Apart'
         /\ \A a, b : Ahead(a, b) => Ahead(a, b)'
<1>. DEFINE D == deferred_events
            P == Pending
            Q == Pending'
            At == PendingAt(SessionCommands)
            Then == PendingAt(SessionCommands)'
<1>a. PICK f \in Nat : Replayed(f)
  BY ReplayQueue
<1>b. \A i \in Then : /\ i \in Nat /\ i >= 1
                      /\ i <= f => i + 1 \in At /\ \A k \in 1 .. i : Q[k] = P[k + 1]
                      /\ i > f => i - f \in 1 .. Len(D)
  BY <1>a DEF Replayed
<1>c. \A m \in 1 .. Len(D) : f + m \in Then /\ Q[f + m] = D[m]
  BY <1>a DEF Replayed
<1>d. \A i \in At : i \in Nat /\ i >= 2 /\ i - 1 \in Then /\ Q[i - 1] = P[i]
  BY <1>a DEF Replayed
<1>2. Len(D) \in Nat /\ \A m \in 1 .. Len(D) : D[m].sig \in CommandSignals
  BY SignalClasses DEF IInv, TypeOK, DeferredCommands
<1>3. /\ \A i, j \in 1 .. Len(D) : D[i].arg = D[j].arg => i = j
      /\ \A i, j \in At : P[i].arg = P[j].arg => i = j
  BY DEF Unique
<1>4. /\ InRing = {D[i].arg : i \in 1 .. Len(D)} /\ InQueue = {P[i].arg : i \in At}
      /\ InQueue' = {Q[i].arg : i \in Then}
  BY DEF InRing, InQueue
<1>5. InRing' = {} /\ InServed' = InServed
  BY DEF InRing, InServed
<1>6. ~ (P[1].sig \in CommandSignals)
  <2>1. TypeOK
    BY DEF IInv
  <2>. QED BY <2>1, Take
<1>. HIDE DEF D, P, Q, At, Then
\* Where a command is, and where it comes from.
<1>7. ASSUME NEW i \in Then
      PROVE  /\ i \in Nat /\ i >= 1
             /\ i <= f => /\ i + 1 \in At /\ Q[i] = P[i + 1] /\ Q[i].arg \in InQueue
                          /\ \A k \in 1 .. i : Q[k] = P[k + 1]
             /\ i > f => i - f \in 1 .. Len(D) /\ Q[i] = D[i - f] /\ Q[i].arg \in InRing
  <2>1. /\ i \in Nat /\ i >= 1
        /\ i <= f => i + 1 \in At /\ \A k \in 1 .. i : Q[k] = P[k + 1]
        /\ i > f => i - f \in 1 .. Len(D)
    BY <1>b
  <2>2. i <= f => Q[i] = P[i + 1] /\ Q[i].arg \in InQueue
    BY <1>4, <2>1
  <2>3. ASSUME i > f PROVE Q[i] = D[i - f] /\ Q[i].arg \in InRing
    <3>1. Q[f + (i - f)] = D[i - f] /\ f + (i - f) = i /\ i - f \in 1 .. Len(D)
      BY <1>c, <2>1, <2>3
    <3>. QED BY <1>4, <3>1
  <2>. QED BY <2>1, <2>2, <2>3
<1>8. InQueue' = InQueue \cup InRing
  <2>1. \A i \in Then : Q[i].arg \in InQueue \cup InRing
    <3>1. \A i \in Then : i <= f \/ i > f
      BY <1>7
    <3>. QED BY <1>7, <3>1
  <2>2. \A i \in At : P[i].arg \in InQueue'
    BY <1>d, <1>4
  <2>3. \A i \in 1 .. Len(D) : D[i].arg \in InQueue'
    BY <1>c, <1>4
  <2>. QED BY <1>4, <2>1, <2>2, <2>3
<1>9. Known'
  <2>1. issued' = (InRing \cup InQueue \cup InServed \cup refused \cup overwritten)'
    BY <1>5, <1>8 DEF Known
  <2>. QED BY <2>1 DEF Known, Handle
<1>10. Apart'
  BY <1>5, <1>8 DEF Apart
<1>12. Unique'
  <2>1. ASSUME NEW i \in Then, NEW j \in Then, Q[i].arg = Q[j].arg PROVE i = j
    <3>1. CASE i <= f /\ j <= f
      <4>1. i \in Nat /\ j \in Nat /\ i + 1 \in At /\ j + 1 \in At /\ Q[i] = P[i + 1] /\ Q[j] = P[j + 1]
        BY <1>7, <3>1
      <4>2. i + 1 = j + 1
        BY <1>3, <2>1, <4>1
      <4>. QED BY <4>1, <4>2
    <3>2. CASE i > f /\ j > f
      <4>1. /\ i \in Nat /\ j \in Nat /\ i - f \in 1 .. Len(D) /\ j - f \in 1 .. Len(D)
            /\ Q[i] = D[i - f] /\ Q[j] = D[j - f]
        BY <1>7, <3>2
      <4>2. i - f = j - f
        BY <1>3, <2>1, <4>1
      <4>. QED BY <4>1, <4>2
    <3>3. CASE (i <= f /\ j > f) \/ (i > f /\ j <= f)
      <4>1. InRing \cap InQueue = {}
        BY DEF Apart
      <4>. QED BY <1>7, <2>1, <3>3, <4>1
    <3>4. i \in Nat /\ j \in Nat
      BY <1>7
    <3>. QED BY <3>1, <3>2, <3>3, <3>4
  <2>2. served' = served /\ deferred_events' = << >>
    OBVIOUS
  <2>3. \A i, j \in 1 .. Len(served) : served[i] = served[j] => i = j
    BY DEF Unique
  <2>. QED BY <2>1, <2>2, <2>3 DEF Unique, Then, Q
<1>13. ASSUME NEW a, NEW b, Ahead(a, b) PROVE Ahead(a, b)'
  <2>1. /\ RingOrder(a, b) /\ QueueOrder(a, b) /\ RingFirst(a, b) /\ ServedOrder(a, b)
        /\ ~ (a \in InQueue /\ b \in InRing) /\ (b \in InServed => a \notin InRing \cup InQueue)
    BY <1>13 DEF Ahead
  <2>2. \A i, j \in 1 .. Len(D) : D[i].arg = a /\ D[j].arg = b => i < j
    BY <2>1 DEF RingOrder, D
  <2>3. \A i, j \in At : P[i].arg = a /\ P[j].arg = b =>
          i < j /\ \A k \in i .. j : P[k].sig \in CommandSignals
    BY <2>1 DEF QueueOrder, At, P
  <2>4. ~ (a \in InRing /\ b \in InQueue)
    <3>1. \A j \in At : a \in InRing /\ P[j].arg = b => \A k \in 1 .. j : P[k].sig \in CommandSignals
      BY <2>1 DEF RingFirst, At, P
    <3>2. \A j \in At : 1 \in 1 .. j
      BY <1>d
    <3>. QED BY <1>4, <1>6, <3>1, <3>2
  <2>5. ASSUME NEW i \in Then, NEW j \in Then, Q[i].arg = a, Q[j].arg = b
        PROVE  i < j /\ \A k \in i .. j : Q[k].sig \in CommandSignals
    <3>0. i \in Nat /\ j \in Nat
      BY <1>7
    <3>1. CASE i <= f /\ j <= f
      <4>1. /\ i >= 1 /\ i + 1 \in At /\ j + 1 \in At /\ P[i + 1].arg = a /\ P[j + 1].arg = b
            /\ \A k \in 1 .. j : Q[k] = P[k + 1]
        BY <1>7, <2>5, <3>1
      <4>2. i + 1 < j + 1 /\ \A k \in i + 1 .. j + 1 : P[k].sig \in CommandSignals
        BY <2>3, <4>1
      <4>3. \A k \in i .. j : k \in 1 .. j /\ k + 1 \in i + 1 .. j + 1
        BY <3>0, <4>1
      <4>4. \A k \in i .. j : Q[k] = P[k + 1] /\ P[k + 1].sig \in CommandSignals
        BY <4>1, <4>2, <4>3
      <4>5. \A k \in i .. j : Q[k].sig \in CommandSignals
        BY <4>4
      <4>6. i < j
        BY <3>0, <4>2
      <4>. QED BY <4>5, <4>6
    <3>2. CASE i > f /\ j > f
      <4>1. i - f \in 1 .. Len(D) /\ j - f \in 1 .. Len(D) /\ D[i - f].arg = a /\ D[j - f].arg = b
        BY <1>7, <2>5, <3>2
      <4>2. i - f < j - f
        BY <2>2, <4>1
      <4>3. ASSUME NEW k \in i .. j PROVE Q[k].sig \in CommandSignals
        <5>1. k - f \in 1 .. Len(D) /\ f + (k - f) = k
          BY <1>2, <3>0, <3>2, <4>1
        <5>2. Q[k] = D[k - f]
          BY <1>c, <5>1
        <5>. QED BY <1>2, <5>1, <5>2
      <4>. QED BY <3>0, <4>2, <4>3
    <3>3. CASE i <= f /\ j > f
      <4>1. a \in InQueue /\ b \in InRing
        BY <1>7, <2>5, <3>3
      <4>. QED BY <2>1, <4>1
    <3>4. CASE i > f /\ j <= f
      <4>1. a \in InRing /\ b \in InQueue
        BY <1>7, <2>5, <3>4
      <4>. QED BY <2>4, <4>1
    <3>. QED BY <3>0, <3>1, <3>2, <3>3, <3>4
  <2>6. QueueOrder(a, b)'
    BY <2>5 DEF QueueOrder, Then, Q
  <2>7. RingOrder(a, b)' /\ ServedOrder(a, b)'
    <3>1. RingOrder(a, b)'
      BY DEF RingOrder
    <3>. QED BY <2>1, <3>1 DEF ServedOrder
  <2>8. RingFirst(a, b)'
    BY <1>5 DEF RingFirst
  <2>9. ~ (a \in InQueue' /\ b \in InRing') /\ (b \in InServed' => a \notin InRing' \cup InQueue')
    BY <1>5, <1>8, <2>1
  <2>. QED BY <2>6, <2>7, <2>8, <2>9 DEF Ahead
<1>. QED BY <1>9, <1>10, <1>12, <1>13

----------------------------------------------------------------------------
\* A client's command is put behind what is in the queue and ahead of what the
\* running handler has still to post: the k events before it keep their places.
Up(k, i) == IF i <= k THEN i ELSE i + 1
Down(k, i) == IF i <= k THEN i ELSE i - 1

Inserted(k, e) == /\ k + 1 \in 1 .. Len(Pending') /\ Pending'[k + 1] = e
                  /\ \A i \in 1 .. Len(Pending) :
                       Up(k, i) \in 1 .. Len(Pending') /\ Pending'[Up(k, i)] = Pending[i]
                  /\ \A i \in 1 .. Len(Pending') : i # k + 1 =>
                       Down(k, i) \in 1 .. Len(Pending) /\ Pending'[i] = Pending[Down(k, i)]

LEMMA CommandInserted ==
  ASSUME TypeOK, NEW e \in Event, eventList' = Append(eventList, e), outbox' = outbox
  PROVE  \E k \in Nat : Inserted(k, e)
<1>. DEFINE k == Len(eventList)
            n == Len(outbox)
            q == Append(eventList, e)
            P == Pending
            Q == Pending'
<1>1. /\ eventList \in Seq(Event) /\ outbox \in Seq(Event) /\ k \in Nat /\ n \in Nat
      /\ q \in Seq(Event) /\ Len(q) = k + 1 /\ q[k + 1] = e
      /\ \A i \in 1 .. k : q[i] = eventList[i]
  BY DEF TypeOK
<1>2. P = eventList \o outbox /\ Q = q \o outbox
  BY DEF Pending
<1>. HIDE DEF q, P, Q
<1>3. Len(P) = k + n /\ \A i \in 1 .. Len(P) : P[i] = IF i <= k THEN eventList[i] ELSE outbox[i - k]
  BY <1>1, <1>2, Concat
<1>4. /\ Len(Q) = k + 1 + n
      /\ \A i \in 1 .. Len(Q) : Q[i] = IF i <= k + 1 THEN q[i] ELSE outbox[i - (k + 1)]
  <2>1. /\ Len(q \o outbox) = Len(q) + Len(outbox)
        /\ \A i \in 1 .. Len(q \o outbox) :
             (q \o outbox)[i] = IF i <= Len(q) THEN q[i] ELSE outbox[i - Len(q)]
    BY <1>1, Concat
  <2>. QED BY <1>1, <1>2, <2>1
<1>. HIDE DEF k, n
<1>5. k + 1 \in 1 .. Len(Q) /\ Q[k + 1] = e
  BY <1>1, <1>4
<1>6. ASSUME NEW i \in 1 .. Len(P) PROVE Up(k, i) \in 1 .. Len(Q) /\ Q[Up(k, i)] = P[i]
  <2>1. CASE i <= k
    BY <1>1, <1>3, <1>4, <2>1 DEF Up
  <2>2. CASE ~ (i <= k)
    <3>1. i + 1 \in 1 .. Len(Q) /\ ~ (i + 1 <= k + 1) /\ (i + 1) - (k + 1) = i - k
      BY <1>1, <1>3, <1>4, <2>2
    <3>2. P[i] = outbox[i - k] /\ Q[i + 1] = outbox[(i + 1) - (k + 1)]
      BY <1>3, <1>4, <2>2, <3>1
    <3>. QED BY <2>2, <3>1, <3>2 DEF Up
  <2>. QED BY <2>1, <2>2
<1>7. ASSUME NEW i \in 1 .. Len(Q), i # k + 1 PROVE Down(k, i) \in 1 .. Len(P) /\ Q[i] = P[Down(k, i)]
  <2>1. CASE i <= k
    BY <1>1, <1>3, <1>4, <2>1 DEF Down
  <2>2. CASE ~ (i <= k)
    <3>1. i - 1 \in 1 .. Len(P) /\ ~ (i - 1 <= k) /\ ~ (i <= k + 1) /\ i - (k + 1) = (i - 1) - k
      BY <1>1, <1>3, <1>4, <1>7, <2>2
    <3>2. P[i - 1] = outbox[(i - 1) - k] /\ Q[i] = outbox[i - (k + 1)]
      BY <1>3, <1>4, <3>1
    <3>. QED BY <2>2, <3>1, <3>2 DEF Down
  <2>. QED BY <2>1, <2>2
<1>8. Inserted(k, e)
  BY <1>5, <1>6, <1>7 DEF Inserted, P, Q
<1>. QED BY <1>1, <1>8

LEMMA PostIt ==
  ASSUME IInv, TypeOK', Known, Unique, Apart, NEW sig \in CommandSignals,
         eventList' = Append(eventList, [sig |-> sig, arg |-> posted + 1]), posted' = posted + 1,
         UNCHANGED <<outbox, state, deferred_events, served, refused, overwritten>>,
         issued' = IF sig \in SessionCommands THEN issued \cup {posted + 1} ELSE issued
  PROVE  /\ Known' /\ Unique' /\ Apart'
         /\ \A a, b \in issued : Ahead(a, b) => Ahead(a, b)'
<1>. DEFINE P == Pending
            Q == Pending'
            At == PendingAt(SessionCommands)
            Then == PendingAt(SessionCommands)'
            x == posted + 1
            e == [sig |-> sig, arg |-> x]
            new == IF sig \in SessionCommands THEN {x} ELSE {}
<1>1. TypeOK /\ posted \in Nat
  BY DEF IInv, TypeOK
<1>2. e \in Event /\ e.sig = sig /\ e.arg = x
  BY <1>1 DEF Event
<1>3. PICK k \in Nat : Inserted(k, e)
  <2>. HIDE DEF e
  <2>1. eventList' = Append(eventList, e)
    BY DEF e
  <2>. QED BY <1>1, <1>2, <2>1, CommandInserted
<1>4. /\ k + 1 \in 1 .. Len(Q) /\ Q[k + 1].sig = sig /\ Q[k + 1].arg = x
  BY <1>2, <1>3 DEF Inserted
<1>5. \A i \in 1 .. Len(P) : Up(k, i) \in 1 .. Len(Q) /\ Q[Up(k, i)] = P[i]
  BY <1>3 DEF Inserted
<1>6. \A i \in 1 .. Len(Q) : i # k + 1 => Down(k, i) \in 1 .. Len(P) /\ Q[i] = P[Down(k, i)]
  BY <1>3 DEF Inserted
<1>7. Then = {i \in 1 .. Len(Q) : Q[i].sig \in SessionCommands} /\ At = {i \in 1 .. Len(P) : P[i].sig \in SessionCommands}
  BY DEF PendingAt
<1>8. /\ InQueue = {P[i].arg : i \in At} /\ InQueue' = {Q[i].arg : i \in Then}
      /\ InRing' = InRing /\ InServed' = InServed
  BY DEF InQueue, InRing, InServed
<1>9. \A i, j \in At : P[i].arg = P[j].arg => i = j
  BY DEF Unique
<1>10. x \notin issued /\ issued = InRing \cup InQueue \cup InServed \cup refused \cup overwritten
  BY <1>1 DEF Known
<1>. HIDE DEF P, Q, At, Then, x, e
<1>11. k + 1 \in Then <=> sig \in SessionCommands
  BY <1>4, <1>7
<1>12. \A i \in At : Up(k, i) \in Then /\ Q[Up(k, i)] = P[i]
  BY <1>5, <1>7
<1>13. \A i \in Then : i # k + 1 => Down(k, i) \in At /\ Q[i] = P[Down(k, i)]
  BY <1>6, <1>7
<1>14. \A i \in Then : i \in Nat /\ i >= 1 /\ i <= Len(Q)
  BY <1>7
<1>15. InQueue' = InQueue \cup new
  <2>1. \A i \in Then : Q[i].arg \in InQueue \cup new
    BY <1>4, <1>8, <1>11, <1>13
  <2>2. \A i \in At : P[i].arg \in InQueue'
    BY <1>8, <1>12
  <2>3. new \subseteq InQueue'
    BY <1>4, <1>8, <1>11
  <2>. QED BY <1>8, <2>1, <2>2, <2>3
<1>16. issued' = issued \cup new /\ new \cap issued = {} /\ new \subseteq {posted + 1}
  BY <1>10 DEF x
<1>. HIDE DEF new
<1>17. Known'
  <2>1. issued' = (InRing \cup InQueue \cup InServed \cup refused \cup overwritten)'
    BY <1>8, <1>10, <1>15, <1>16
  <2>2. issued' \subseteq 1 .. posted'
    BY <1>1, <1>16 DEF Known
  <2>. QED BY <2>1, <2>2 DEF Known
<1>18. Apart'
  <2>1. new \cap (InRing \cup InQueue \cup InServed \cup refused \cup overwritten) = {}
    BY <1>10, <1>16
  <2>. QED BY <1>8, <1>15, <2>1 DEF Apart
<1>19. \A i \in Then : i # k + 1 => Q[i].arg \in issued
  BY <1>8, <1>10, <1>13
<1>20. \A i, j \in Then : i # k + 1 /\ j # k + 1 /\ Down(k, i) = Down(k, j) => i = j
  BY <1>14 DEF Down
<1>21. Unique'
  <2>1. \A i, j \in Then : Q[i].arg = Q[j].arg => i = j
    BY <1>4, <1>9, <1>10, <1>13, <1>19, <1>20
  <2>. QED BY <2>1 DEF Unique, Then, Q
<1>22. ASSUME NEW a \in issued, NEW b \in issued, Ahead(a, b) PROVE Ahead(a, b)'
  <2>1. /\ RingOrder(a, b) /\ QueueOrder(a, b) /\ RingFirst(a, b) /\ ServedOrder(a, b)
        /\ ~ (a \in InQueue /\ b \in InRing) /\ (b \in InServed => a \notin InRing \cup InQueue)
    BY <1>22 DEF Ahead
  <2>2. a \notin new /\ b \notin new
    BY <1>16
  <2>3. RingOrder(a, b)' /\ ServedOrder(a, b)'
    BY <2>1 DEF RingOrder, ServedOrder
  <2>4. ASSUME NEW j \in Then, Q[j].arg \in issued
        PROVE  j # k + 1 /\ Down(k, j) \in At /\ Q[j] = P[Down(k, j)] /\ j \in Nat /\ j >= 1
    BY <1>4, <1>10, <1>13, <1>14, <2>4
  <2>5. ASSUME NEW i \in Nat, i >= 1, i # k + 1, NEW j \in Then, j # k + 1, NEW c \in i .. j,
               \A d \in Down(k, i) .. Down(k, j) : P[d].sig \in CommandSignals
        PROVE  Q[c].sig \in CommandSignals
    <3>1. CASE c = k + 1
      BY <1>4, <3>1
    <3>2. CASE c # k + 1
      <4>1. c \in 1 .. Len(Q)
        BY <1>4, <1>14, <2>5
      <4>2. Q[c] = P[Down(k, c)]
        BY <1>6, <3>2, <4>1
      <4>3. Down(k, c) \in Down(k, i) .. Down(k, j)
        BY <1>14, <2>5, <3>2 DEF Down
      <4>. QED BY <2>5, <4>2, <4>3
    <3>. QED BY <3>1, <3>2
  <2>6. QueueOrder(a, b)'
    <3>1. SUFFICES ASSUME NEW i \in Then, NEW j \in Then, Q[i].arg = a, Q[j].arg = b
                   PROVE  i < j /\ \A c \in i .. j : Q[c].sig \in CommandSignals
      BY DEF QueueOrder, Then, Q
    <3>2. /\ i # k + 1 /\ Down(k, i) \in At /\ P[Down(k, i)].arg = a /\ i \in Nat /\ i >= 1
          /\ j # k + 1 /\ Down(k, j) \in At /\ P[Down(k, j)].arg = b /\ j \in Nat
      BY <2>4, <3>1
    <3>3. Down(k, i) < Down(k, j) /\ \A d \in Down(k, i) .. Down(k, j) : P[d].sig \in CommandSignals
      BY <2>1, <3>2 DEF QueueOrder, At, P
    <3>4. i < j
      BY <3>2, <3>3 DEF Down
    <3>. QED BY <2>5, <3>2, <3>3, <3>4
  <2>7. RingFirst(a, b)'
    <3>1. SUFFICES ASSUME NEW j \in Then, a \in InRing, Q[j].arg = b
                   PROVE  state # "Idle" /\ \A c \in 1 .. j : Q[c].sig \in CommandSignals
      BY <1>8 DEF RingFirst, Then, Q
    <3>2. j # k + 1 /\ Down(k, j) \in At /\ P[Down(k, j)].arg = b /\ j \in Nat
      BY <2>4, <3>1
    <3>3. state # "Idle" /\ \A d \in 1 .. Down(k, j) : P[d].sig \in CommandSignals
      BY <2>1, <3>1, <3>2 DEF RingFirst, At, P
    <3>4. ASSUME NEW c \in 1 .. j PROVE Q[c].sig \in CommandSignals
      <4>1. CASE c = k + 1
        BY <1>4, <4>1
      <4>2. CASE c # k + 1
        <5>1. c \in 1 .. Len(Q)
          BY <1>4, <1>14, <3>2
        <5>2. Q[c] = P[Down(k, c)]
          BY <1>6, <4>2, <5>1
        <5>3. Down(k, c) \in 1 .. Down(k, j)
          BY <3>2, <4>2 DEF Down
        <5>. QED BY <3>3, <5>2, <5>3
      <4>. QED BY <4>1, <4>2
    <3>. QED BY <3>3, <3>4
  <2>8. ~ (a \in InQueue' /\ b \in InRing') /\ (b \in InServed' => a \notin InRing' \cup InQueue')
    BY <1>8, <1>15, <2>1, <2>2
  <2>. QED BY <2>3, <2>6, <2>7, <2>8 DEF Ahead
<1>. QED BY <1>17, <1>18, <1>21, <1>22

\* A step that moves no command keeps everything.
LEMMA NothingMoves ==
  ASSUME Known, Unique, Apart, Pending' = Pending,
         UNCHANGED <<state, deferred_events, posted, issued, served, refused, overwritten>>
  PROVE  /\ Known' /\ Unique' /\ Apart'
         /\ \A a, b : Ahead(a, b) => Ahead(a, b)'
<1>1. PendingAt(SessionCommands)' = PendingAt(SessionCommands)
  BY DEF PendingAt
<1>2. InRing' = InRing /\ InQueue' = InQueue /\ InServed' = InServed
  BY <1>1 DEF InRing, InQueue, InServed
<1>3. Known' /\ Apart'
  BY <1>2 DEF Known, Apart
<1>4. Unique'
  BY <1>1 DEF Unique
<1>5. ASSUME NEW a, NEW b, Ahead(a, b) PROVE Ahead(a, b)'
  <2>1. (RingOrder(a, b) => RingOrder(a, b)') /\ (ServedOrder(a, b) => ServedOrder(a, b)')
    BY DEF RingOrder, ServedOrder
  <2>2. QueueOrder(a, b) => QueueOrder(a, b)'
    BY <1>1 DEF QueueOrder
  <2>3. RingFirst(a, b) => RingFirst(a, b)'
    BY <1>1, <1>2 DEF RingFirst
  <2>. QED BY <1>2, <1>5, <2>1, <2>2, <2>3 DEF Ahead
<1>. QED BY <1>3, <1>4, <1>5

\* The commands of the ring are ahead of each other in the order of the ring.
RingPairs == \A p \in OrderedPairs(deferred_events) :
               p[1] \in InRing /\ p[2] \in InRing /\ Ahead(p[1], p[2])

LEMMA NewPairs == TypeOK /\ Unique /\ Apart => RingPairs
<1>. SUFFICES ASSUME TypeOK, Unique, Apart
              PROVE  \A p \in OrderedPairs(deferred_events) :
                       p[1] \in InRing /\ p[2] \in InRing /\ Ahead(p[1], p[2])
  BY DEF RingPairs
<1>. DEFINE D == deferred_events
<1>1. SUFFICES ASSUME NEW p \in OrderedPairs(D)
               PROVE  p[1] \in InRing /\ p[2] \in InRing /\ Ahead(p[1], p[2])
  OBVIOUS
<1>2. PICK r \in (1 .. Len(D)) \X (1 .. Len(D)) : r[1] < r[2] /\ p = <<D[r[1]].arg, D[r[2]].arg>>
  BY <1>1 DEF OrderedPairs
<1>. DEFINE m == r[1]
            n == r[2]
<1>3. m \in 1 .. Len(D) /\ n \in 1 .. Len(D) /\ m < n /\ p[1] = D[m].arg /\ p[2] = D[n].arg
  BY <1>2
<1>. HIDE DEF m, n
<1>4. p[1] \in InRing /\ p[2] \in InRing
  BY <1>3 DEF InRing
<1>5. p[1] \notin InQueue \cup InServed /\ p[2] \notin InQueue \cup InServed
  BY <1>4 DEF Apart
<1>6. \A i \in 1 .. Len(D) : (D[i].arg = p[1] => i = m) /\ (D[i].arg = p[2] => i = n)
  BY <1>3 DEF Unique
<1>7. RingOrder(p[1], p[2])
  BY <1>3, <1>6 DEF RingOrder
<1>8. QueueOrder(p[1], p[2]) /\ RingFirst(p[1], p[2])
  <2>1. \A i \in PendingAt(SessionCommands) : Pending[i].arg # p[1] /\ Pending[i].arg # p[2]
    BY <1>5 DEF InQueue
  <2>. QED BY <2>1 DEF QueueOrder, RingFirst
<1>9. ServedOrder(p[1], p[2])
  BY <1>5 DEF ServedOrder, InServed
<1>. QED BY <1>4, <1>5, <1>7, <1>8, <1>9 DEF Ahead

\* They are in the next state too, where a step may have put them there.
LEMMA NewPairsNext == (TypeOK /\ Unique /\ Apart)' => RingPairs'
BY NewPairs, PTL

----------------------------------------------------------------------------
\* What a step has to keep for the commands, apart from the new pairs.
Kept == /\ Known' /\ Unique' /\ Apart'
        /\ \A a, b \in issued : Ahead(a, b) => Ahead(a, b)'

\* What the history records of a handler's step.
LEMMA HandlerRecords ==
  ASSUME TypeOK, TypeOK', HistoryNext, NEW states, NEW sigs, Handle(states, sigs)
  PROVE  /\ issued' = issued
         /\ TakenId = IF Head(eventList).sig \in SessionCommands THEN {Head(eventList).arg} ELSE {}
         /\ Head(eventList).sig \notin SessionCommands => UNCHANGED <<served, refused, overwritten>>
         /\ Head(eventList).sig \in SessionCommands =>
              /\ state = "Idle" => /\ served' = Append(served, Head(eventList).arg)
                                   /\ UNCHANGED <<refused, overwritten>>
              /\ state \in InConnected \ {"Idle"} => /\ overwritten' = overwritten \cup Lost
                                                     /\ UNCHANGED <<served, refused>>
              /\ state \notin InConnected => /\ refused' = refused \cup TakenId
                                             /\ UNCHANGED <<served, overwritten>>
<1>1. Pending[1] = Head(eventList)
  BY Take
<1>2. Takes <=> Head(eventList).sig \in SessionCommands
  BY DEF Takes, Handle
<1>3. ~Posts
  BY DEF Posts, Handle
<1>4. "Idle" \in InConnected
  BY DEF InConnected
<1>5. /\ issued' = Record(issued, posted', Posts)
      /\ served' = IF Takes /\ state = "Idle" THEN Append(served, Id) ELSE served
      /\ refused' = Record(refused, Id, Takes /\ state \notin InConnected)
      /\ overwritten' = Record(overwritten, Head(deferred_events).arg,
                               /\ Takes /\ state \in InConnected \ {"Idle"}
                               /\ Len(deferred_events) = Capacity)
  BY DEF HistoryNext
<1>6. issued' = issued
  BY <1>3, <1>5 DEF Record
<1>7. TakenId = IF Head(eventList).sig \in SessionCommands THEN {Head(eventList).arg} ELSE {}
  BY <1>1 DEF TakenId
<1>. QED BY <1>2, <1>4, <1>5, <1>6, <1>7, Zenon DEF Record, Id, Lost

\* A handler for an event that is no session command, and that leaves the ring alone.
LEMMA KeptByOther ==
  ASSUME IInv, TypeOK', Known, Unique, Apart, HistoryNext, NEW states, NEW sigs, Handle(states, sigs),
         Head(eventList).sig \notin SessionCommands,
         \A i \in 1 .. Len(outbox') : outbox'[i].sig \notin SessionCommands,
         state' = "Idle" => state = "Idle" \/ Head(eventList).sig \notin CommandSignals,
         UNCHANGED deferred_events
  PROVE  Kept
<1>1. /\ issued' = issued /\ TakenId = {} /\ UNCHANGED <<served, refused, overwritten>>
  BY HandlerRecords DEF IInv
<1>2. refused' = refused \cup TakenId
  BY <1>1
<1>. QED BY <1>1, <1>2, PassBy DEF Kept

\* Idle's handler of a session command.
LEMMA KeptByIdle ==
  ASSUME IInv, TypeOK', Known, Unique, Apart, HistoryNext, NEW sigs \in SUBSET SessionCommands,
         Handle({"Idle"}, sigs),
         \A i \in 1 .. Len(outbox') : outbox'[i].sig \notin SessionCommands,
         UNCHANGED deferred_events
  PROVE  Kept
<1>1. state = "Idle" /\ Head(eventList).sig \in SessionCommands
  BY DEF Handle
<1>2. /\ issued' = issued /\ served' = Append(served, Head(eventList).arg)
      /\ UNCHANGED <<refused, overwritten>>
  BY <1>1, HandlerRecords DEF IInv
<1>. QED BY <1>2, Serve DEF Kept

\* The entry of Idle, after a result: it posts the deferred commands again, or,
\* when the camera does not answer, leaves them where they are.
LEMMA KeptByEntry ==
  ASSUME IInv, TypeOK', Known, Unique, Apart, HistoryNext, NEW states, NEW sigs \in SUBSET CameraSignals,
         Handle(states, sigs), NEW before \in Seq(Event),
         \A i \in 1 .. Len(before) : before[i].sig = "GENERIC_ERROR", EnterIdle(before)
  PROVE  Kept
<1>1. Head(eventList).sig \notin CommandSignals /\ Head(eventList).sig \notin SessionCommands
  BY SignalClasses DEF Handle
<1>2. issued' = issued /\ UNCHANGED <<served, refused, overwritten>>
  BY <1>1, HandlerRecords DEF IInv
<1>3. PICK answer \in Responses, errors \in readStatus :
        /\ state' = "Idle"
        /\ IF isResponsive(answer)
           THEN outbox' = before \o errors \o deferred_events /\ deferred_events' = << >>
           ELSE outbox' = before /\ UNCHANGED deferred_events
  BY Zenon DEF EnterIdle
<1>4. CASE isResponsive(answer)
  <2>. DEFINE w == before \o errors
  <2>1. outbox' = w \o deferred_events /\ deferred_events' = << >>
    BY <1>3, <1>4, Zenon
  <2>2. errors \in Seq(Event) /\ \A i \in 1 .. Len(errors) : errors[i].sig = "GENERIC_ERROR"
    BY HelpersType
  <2>3. /\ w \in Seq(Event) /\ Len(w) = Len(before) + Len(errors)
        /\ \A i \in 1 .. Len(w) : w[i] = IF i <= Len(before) THEN before[i] ELSE errors[i - Len(before)]
    BY <2>2, Concat
  <2>. HIDE DEF w
  <2>4. \A i \in 1 .. Len(w) : w[i].sig = "GENERIC_ERROR"
    <3>1. Len(before) \in Nat /\ Len(errors) \in Nat
      BY <2>2
    <3>. QED BY <2>2, <2>3, <3>1
  <2>. QED BY <1>1, <1>2, <2>1, <2>3, <2>4, Replay DEF Kept
<1>5. CASE ~isResponsive(answer)
  <2>1. outbox' = before /\ UNCHANGED deferred_events
    BY <1>3, <1>5, Zenon
  <2>2. \A i \in 1 .. Len(outbox') : outbox'[i].sig \notin SessionCommands
    BY <2>1 DEF SessionCommands
  <2>. QED BY <1>1, <2>1, <2>2, KeptByOther
<1>. QED BY <1>4, <1>5

\* The entries of Error, and what every handler but Idle's entry posts, bring no
\* command.
LEMMA ErrorPosts ==
  ASSUME EnterError
  PROVE  state' = "Error" /\ \A i \in 1 .. Len(outbox') : outbox'[i].sig \notin SessionCommands
<1>1. <<Ev("DISCONNECTED")>>[1].sig = "DISCONNECTED" /\ Len(<<Ev("DISCONNECTED")>>) = 1
  BY DEF Ev
<1>2. state' = "Error" /\ (outbox' = <<Ev("DISCONNECTED")>> \/ outbox' = << >>)
  BY Zenon DEF EnterError
<1>. QED BY <1>1, <1>2 DEF SessionCommands

LEMMA ConnectingPosts ==
  ASSUME EnterConnecting
  PROVE  state' = "Connecting" /\ \A i \in 1 .. Len(outbox') : outbox'[i].sig \notin SessionCommands
<1>1. /\ <<Ev("CONNECTED")>>[1].sig = "CONNECTED" /\ Len(<<Ev("CONNECTED")>>) = 1
      /\ <<Ev("CONNECTION_ERROR")>>[1].sig = "CONNECTION_ERROR" /\ Len(<<Ev("CONNECTION_ERROR")>>) = 1
  BY DEF Ev
<1>2. state' = "Connecting" /\ (outbox' = <<Ev("CONNECTED")>> \/ outbox' = <<Ev("CONNECTION_ERROR")>>)
  BY Zenon DEF EnterConnecting
<1>. QED BY <1>1, <1>2 DEF SessionCommands

\* Every step of the controller keeps the commands in their places and in order.
LEMMA KeptByStep ==
  ASSUME HistoryInv, HistoryNext, TypeOK'
  PROVE  Kept
<1>1. IInv /\ Known /\ Unique /\ Apart /\ TypeOK /\ Next
  BY DEF HistoryInv, IInv, HistoryNext
<1>2. \A s \in {<< >>} : \A i \in 1 .. Len(s) : s[i].sig \notin SessionCommands
  OBVIOUS
<1>3. "GENERIC_ERROR" \notin SessionCommands
  BY DEF SessionCommands
<1>p. CASE PostCommand
  <2>1. PICK sig \in Commands : eventList' = Append(eventList, [sig |-> sig, arg |-> posted'])
    BY <1>p DEF PostCommand
  <2>2. sig \in CommandSignals /\ posted' = posted + 1 /\ posted \in Nat
    BY <1>1, <1>p, CommandsAssumption DEF PostCommand, TypeOK
  <2>. DEFINE e == [sig |-> sig, arg |-> posted + 1]
  <2>3. eventList' = Append(eventList, e) /\ eventList \in Seq(Event) /\ e \in Event /\ e.sig = sig
    BY <1>1, <2>1, <2>2 DEF TypeOK, Event
  <2>4. Len(eventList') = Len(eventList) + 1 /\ eventList'[Len(eventList')] = e
    <3>. HIDE DEF e
    <3>. QED BY <2>3
  <2>5. Posts <=> sig \in SessionCommands
    BY <2>2, <2>3, <2>4 DEF Posts, Last
  <2>6. ~Takes
    <3>1. SUFFICES ASSUME eventList # << >>, eventList' = Tail(eventList) PROVE FALSE
      BY DEF Takes
    <3>2. Len(eventList') = Len(eventList) - 1 /\ Len(eventList) \in Nat
      BY <2>3, <3>1
    <3>. QED BY <2>4, <3>2
  <2>7. issued' = IF sig \in SessionCommands THEN issued \cup {posted + 1} ELSE issued
    BY <2>2, <2>5 DEF HistoryNext, Record
  <2>8. UNCHANGED <<served, refused, overwritten>>
    BY <2>6 DEF HistoryNext, Record
  <2>9. UNCHANGED <<outbox, state, deferred_events>>
    BY <1>p DEF PostCommand
  <2>. QED BY <1>1, <2>2, <2>3, <2>7, <2>8, <2>9, PostIt DEF Kept
<1>4. ASSUME Pending' = Pending, UNCHANGED <<state, deferred_events, posted>>, ~Takes
      PROVE  Kept
  <2>1. UNCHANGED <<issued, served, refused, overwritten>>
    BY <1>4 DEF HistoryNext, Record, Posts
  <2>. QED BY <1>1, <1>4, <2>1, NothingMoves DEF Kept
<1>o. CASE PostOwn
  <2>1. Pending' = Pending
    BY <1>1, <1>o, PostOwnPending
  <2>2. ~Takes /\ UNCHANGED <<state, deferred_events, posted>>
    BY <1>o DEF PostOwn, Takes
  <2>. QED BY <1>4, <2>1, <2>2
<1>u. CASE Uncaught
  <2>1. eventList' = eventList /\ outbox' = outbox /\ UNCHANGED <<state, deferred_events, posted>>
    BY <1>u DEF Uncaught
  <2>2. Pending' = Pending
    BY <2>1 DEF Pending
  <2>3. ~Takes
    <3>1. SUFFICES ASSUME eventList # << >>, eventList = Tail(eventList) PROVE FALSE
      BY <2>1 DEF Takes
    <3>2. eventList \in Seq(Event)
      BY <1>1 DEF TypeOK
    <3>3. \A q \in Seq(Event) : q # << >> => Len(Tail(q)) = Len(q) - 1 /\ Len(q) \in Nat
      OBVIOUS
    <3>4. Len(Tail(eventList)) = Len(eventList) - 1 /\ Len(eventList) \in Nat
      BY <3>1, <3>2, <3>3
    <3>5. Len(Tail(eventList)) = Len(eventList)
      BY <3>1, Zenon
    <3>. QED BY <3>4, <3>5
  <2>. QED BY <1>4, <2>1, <2>2, <2>3
<1>5. CASE OnConnect
  <2>1. Handle({"Disconnected", "Error"}, {"CONNECT"}) /\ EnterConnecting /\ UNCHANGED deferred_events
    BY <1>5 DEF OnConnect
  <2>2. Head(eventList).sig \notin SessionCommands
    BY <2>1 DEF Handle, SessionCommands
  <2>. QED BY <1>1, <2>1, <2>2, ConnectingPosts, KeptByOther
<1>e. ASSUME NEW states, NEW sigs \in SUBSET CameraSignals, Handle(states, sigs), EnterError,
             UNCHANGED deferred_events
      PROVE  Kept
  <2>1. Head(eventList).sig \notin SessionCommands
    BY <1>e, SignalClasses DEF Handle
  <2>. QED BY <1>1, <1>e, <2>1, ErrorPosts, KeptByOther
<1>6. CASE OnConnectionError \/ OnCaptureError \/ OnGenericError
  <2>1. \A sig \in {"CONNECTION_ERROR", "CAPTURE_ERROR", "GENERIC_ERROR"} : {sig} \in SUBSET CameraSignals
    BY DEF CameraSignals, ConnectResults, CaptureResults
  <2>. QED BY <1>6, <1>e, <2>1 DEF OnConnectionError, OnCaptureError, OnGenericError
<1>7. CASE OnConnected
  <2>1. Handle({"Connecting"}, {"CONNECTED"})
    BY <1>7 DEF OnConnected
  <2>2. PICK e1 \in setConfig(camera_config), e2 \in readStatus, e3 \in readOptions :
          EnterIdle(e1 \o e2 \o e3)
    BY <1>7 DEF OnConnected
  <2>. DEFINE w == e1 \o e2 \o e3
  <2>3. w \in Seq(Event) /\ \A i \in 1 .. Len(w) : w[i].sig = "GENERIC_ERROR"
    BY <1>1, ConnectedErrors DEF TypeOK
  <2>4. EnterIdle(w) /\ {"CONNECTED"} \in SUBSET CameraSignals
    BY <2>2 DEF CameraSignals, ConnectResults
  <2>. HIDE DEF w
  <2>. QED BY <1>1, <2>1, <2>3, <2>4, KeptByEntry
<1>8. CASE OnCaptureSuccess \/ OnDownloadEnd
  <2>1. {"CAPTURE_SUCCESS"} \in SUBSET CameraSignals /\ DownloadResults \in SUBSET CameraSignals
    BY DEF CameraSignals, CaptureResults
  <2>2. << >> \in Seq(Event) /\ \A i \in 1 .. Len(<< >>) : << >>[i].sig = "GENERIC_ERROR"
    OBVIOUS
  <2>3. CASE OnCaptureSuccess
    BY <1>1, <2>1, <2>2, <2>3, KeptByEntry DEF OnCaptureSuccess
  <2>4. CASE OnDownloadEnd
    BY <1>1, <2>1, <2>2, <2>4, KeptByEntry DEF OnDownloadEnd
  <2>. QED BY <1>8, <2>3, <2>4
<1>9. ASSUME NEW sigs \in SUBSET SessionCommands, Handle({"Idle"}, sigs), UNCHANGED deferred_events,
             \A i \in 1 .. Len(outbox') : outbox'[i].sig \notin SessionCommands
      PROVE  Kept
  BY <1>1, <1>9, KeptByIdle
<1>10. CASE OnSetConfig
  <2>1. camera_config' \in Nat
    BY DEF TypeOK
  <2>2. PICK e1 \in setConfig(camera_config'), e2 \in readStatus : outbox' = e1 \o e2
    BY <1>10 DEF OnSetConfig
  <2>3. /\ e1 \in Seq(Event) /\ \A i \in 1 .. Len(e1) : e1[i].sig = "GENERIC_ERROR"
        /\ e2 \in Seq(Event) /\ \A i \in 1 .. Len(e2) : e2[i].sig = "GENERIC_ERROR"
    BY <2>1, HelpersType
  <2>4. /\ Len(e1 \o e2) = Len(e1) + Len(e2) /\ Len(e1) \in Nat /\ Len(e2) \in Nat
        /\ \A i \in 1 .. Len(e1 \o e2) : (e1 \o e2)[i] = IF i <= Len(e1) THEN e1[i] ELSE e2[i - Len(e1)]
    BY <2>3, Concat
  <2>5. \A i \in 1 .. Len(outbox') : outbox'[i].sig = "GENERIC_ERROR"
    BY <2>2, <2>3, <2>4
  <2>6. Handle({"Idle"}, {"SET_CONFIG"}) /\ UNCHANGED deferred_events /\ {"SET_CONFIG"} \in SUBSET SessionCommands
    BY <1>10 DEF OnSetConfig, SessionCommands
  <2>. QED BY <1>3, <1>9, <2>5, <2>6
<1>11. CASE OnGetStatus \/ OnGetOptions
  <2>1. \A i \in 1 .. Len(outbox') : outbox'[i].sig = "GENERIC_ERROR"
    BY <1>11, HelpersType DEF OnGetStatus, OnGetOptions
  <2>2. PICK sigs \in SUBSET SessionCommands : Handle({"Idle"}, sigs) /\ UNCHANGED deferred_events
    BY <1>11 DEF OnGetStatus, OnGetOptions, SessionCommands
  <2>. QED BY <1>3, <1>9, <2>1, <2>2
<1>12. CASE OnCaptureWired
  <2>1. PICK answer \in Responses, result \in captureWired :
          outbox' = IF isResponsive(answer) THEN result ELSE << >>
    BY <1>12 DEF OnCaptureWired, EnterBusy
  <2>2. \A i \in 1 .. Len(result) : result[i].sig \notin SessionCommands
    BY OperationsType DEF CaptureResults, SessionCommands
  <2>3. \A i \in 1 .. Len(outbox') : outbox'[i].sig \notin SessionCommands
    BY <1>2, <2>1, <2>2
  <2>4. Handle({"Idle"}, {"CAPTURE_WIRED"}) /\ UNCHANGED deferred_events /\ {"CAPTURE_WIRED"} \in SUBSET SessionCommands
    BY <1>12 DEF OnCaptureWired, SessionCommands
  <2>. QED BY <1>9, <2>3, <2>4
<1>13. CASE OnDownload
  <2>1. PICK answer \in Responses, result \in download :
          outbox' = IF isResponsive(answer) THEN result ELSE << >>
    BY <1>13 DEF OnDownload, EnterBusy
  <2>2. \A i \in 1 .. Len(result) : result[i].sig \notin SessionCommands
    BY OperationsType DEF DownloadResults, SessionCommands
  <2>3. \A i \in 1 .. Len(outbox') : outbox'[i].sig \notin SessionCommands
    BY <1>2, <2>1, <2>2
  <2>4. Handle({"Idle"}, {"DOWNLOAD"}) /\ UNCHANGED deferred_events /\ {"DOWNLOAD"} \in SUBSET SessionCommands
    BY <1>13 DEF OnDownload, SessionCommands
  <2>. QED BY <1>9, <2>3, <2>4
<1>14. CASE OnDisconnect
  <2>1. Handle({"Idle"}, {"DISCONNECT"}) /\ UNCHANGED <<outbox, deferred_events>> /\ state' # "Idle"
    BY <1>14 DEF OnDisconnect
  <2>2. Head(eventList).sig \notin SessionCommands /\ outbox' = << >>
    BY <2>1 DEF Handle, SessionCommands
  <2>. QED BY <1>1, <1>2, <2>1, <2>2, KeptByOther
<1>15. CASE Defer
  <2>1. Handle({"CaptureWired", "Downloading"}, SessionCommands)
    BY <1>15 DEF Defer
  <2>2. state \in InConnected \ {"Idle"} /\ Head(eventList).sig \in SessionCommands
    BY <2>1 DEF Handle, InConnected
  <2>3. /\ issued' = issued /\ overwritten' = overwritten \cup Lost /\ UNCHANGED <<served, refused>>
    BY <1>1, <2>1, <2>2, HandlerRecords
  <2>. QED BY <1>1, <1>15, <2>3, DeferIt DEF Kept
<1>16. CASE Ignore
  <2>. DEFINE sigs == (CommandSignals \cup CameraSignals) \ Reacts(state)
  <2>1. Handle(States, sigs) /\ UNCHANGED <<state, outbox, deferred_events>>
    BY <1>16 DEF Ignore
  <2>2. outbox' = << >> /\ Head(eventList).sig \in sigs
    BY <2>1 DEF Handle
  <2>3. CASE Head(eventList).sig \notin SessionCommands
    <3>. HIDE DEF sigs
    <3>. QED BY <1>1, <1>2, <2>1, <2>2, <2>3, KeptByOther
  <2>4. CASE Head(eventList).sig \in SessionCommands
    <3>1. state \notin InConnected
      <4>1. SUFFICES ASSUME state \in InConnected PROVE SessionCommands \subseteq Reacts(state)
        BY <2>2, <2>4
      <4>2. CASE state = "Idle"
        BY <4>2 DEF Reacts
      <4>3. CASE state = "CaptureWired"
        BY <4>3 DEF Reacts
      <4>4. CASE state = "Downloading"
        BY <4>4 DEF Reacts
      <4>. QED BY <4>1, <4>2, <4>3, <4>4 DEF InConnected
    <3>. HIDE DEF sigs
    <3>2. /\ issued' = issued /\ refused' = refused \cup TakenId /\ UNCHANGED <<served, overwritten>>
      BY <1>1, <2>1, <2>4, <3>1, HandlerRecords
    <3>3. state' = "Idle" => state = "Idle"
      BY <2>1
    <3>. QED BY <1>1, <1>2, <2>1, <2>2, <3>2, <3>3, PassBy DEF Kept
  <2>. QED BY <2>3, <2>4
<1>. QED BY <1>1, <1>p, <1>o, <1>u, <1>5, <1>6, <1>7, <1>8, <1>10, <1>11, <1>12, <1>13, <1>14,
           <1>15, <1>16 DEF Next, Run

----------------------------------------------------------------------------
LEMMA HistoryInvInit == HistoryInit => HistoryInv
<1>. SUFFICES ASSUME HistoryInit PROVE HistoryInv
  OBVIOUS
<1>1. /\ eventList = << >> /\ outbox = << >> /\ deferred_events = << >> /\ served = << >>
      /\ issued = {} /\ refused = {} /\ overwritten = {} /\ batched = {}
  BY DEF HistoryInit, Init
<1>2. IInv
  BY SafetyInit DEF HistoryInit
<1>3. Pending = << >>
  BY <1>1 DEF Pending
<1>4. PendingAt(SessionCommands) = {}
  BY <1>3 DEF PendingAt
<1>5. InRing = {} /\ InQueue = {} /\ InServed = {}
  BY <1>1, <1>4 DEF InRing, InQueue, InServed
<1>6. Known /\ Apart /\ Paired /\ InBatches
  BY <1>1, <1>5 DEF Known, Apart, Paired, InBatches
<1>7. Unique
  BY <1>1, <1>4 DEF Unique
<1>. QED BY <1>2, <1>6, <1>7 DEF HistoryInv

LEMMA HistoryInvStep == HistoryInv /\ [HistoryNext]_historyVars => HistoryInv'
<1>. SUFFICES ASSUME HistoryInv, [HistoryNext]_historyVars PROVE HistoryInv'
  OBVIOUS
<1>1. IInv'
  <2>1. [Next]_vars
    BY DEF HistoryNext, historyVars
  <2>. QED BY <2>1, SafetyStep DEF HistoryInv
<1>2. TypeOK'
  BY <1>1 DEF IInv
<1>3. CASE HistoryNext
  <2>1. Kept
    BY <1>2, <1>3, KeptByStep
  <2>2. Known' /\ Unique' /\ Apart'
    BY <2>1 DEF Kept
  <2>3. RingPairs'
    BY <1>2, <2>2, NewPairsNext
  <2>4. batched' = batched \cup OrderedPairs(deferred_events')
    BY <1>3 DEF HistoryNext
  <2>5. issued \subseteq issued'
    BY <1>3 DEF HistoryNext, Record
  <2>6. InRing' \subseteq issued'
    BY <2>2 DEF Known
  <2>7. \A p \in OrderedPairs(deferred_events') : p[1] \in issued' /\ p[2] \in issued' /\ Ahead(p[1], p[2])'
    BY <2>3, <2>6 DEF RingPairs
  <2>8. \A p \in batched : p[1] \in issued /\ p[2] \in issued /\ Ahead(p[1], p[2])'
    BY <2>1 DEF HistoryInv, Paired, InBatches, Kept
  <2>9. Paired' /\ InBatches'
    BY <2>4, <2>5, <2>7, <2>8 DEF Paired, InBatches
  <2>. QED BY <1>1, <2>2, <2>9 DEF HistoryInv
<1>4. CASE UNCHANGED historyVars
  <2>1. /\ UNCHANGED <<state, eventList, outbox, deferred_events, posted>>
        /\ UNCHANGED <<issued, served, refused, overwritten, batched>>
    BY <1>4 DEF historyVars, vars
  <2>2. Pending' = Pending
    BY <2>1 DEF Pending
  <2>3. /\ Known' /\ Unique' /\ Apart' /\ \A a, b : Ahead(a, b) => Ahead(a, b)'
    BY <2>1, <2>2, NothingMoves DEF HistoryInv
  <2>4. Paired' /\ InBatches'
    BY <2>1, <2>3 DEF HistoryInv, Paired, InBatches
  <2>. QED BY <1>1, <2>3, <2>4 DEF HistoryInv
<1>. QED BY <1>3, <1>4

\* The places of a command, by what is known of it.
LEMMA WhereItIs ==
  ASSUME IInv, Unique, NEW id
  PROVE  /\ id \notin InRing => Deferred(id) = {}
         /\ id \in InRing => \E i : Deferred(id) = {i}
         /\ id \notin InQueue => Queued(id) = {}
         /\ id \in InQueue => \E i : Queued(id) = {i}
         /\ id \notin InServed => Served(id) = {}
         /\ id \in InServed => \E i : Served(id) = {i}
<1>1. Deferred(id) = {i \in 1 .. Len(deferred_events) : deferred_events[i].arg = id}
  BY DEF Deferred, IsCommand, IInv, DeferredCommands
<1>2. Queued(id) = {i \in PendingAt(SessionCommands) : Pending[i].arg = id}
  BY DEF Queued, IsCommand, PendingAt
<1>3. (id \notin InRing => Deferred(id) = {}) /\ (id \in InRing => \E i : Deferred(id) = {i})
  <2>1. id \notin InRing => Deferred(id) = {}
    BY <1>1 DEF InRing
  <2>2. ASSUME id \in InRing PROVE \E i : Deferred(id) = {i}
    <3>1. PICK i \in 1 .. Len(deferred_events) : deferred_events[i].arg = id
      BY <2>2 DEF InRing
    <3>2. Deferred(id) = {i}
      BY <1>1, <3>1 DEF Unique
    <3>. QED BY <3>2
  <2>. QED BY <2>1, <2>2
<1>4. (id \notin InQueue => Queued(id) = {}) /\ (id \in InQueue => \E i : Queued(id) = {i})
  <2>1. id \notin InQueue => Queued(id) = {}
    BY <1>2 DEF InQueue
  <2>2. ASSUME id \in InQueue PROVE \E i : Queued(id) = {i}
    <3>1. PICK i \in PendingAt(SessionCommands) : Pending[i].arg = id
      BY <2>2 DEF InQueue
    <3>2. Queued(id) = {i}
      BY <1>2, <3>1 DEF Unique
    <3>. QED BY <3>2
  <2>. QED BY <2>1, <2>2
<1>5. (id \notin InServed => Served(id) = {}) /\ (id \in InServed => \E i : Served(id) = {i})
  <2>1. id \notin InServed => Served(id) = {}
    BY DEF InServed, Served
  <2>2. ASSUME id \in InServed PROVE \E i : Served(id) = {i}
    <3>1. PICK i \in 1 .. Len(served) : served[i] = id
      BY <2>2 DEF InServed
    <3>2. Served(id) = {i}
      BY <3>1 DEF Unique, Served
    <3>. QED BY <3>2
  <2>. QED BY <2>1, <2>2
<1>. QED BY <1>3, <1>4, <1>5

\* The invariant says where each command is.
LEMMA OnePlace ==
  ASSUME HistoryInv, NEW id \in issued
  PROVE  \E place : Places(id) = {place}
<1>. DEFINE D == Deferred(id)
            Q == Queued(id)
            S == Served(id)
            R == {id} \cap refused
            O == {id} \cap overwritten
<1>1. /\ IInv /\ Unique /\ Apart
      /\ id \in InRing \cup InQueue \cup InServed \cup refused \cup overwritten
  BY DEF HistoryInv, Known
<1>2. /\ id \notin InRing => D = {}
      /\ id \in InRing => \E i : D = {i}
      /\ id \notin InQueue => Q = {}
      /\ id \in InQueue => \E i : Q = {i}
      /\ id \notin InServed => S = {}
      /\ id \in InServed => \E i : S = {i}
  BY <1>1, WhereItIs
<1>3. /\ id \notin refused => R = {}
      /\ id \in refused => R = {id}
      /\ id \notin overwritten => O = {}
      /\ id \in overwritten => O = {id}
  OBVIOUS
<1>4. Places(id) = ({"deferred"} \X D) \cup ({"queued"} \X Q) \cup ({"served"} \X S)
                     \cup ({"refused"} \X R) \cup ({"overwritten"} \X O)
  BY DEF Places
<1>5. \A t, i : {t} \X {i} = {<<t, i>>} /\ {t} \X {} = {}
  OBVIOUS
<1>. HIDE DEF D, Q, S, R, O
<1>6. CASE id \in InRing
  <2>1. PICK i : D = {i}
    BY <1>2, <1>6
  <2>2. Q = {} /\ S = {} /\ R = {} /\ O = {}
    BY <1>1, <1>2, <1>3, <1>6 DEF Apart
  <2>3. Places(id) = {<<"deferred", i>>}
    BY <1>4, <1>5, <2>1, <2>2
  <2>. QED BY <2>3
<1>7. CASE id \in InQueue
  <2>1. PICK i : Q = {i}
    BY <1>2, <1>7
  <2>2. D = {} /\ S = {} /\ R = {} /\ O = {}
    BY <1>1, <1>2, <1>3, <1>7 DEF Apart
  <2>3. Places(id) = {<<"queued", i>>}
    BY <1>4, <1>5, <2>1, <2>2
  <2>. QED BY <2>3
<1>8. CASE id \in InServed
  <2>1. PICK i : S = {i}
    BY <1>2, <1>8
  <2>2. D = {} /\ Q = {} /\ R = {} /\ O = {}
    BY <1>1, <1>2, <1>3, <1>8 DEF Apart
  <2>3. Places(id) = {<<"served", i>>}
    BY <1>4, <1>5, <2>1, <2>2
  <2>. QED BY <2>3
<1>9. CASE id \in refused
  <2>1. R = {id}
    BY <1>3, <1>9
  <2>2. D = {} /\ Q = {} /\ S = {} /\ O = {}
    BY <1>1, <1>2, <1>3, <1>9 DEF Apart
  <2>3. Places(id) = {<<"refused", id>>}
    BY <1>4, <1>5, <2>1, <2>2
  <2>. QED BY <2>3
<1>10. CASE id \in overwritten
  <2>1. O = {id}
    BY <1>3, <1>10
  <2>2. D = {} /\ Q = {} /\ S = {} /\ R = {}
    BY <1>1, <1>2, <1>3, <1>10 DEF Apart
  <2>3. Places(id) = {<<"overwritten", id>>}
    BY <1>4, <1>5, <2>1, <2>2
  <2>. QED BY <2>3
<1>. QED BY <1>1, <1>6, <1>7, <1>8, <1>9, <1>10

\* Deferring, replaying, failing and reconnecting neither lose nor repeat a
\* session command, for any number of commands and any ring: each waits once, or
\* was served once, or was refused, or was overwritten in a full ring.
THEOREM CommandsExactlyOnce == HistorySpec => []ExactlyOnce
<1>1. HistoryInv => ExactlyOnce
  BY OnePlace, FS_Singleton DEF ExactlyOnce
<1>. QED BY <1>1, HistoryInvInit, HistoryInvStep, PTL DEF HistorySpec

\* Commands that were once deferred together are served in the order in which
\* they were deferred, whatever happens in between.
THEOREM BatchesInOrder == HistorySpec => []BatchOrder
<1>1. HistoryInv => BatchOrder
  <2>. SUFFICES ASSUME HistoryInv, NEW p \in batched, Served(p[2]) # {}
                PROVE  /\ Deferred(p[1]) = {} /\ Queued(p[1]) = {}
                       /\ \A i \in Served(p[1]), j \in Served(p[2]) : i < j
    BY DEF BatchOrder
  <2>1. IInv /\ Unique /\ Ahead(p[1], p[2])
    BY DEF HistoryInv, InBatches
  <2>2. p[2] \in InServed
    BY <2>1, WhereItIs
  <2>3. p[1] \notin InRing \cup InQueue /\ ServedOrder(p[1], p[2])
    BY <2>1, <2>2 DEF Ahead
  <2>4. Deferred(p[1]) = {} /\ Queued(p[1]) = {}
    BY <2>1, <2>3, WhereItIs
  <2>. QED BY <2>3, <2>4 DEF ServedOrder, Served
<1>. QED BY <1>1, HistoryInvInit, HistoryInvStep, PTL DEF HistorySpec
=============================================================================
