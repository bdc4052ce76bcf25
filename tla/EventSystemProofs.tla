-------------------------- MODULE EventSystemProofs --------------------------
(***************************************************************************)
(* Proofs about EventSystem, for every number of events: the broker and the *)
(* controller's thread, put together as in main.cpp, are still the broker   *)
(* and the event handler of their modules, so that what is proved of those  *)
(* holds here; results do not overtake their causes, the controller acts on *)
(* what the log has seen and meets events for the first time in the log's   *)
(* order, and an event it puts aside and posts again is never at two places.*)
(*                                                                          *)
(* The first part is about EventHandler alone: the pill of stop() is the    *)
(* last element the worker takes, and the worker is quiet once stop() has   *)
(* returned, although it reads the flag unsynchronised; no wakeup is lost,  *)
(* and while stop() waits the worker comes nearer to its end.               *)
(***************************************************************************)
EXTENDS EventSystem, TLAPS

USE MaxEventsAssumption, CapacityAssumption

\* Appending to a sequence and taking its first element, position by position.
LEMMA Appended ==
  ASSUME NEW S, NEW s \in Seq(S), NEW e \in S
  PROVE  /\ Append(s, e) \in Seq(S)
         /\ Len(Append(s, e)) = Len(s) + 1
         /\ \A i \in 1 .. Len(s) : Append(s, e)[i] = s[i]
         /\ Append(s, e)[Len(s) + 1] = e
OBVIOUS

LEMMA Behead ==
  ASSUME NEW S, NEW s \in Seq(S), s # << >>
  PROVE  /\ Len(s) >= 1 /\ Head(s) = s[1] /\ Head(s) \in S
         /\ Tail(s) \in Seq(S) /\ Len(Tail(s)) = Len(s) - 1
         /\ \A i \in 1 .. Len(s) - 1 : Tail(s)[i] = s[i + 1]
OBVIOUS

----------------------------------------------------------------------------
LEMMA TypeInit == Init => TypeOK
<1>. SUFFICES ASSUME Init PROVE TypeOK
  OBVIOUS
<1>1. queue \in Seq(0 .. MaxEvents) /\ taken \in Seq(0 .. MaxEvents) /\ current \in None .. MaxEvents
  BY DEF Init, None
<1>. QED BY <1>1 DEF Init, TypeOK

LEMMA PutType ==
  ASSUME TypeOK, NEW e \in 0 .. MaxEvents, put(e)
  PROVE  /\ queue' \in Seq(0 .. MaxEvents)
         /\ worker' \in {"none", "test", "get", "waiting", "handle", "done"}
BY DEF TypeOK, put

LEMMA GetType ==
  ASSUME TypeOK, Get
  PROVE  TypeOK'
<1>1. /\ Head(queue) \in 0 .. MaxEvents /\ Tail(queue) \in Seq(0 .. MaxEvents)
  BY DEF TypeOK, Get
<1>2. /\ queue' \in Seq(0 .. MaxEvents) /\ current' \in 0 .. MaxEvents
      /\ taken' \in Seq(0 .. MaxEvents)
  BY <1>1 DEF TypeOK, Get
<1>3. synced' \in BOOLEAN
  BY Zenon DEF TypeOK, Get
<1>. QED BY <1>2, <1>3 DEF TypeOK, Get, flags, None

LEMMA TypeStep == TypeOK /\ [Next]_vars => TypeOK'
<1>. SUFFICES ASSUME TypeOK, [Next]_vars PROVE TypeOK'
  OBVIOUS
<1>1. ASSUME NEW e \in 1 .. MaxEvents, postEvent(e) PROVE TypeOK'
  <2>1. e \in 0 .. MaxEvents /\ put(e)
    BY <1>1 DEF postEvent
  <2>. QED BY <1>1, <2>1, PutType DEF TypeOK, postEvent, flags
<1>2. CASE PutPill
  <2>1. Pill \in 0 .. MaxEvents /\ put(Pill)
    BY <1>2 DEF PutPill, Pill
  <2>. QED BY <1>2, <2>1, PutType DEF TypeOK, PutPill, flags
<1>3. CASE Get
  BY <1>3, GetType
<1>4. CASE Launch \/ Started \/ RaiseFlag \/ Join
  BY <1>4 DEF TypeOK, Launch, Started, RaiseFlag, Join, flags
<1>5. CASE Test
  BY <1>5 DEF TypeOK, Test, flags
<1>6. CASE Wait \/ WakeSpuriously \/ Handled
  BY <1>6 DEF TypeOK, Wait, WakeSpuriously, Handled, flags, None
<1>7. CASE UNCHANGED vars
  BY <1>7 DEF TypeOK, vars
<1>. QED BY <1>1, <1>2, <1>3, <1>4, <1>5, <1>6, <1>7 DEF Next, Finish, Work

\* The queue, the flags and both threads' places keep their types: get() never
\* takes the front of an empty list.
THEOREM HandlerTypes == Spec => []TypeOK
<1>. QED BY TypeInit, TypeStep, PTL DEF Spec

----------------------------------------------------------------------------
\* Where the owner is, what it has written and whether there is a thread.
Lifecycle == /\ started \/ owner = "launched" => worker # "none"
             /\ ~started /\ owner = "idle" => worker = "none"
             /\ owner = "launched" => ~started
             /\ owner \in {"stopping", "joining"} => started /\ should_stop /\ ~stopped
             /\ stopped => owner = "idle" /\ should_stop
             /\ should_stop => owner \in {"stopping", "joining"} \/ stopped

\* A pill is under way only while stop() waits for the thread, and only one is.
PillQueued == \A i \in 1 .. Len(queue) : queue[i] = Pill =>
                /\ owner = "joining" \/ stopped
                /\ \A j \in 1 .. Len(queue) : queue[j] = Pill => j = i

\* The worker that has taken it sees the flag and takes nothing more.
PillTaken == \A i \in 1 .. Len(taken) : taken[i] = Pill =>
               /\ i = Len(taken)
               /\ synced /\ should_stop
               /\ owner = "joining" \/ stopped
               /\ worker \in {"handle", "test", "done"}
               /\ \A j \in 1 .. Len(queue) : queue[j] # Pill

InHand == (worker = "handle") <=> (current # None)

HandlerInv == TypeOK /\ Lifecycle /\ PillQueued /\ PillTaken /\ InHand /\ QuietWhenStopped

----------------------------------------------------------------------------
LEMMA HandlerInvInit == Init => HandlerInv
<1>. SUFFICES ASSUME Init PROVE HandlerInv
  OBVIOUS
<1>1. Lifecycle /\ InHand /\ QuietWhenStopped
  BY DEF Init, Lifecycle, InHand, QuietWhenStopped
<1>2. PillQueued /\ PillTaken
  BY DEF Init, PillQueued, PillTaken
<1>. QED BY <1>1, <1>2, TypeInit DEF HandlerInv

\* What put() does to the queue, position by position.
LEMMA Put ==
  ASSUME TypeOK, NEW e \in 0 .. MaxEvents, put(e)
  PROVE  /\ Len(queue') = Len(queue) + 1 /\ Len(queue) \in Nat
         /\ \A i \in 1 .. Len(queue) : queue'[i] = queue[i]
         /\ queue'[Len(queue) + 1] = e
BY Appended DEF TypeOK, put

\* An event that is no pill, put by any thread, leaves the invariant alone.
LEMMA PutKeeps ==
  ASSUME HandlerInv, NEW e \in 1 .. MaxEvents, put(e),
         UNCHANGED <<flags, owner, current, synced, taken>>
  PROVE  Lifecycle' /\ PillQueued' /\ PillTaken' /\ InHand' /\ QuietWhenStopped'
<1>1. /\ Len(queue') = Len(queue) + 1 /\ Len(queue) \in Nat
      /\ \A i \in 1 .. Len(queue) : queue'[i] = queue[i]
      /\ queue'[Len(queue) + 1] # Pill
  BY Put DEF HandlerInv, Pill
<1>2. Lifecycle' /\ InHand' /\ QuietWhenStopped'
  BY Zenon DEF HandlerInv, Lifecycle, InHand, QuietWhenStopped, put, flags
<1>3. \A i \in 1 .. Len(queue') : queue'[i] = Pill => i \in 1 .. Len(queue) /\ queue[i] = Pill
  BY <1>1
<1>4. PillQueued'
  BY <1>3 DEF HandlerInv, PillQueued, flags
<1>5. PillTaken'
  <2>1. SUFFICES ASSUME NEW i \in 1 .. Len(taken), taken[i] = Pill
                 PROVE  /\ i = Len(taken) /\ synced /\ should_stop
                        /\ owner = "joining" \/ stopped
                        /\ worker' \in {"handle", "test", "done"}
                        /\ \A j \in 1 .. Len(queue') : queue'[j] # Pill
    BY DEF PillTaken, flags
  <2>2. worker' = worker
    BY <2>1 DEF HandlerInv, PillTaken, put
  <2>. QED BY <2>1, <2>2, <1>3 DEF HandlerInv, PillTaken
<1>. QED BY <1>2, <1>4, <1>5

\* The owner's pill is the first: there is none in the queue or taken.
LEMMA PillKeeps ==
  ASSUME HandlerInv, PutPill
  PROVE  Lifecycle' /\ PillQueued' /\ PillTaken' /\ InHand' /\ QuietWhenStopped'
<1>1. /\ owner = "stopping" /\ ~stopped /\ owner' = "joining" /\ ~stopped'
  BY DEF HandlerInv, Lifecycle, PutPill, flags
<1>2. /\ \A i \in 1 .. Len(queue) : queue[i] # Pill
      /\ \A i \in 1 .. Len(taken) : taken[i] # Pill
  BY <1>1 DEF HandlerInv, PillQueued, PillTaken
<1>3. /\ Len(queue') = Len(queue) + 1 /\ Len(queue) \in Nat
      /\ \A i \in 1 .. Len(queue) : queue'[i] = queue[i]
  <2>1. Pill \in 0 .. MaxEvents /\ put(Pill)
    BY DEF PutPill, Pill
  <2>. QED BY <2>1, Put DEF HandlerInv
<1>4. Lifecycle' /\ InHand' /\ QuietWhenStopped'
  BY <1>1, Zenon DEF HandlerInv, Lifecycle, InHand, QuietWhenStopped, PutPill, put, flags
<1>5. \A i \in 1 .. Len(queue') : queue'[i] = Pill => i = Len(queue')
  BY <1>2, <1>3
<1>6. PillQueued'
  BY <1>1, <1>5 DEF PillQueued
<1>7. PillTaken'
  BY <1>2 DEF PillTaken, PutPill
<1>. QED BY <1>4, <1>6, <1>7

\* get(): a pill in front is the only one, and taking it shows the flag.
LEMMA GetKeeps ==
  ASSUME HandlerInv, Get
  PROVE  Lifecycle' /\ PillQueued' /\ PillTaken' /\ InHand' /\ QuietWhenStopped'
<1>. DEFINE n == Len(taken)
<1>1. /\ Len(queue) \in Nat /\ Len(queue) >= 1 /\ Len(queue') = Len(queue) - 1
      /\ \A i \in 1 .. Len(queue') : queue'[i] = queue[i + 1]
      /\ current' = queue[1] /\ current' \in 0 .. MaxEvents
  BY Behead DEF HandlerInv, TypeOK, Get
<1>2. /\ n \in Nat /\ Len(taken') = n + 1
      /\ \A i \in 1 .. n : taken'[i] = taken[i]
      /\ taken'[n + 1] = queue[1]
  BY <1>1, Appended DEF HandlerInv, TypeOK, Get
<1>3. \A i \in 1 .. n : taken[i] # Pill
  BY DEF HandlerInv, PillTaken, Get
<1>4. ~stopped
  BY DEF HandlerInv, QuietWhenStopped, Get
<1>. HIDE DEF n
<1>5. InHand'
  BY <1>1 DEF InHand, Get, None
<1>6. Lifecycle' /\ QuietWhenStopped'
  BY <1>4, Zenon DEF HandlerInv, Lifecycle, QuietWhenStopped, Get, flags
<1>7. PillQueued'
  <2>1. SUFFICES ASSUME NEW i \in 1 .. Len(queue'), queue'[i] = Pill
                 PROVE  /\ owner = "joining" \/ stopped
                        /\ \A j \in 1 .. Len(queue') : queue'[j] = Pill => j = i
    BY DEF PillQueued, Get, flags
  <2>2. i + 1 \in 1 .. Len(queue) /\ queue[i + 1] = Pill
    BY <1>1, <2>1
  <2>3. ASSUME NEW j \in 1 .. Len(queue'), queue'[j] = Pill PROVE j = i
    <3>1. j + 1 \in 1 .. Len(queue) /\ queue[j + 1] = Pill
      BY <1>1, <2>3
    <3>2. j + 1 = i + 1
      BY <2>2, <3>1 DEF HandlerInv, PillQueued
    <3>. QED BY <3>2
  <2>. QED BY <2>2, <2>3 DEF HandlerInv, PillQueued
<1>8. PillTaken'
  <2>1. SUFFICES ASSUME NEW i \in 1 .. Len(taken'), taken'[i] = Pill
                 PROVE  /\ i = Len(taken') /\ synced' /\ should_stop
                        /\ owner = "joining" \/ stopped
                        /\ \A j \in 1 .. Len(queue') : queue'[j] # Pill
    BY DEF PillTaken, Get, flags
  <2>2. i = n + 1 /\ queue[1] = Pill
    BY <1>2, <1>3, <2>1
  <2>3. 1 \in 1 .. Len(queue)
    BY <1>1
  <2>4. owner = "joining" /\ \A j \in 1 .. Len(queue) : queue[j] = Pill => j = 1
    BY <1>4, <2>2, <2>3 DEF HandlerInv, PillQueued
  <2>5. synced' /\ should_stop
    BY <2>4 DEF HandlerInv, Lifecycle, Get
  <2>6. \A j \in 1 .. Len(queue') : queue'[j] # Pill
    BY <1>1, <2>4
  <2>. QED BY <1>2, <2>2, <2>4, <2>5, <2>6
<1>. QED BY <1>5, <1>6, <1>7, <1>8

\* The worker's other steps: the test behind the pill ends the thread.
LEMMA WorkKeeps ==
  ASSUME HandlerInv, Test \/ Wait \/ WakeSpuriously \/ Handled
  PROVE  Lifecycle' /\ PillQueued' /\ PillTaken' /\ InHand' /\ QuietWhenStopped'
<1>1. PillQueued'
  BY DEF HandlerInv, PillQueued, Test, Wait, WakeSpuriously, Handled, flags
<1>2. Lifecycle' /\ InHand' /\ QuietWhenStopped'
  <2>1. CASE Test
    <3>1. worker = "test" /\ worker' \in {"done", "get"}
      BY <2>1 DEF Test
    <3>. QED BY <2>1, <3>1, Zenon DEF HandlerInv, Lifecycle, InHand, QuietWhenStopped, Test, flags
  <2>2. CASE Wait \/ WakeSpuriously \/ Handled
    <3>1. /\ worker # "none" /\ worker' # "none" /\ worker # "done"
          /\ UNCHANGED <<flags, owner>>
      BY <2>2 DEF Wait, WakeSpuriously, Handled
    <3>2. InHand'
      BY <2>2 DEF HandlerInv, InHand, Wait, WakeSpuriously, Handled
    <3>. QED BY <3>1, <3>2, Zenon DEF HandlerInv, Lifecycle, QuietWhenStopped, flags
  <2>. QED BY <2>1, <2>2
<1>3. PillTaken'
  <2>1. SUFFICES ASSUME NEW i \in 1 .. Len(taken), taken[i] = Pill
                 PROVE  /\ i = Len(taken) /\ synced /\ should_stop
                        /\ owner = "joining" \/ stopped
                        /\ worker' \in {"handle", "test", "done"}
                        /\ \A j \in 1 .. Len(queue) : queue[j] # Pill
    BY DEF PillTaken, Test, Wait, WakeSpuriously, Handled, flags
  <2>2. /\ i = Len(taken) /\ synced /\ should_stop
        /\ owner = "joining" \/ stopped
        /\ worker \in {"handle", "test", "done"}
        /\ \A j \in 1 .. Len(queue) : queue[j] # Pill
    BY <2>1 DEF HandlerInv, PillTaken
  <2>3. worker' \in {"handle", "test", "done"}
    BY <2>2 DEF Test, Wait, WakeSpuriously, Handled, shouldStop
  <2>. QED BY <2>2, <2>3
<1>. QED BY <1>1, <1>2, <1>3

\* The owner's steps that touch no queue.
LEMMA OwnerKeeps ==
  ASSUME HandlerInv, Launch \/ Started \/ RaiseFlag \/ Join
  PROVE  Lifecycle' /\ PillQueued' /\ PillTaken' /\ InHand' /\ QuietWhenStopped'
<1>1. Lifecycle' /\ InHand' /\ QuietWhenStopped'
  <2>1. CASE Launch
    <3>1. worker = "none" /\ worker' = "test" /\ current = None
      BY <2>1 DEF HandlerInv, Lifecycle, InHand, Launch
    <3>. QED BY <2>1, <3>1 DEF HandlerInv, Lifecycle, InHand, QuietWhenStopped, Launch, flags
  <2>2. CASE Started \/ RaiseFlag
    BY <2>2 DEF HandlerInv, Lifecycle, InHand, QuietWhenStopped, Started, RaiseFlag
  <2>3. CASE Join
    <3>1. worker = "done" /\ current = None /\ started /\ should_stop
      BY <2>3 DEF HandlerInv, Lifecycle, InHand, Join
    <3>. QED BY <2>3, <3>1 DEF HandlerInv, Lifecycle, InHand, QuietWhenStopped, Join
  <2>. QED BY <2>1, <2>2, <2>3
<1>2. PillQueued'
  BY DEF HandlerInv, PillQueued, Launch, Started, RaiseFlag, Join, flags
<1>3. PillTaken'
  BY DEF HandlerInv, PillTaken, Launch, Started, RaiseFlag, Join, flags
<1>. QED BY <1>1, <1>2, <1>3

LEMMA HandlerInvStep == HandlerInv /\ [Next]_vars => HandlerInv'
<1>. SUFFICES ASSUME HandlerInv, [Next]_vars PROVE HandlerInv'
  OBVIOUS
<1>1. TypeOK'
  BY TypeStep DEF HandlerInv
<1>. SUFFICES Lifecycle' /\ PillQueued' /\ PillTaken' /\ InHand' /\ QuietWhenStopped'
  BY <1>1 DEF HandlerInv
<1>2. CASE \E e \in 1 .. MaxEvents : postEvent(e)
  BY <1>2, PutKeeps DEF postEvent
<1>3. CASE PutPill
  BY <1>3, PillKeeps
<1>4. CASE Get
  BY <1>4, GetKeeps
<1>5. CASE Test \/ Wait \/ WakeSpuriously \/ Handled
  BY <1>5, WorkKeeps
<1>6. CASE Launch \/ Started \/ RaiseFlag \/ Join
  BY <1>6, OwnerKeeps
<1>7. CASE UNCHANGED vars
  BY <1>7 DEF HandlerInv, Lifecycle, PillQueued, PillTaken, InHand, QuietWhenStopped, vars
<1>. QED BY <1>2, <1>3, <1>4, <1>5, <1>6, <1>7 DEF Next, Finish, Work

LEMMA HandlerInvHolds == Spec => []HandlerInv
<1>. QED BY HandlerInvInit, HandlerInvStep, PTL DEF Spec

\* No event is handled behind the pill (stop() and run() of ActiveObject.h and
\* EventHandler.h), for every number of events and whatever stale value of
\* should_stop the worker reads before it has taken the pill.
THEOREM PillEndsTheRun == Spec => []PillIsLast
<1>1. HandlerInv => PillIsLast
  BY DEF HandlerInv, PillTaken, PillIsLast
<1>. QED BY <1>1, HandlerInvHolds, PTL

\* When stop() has returned the worker has left run() and holds no event.
THEOREM StoppedIsQuiet == Spec => []QuietWhenStopped
<1>1. HandlerInv => QuietWhenStopped
  BY DEF HandlerInv
<1>. QED BY <1>1, HandlerInvHolds, PTL

----------------------------------------------------------------------------
\* Why stop() returns and no event stays behind.  No notification is lost: the
\* worker does not sleep while there is something in the queue (put() and get()
\* of SyncQueue.h).
NoLostWakeup == worker = "waiting" => queue = << >>

\* stop() waits for a worker that has still to meet the pill, or has met it.
HasPill(q) == \E i \in 1 .. Len(q) : q[i] = Pill
PillComing == owner = "joining" /\ worker # "done" => HasPill(queue) \/ HasPill(taken)

\* How far the worker is from the end of its loop: three steps for each element
\* up to the pill, and where it is in the loop.
Place(q) == IF HasPill(q) THEN CHOOSE i \in 1 .. Len(q) : q[i] = Pill ELSE 0
Round(w) == CASE w = "handle" -> 3 [] w = "test" -> 2 [] w = "get" -> 1 [] OTHER -> 0
StepsLeft == IF worker = "done" THEN 0 ELSE 3 * Place(queue) + Round(worker)

\* While stop() waits, the posts of others do not keep the worker longer, and each
\* of its own steps brings the end nearer.
ComesNearer == owner = "joining" => /\ StepsLeft \in Nat
                                    /\ StepsLeft' <= StepsLeft
                                    /\ Work => StepsLeft' < StepsLeft

\* While stop() waits the worker can take a step, or is done.
Awake == owner = "joining" => /\ worker \in {"test", "get", "handle", "done"}
                              /\ worker = "get" => queue # << >>

ProgressInv == HandlerInv /\ NoLostWakeup /\ PillComing

LEMMA PlaceIs ==
  ASSUME NEW q, NEW i \in 1 .. Len(q), q[i] = Pill, \A j \in 1 .. Len(q) : q[j] = Pill => j = i
  PROVE  Place(q) = i
BY DEF Place, HasPill

LEMMA NoPlace ==
  ASSUME NEW q, \A j \in 1 .. Len(q) : q[j] # Pill
  PROVE  Place(q) = 0 /\ ~HasPill(q)
BY DEF Place, HasPill

\* There is one pill at most, so its place is where it is.
LEMMA PlaceType ==
  ASSUME HandlerInv
  PROVE  Place(queue) \in Nat /\ (HasPill(queue) <=> Place(queue) # 0)
<1>1. CASE HasPill(queue)
  <2>1. PICK i \in 1 .. Len(queue) : queue[i] = Pill
    BY <1>1 DEF HasPill
  <2>2. Place(queue) = i
    BY <2>1, PlaceIs DEF HandlerInv, PillQueued
  <2>3. i \in Nat /\ i # 0
    OBVIOUS
  <2>. QED BY <1>1, <2>2, <2>3
<1>2. CASE ~HasPill(queue)
  BY <1>2, NoPlace DEF HasPill
<1>. QED BY <1>1, <1>2

\* Where the worker can be while stop() waits for it: never asleep.
LEMMA WhileJoining ==
  ASSUME ProgressInv, owner = "joining"
  PROVE  /\ worker \in {"test", "get", "handle", "done"}
         /\ worker = "get" => HasPill(queue)
         /\ worker = "test" /\ ~HasPill(queue) => shouldStop = {TRUE}
<1>1. worker \in {"test", "get", "waiting", "handle", "done"} /\ should_stop = TRUE
  BY DEF ProgressInv, HandlerInv, TypeOK, Lifecycle
<1>2. HasPill(taken) => worker \in {"handle", "test", "done"} /\ synced
  BY DEF ProgressInv, HandlerInv, PillTaken, HasPill
<1>3. worker = "waiting" => ~HasPill(queue)
  <2>1. ASSUME worker = "waiting" PROVE ~HasPill(queue)
    <3>1. queue = << >>
      BY <2>1 DEF ProgressInv, NoLostWakeup
    <3>. QED BY <3>1 DEF HasPill
  <2>. QED BY <2>1
<1>4. worker # "done" => HasPill(queue) \/ HasPill(taken)
  BY DEF ProgressInv, PillComing
<1>5. worker # "waiting" /\ (worker = "get" => HasPill(queue))
  BY <1>2, <1>3, <1>4
<1>6. worker = "test" /\ ~HasPill(queue) => shouldStop = {TRUE}
  BY <1>1, <1>2, <1>4 DEF shouldStop
<1>. QED BY <1>1, <1>5, <1>6

\* What each step does to the pill and its place.
LEMMA PutElsewhere ==
  ASSUME HandlerInv, NEW e \in 1 .. MaxEvents, put(e)
  PROVE  /\ Place(queue') = Place(queue) /\ (HasPill(queue') <=> HasPill(queue))
         /\ queue' # << >>
<1>1. /\ Len(queue') = Len(queue) + 1 /\ Len(queue) \in Nat
      /\ \A i \in 1 .. Len(queue) : queue'[i] = queue[i]
      /\ queue'[Len(queue) + 1] # Pill
  BY Put DEF HandlerInv, Pill
<1>2. \A i \in 1 .. Len(queue') : queue'[i] = Pill => i \in 1 .. Len(queue) /\ queue[i] = Pill
  BY <1>1
<1>3. queue' # << >>
  BY <1>1
<1>4. CASE HasPill(queue)
  <2>1. PICK i \in 1 .. Len(queue) : queue[i] = Pill
    BY <1>4 DEF HasPill
  <2>2. \A j \in 1 .. Len(queue) : queue[j] = Pill => j = i
    BY <2>1 DEF HandlerInv, PillQueued
  <2>3. i \in 1 .. Len(queue') /\ queue'[i] = Pill
    BY <1>1, <2>1
  <2>4. \A j \in 1 .. Len(queue') : queue'[j] = Pill => j = i
    BY <1>2, <2>2
  <2>5. Place(queue) = i /\ Place(queue') = i
    BY <2>1, <2>2, <2>3, <2>4, PlaceIs
  <2>. QED BY <1>3, <1>4, <2>3, <2>5 DEF HasPill
<1>5. CASE ~HasPill(queue)
  <2>1. \A i \in 1 .. Len(queue) : queue[i] # Pill
    BY <1>5 DEF HasPill
  <2>2. \A i \in 1 .. Len(queue') : queue'[i] # Pill
    BY <1>2, <2>1
  <2>. QED BY <1>3, <2>1, <2>2, NoPlace
<1>. QED BY <1>4, <1>5

LEMMA GetAdvances ==
  ASSUME HandlerInv, Get, HasPill(queue)
  PROVE  /\ Place(queue') = Place(queue) - 1
         /\ HasPill(queue') \/ HasPill(taken')
<1>1. /\ Len(queue) \in Nat /\ Len(queue) >= 1 /\ Len(queue') = Len(queue) - 1
      /\ \A i \in 1 .. Len(queue') : queue'[i] = queue[i + 1]
  BY Behead DEF HandlerInv, TypeOK, Get
<1>2. Len(taken) \in Nat /\ Len(taken') = Len(taken) + 1 /\ taken'[Len(taken) + 1] = queue[1]
  <2>1. Head(queue) \in 0 .. MaxEvents /\ Head(queue) = queue[1]
    BY Behead DEF HandlerInv, TypeOK, Get
  <2>. QED BY <2>1, Appended DEF HandlerInv, TypeOK, Get
<1>3. PICK i \in 1 .. Len(queue) : queue[i] = Pill
  BY DEF HasPill
<1>4. \A j \in 1 .. Len(queue) : queue[j] = Pill => j = i
  BY <1>3 DEF HandlerInv, PillQueued
<1>5. Place(queue) = i
  BY <1>3, <1>4, PlaceIs
<1>6. \A j \in 1 .. Len(queue') : queue'[j] = Pill => j = i - 1
  <2>1. SUFFICES ASSUME NEW j \in 1 .. Len(queue'), queue'[j] = Pill PROVE j = i - 1
    OBVIOUS
  <2>2. j + 1 \in 1 .. Len(queue) /\ queue[j + 1] = Pill
    BY <1>1, <2>1
  <2>3. j + 1 = i
    BY <1>4, <2>2
  <2>. QED BY <2>3
<1>7. CASE i = 1
  <2>1. \A j \in 1 .. Len(queue') : queue'[j] # Pill
    BY <1>6, <1>7
  <2>2. Place(queue') = 0
    BY <2>1, NoPlace
  <2>3. HasPill(taken')
    <3>1. Len(taken) + 1 \in 1 .. Len(taken') /\ taken'[Len(taken) + 1] = Pill
      BY <1>2, <1>3, <1>7
    <3>. QED BY <3>1 DEF HasPill
  <2>. QED BY <1>5, <1>7, <2>2, <2>3
<1>8. CASE i # 1
  <2>1. i - 1 \in 1 .. Len(queue') /\ queue'[i - 1] = Pill
    <3>1. i - 1 \in 1 .. Len(queue') /\ (i - 1) + 1 = i
      BY <1>1, <1>3, <1>8
    <3>. QED BY <1>1, <1>3, <3>1
  <2>2. Place(queue') = i - 1
    BY <1>6, <2>1, PlaceIs
  <2>. QED BY <1>5, <2>1, <2>2 DEF HasPill
<1>. QED BY <1>7, <1>8

LEMMA ProgressInit == Init => ProgressInv
BY HandlerInvInit DEF Init, ProgressInv, NoLostWakeup, PillComing

LEMMA ProgressStep == ProgressInv /\ [Next]_vars => ProgressInv'
<1>. SUFFICES ASSUME ProgressInv, [Next]_vars PROVE ProgressInv'
  OBVIOUS
<1>1. HandlerInv /\ HandlerInv'
  BY HandlerInvStep DEF ProgressInv
<1>. SUFFICES NoLostWakeup' /\ PillComing'
  BY <1>1 DEF ProgressInv
<1>2. ASSUME NEW e \in 1 .. MaxEvents, postEvent(e) PROVE NoLostWakeup' /\ PillComing'
  <2>1. put(e) /\ worker' # "waiting" /\ UNCHANGED <<owner, taken>>
    BY <1>2 DEF postEvent, put
  <2>2. HasPill(queue) => HasPill(queue')
    BY <1>1, <2>1, PutElsewhere
  <2>3. worker' # "done" => worker # "done"
    BY <2>1 DEF put
  <2>. QED BY <2>1, <2>2, <2>3 DEF ProgressInv, NoLostWakeup, PillComing
<1>3. CASE PutPill
  <2>1. worker' # "waiting"
    BY <1>3 DEF PutPill, put
  <2>2. HasPill(queue')
    <3>1. Pill \in 0 .. MaxEvents /\ put(Pill)
      BY <1>3 DEF PutPill, Pill
    <3>2. Len(queue) + 1 \in 1 .. Len(queue') /\ queue'[Len(queue) + 1] = Pill
      BY <1>1, <3>1, Put DEF HandlerInv
    <3>. QED BY <3>2 DEF HasPill
  <2>. QED BY <2>1, <2>2 DEF NoLostWakeup, PillComing
<1>4. CASE Get
  <2>1. worker = "get" /\ worker' = "handle" /\ owner' = owner
    BY <1>4 DEF Get
  <2>2. owner = "joining" => HasPill(queue)
    BY <2>1, WhileJoining
  <2>3. HasPill(queue) => HasPill(queue') \/ HasPill(taken')
    BY <1>1, <1>4, GetAdvances
  <2>. QED BY <2>1, <2>2, <2>3 DEF NoLostWakeup, PillComing
<1>5. CASE Test \/ Wait \/ WakeSpuriously \/ Handled
  <2>1. UNCHANGED <<queue, taken, owner>> /\ worker # "done"
    BY <1>5 DEF Test, Wait, WakeSpuriously, Handled
  <2>2. worker' = "waiting" => queue = << >>
    BY <1>5 DEF Test, Wait, WakeSpuriously, Handled
  <2>. QED BY <2>1, <2>2 DEF ProgressInv, NoLostWakeup, PillComing
<1>6. CASE Launch \/ Started \/ RaiseFlag \/ Join
  BY <1>6 DEF ProgressInv, NoLostWakeup, PillComing, Launch, Started, RaiseFlag, Join
<1>7. CASE UNCHANGED vars
  BY <1>7 DEF ProgressInv, NoLostWakeup, PillComing, vars
<1>. QED BY <1>2, <1>3, <1>4, <1>5, <1>6, <1>7 DEF Next, Finish, Work

LEMMA ProgressHolds == Spec => []ProgressInv
<1>. QED BY ProgressInit, ProgressStep, PTL DEF Spec

\* No notification of the queue's condition variable is lost: the worker does not
\* sleep while there is an event for it (the safety part of EventsTaken).
THEOREM NoWakeupIsLost == Spec => []NoLostWakeup
<1>1. ProgressInv => NoLostWakeup
  BY DEF ProgressInv
<1>. QED BY <1>1, ProgressHolds, PTL

LEMMA Nearer ==
  ASSUME ProgressInv, [Next]_vars
  PROVE  ComesNearer
<1>. SUFFICES ASSUME owner = "joining"
              PROVE  /\ StepsLeft \in Nat /\ StepsLeft' <= StepsLeft
                     /\ Work => StepsLeft' < StepsLeft
  BY DEF ComesNearer
<1>. DEFINE n == Place(queue)
            m == Place(queue')
<1>1. HandlerInv /\ n \in Nat /\ (HasPill(queue) <=> n # 0)
  BY PlaceType DEF ProgressInv
<1>2. /\ worker \in {"test", "get", "handle", "done"}
      /\ worker = "get" => HasPill(queue)
      /\ worker = "test" /\ ~HasPill(queue) => shouldStop = {TRUE}
  BY WhileJoining
<1>3. /\ worker = "done" => StepsLeft = 0
      /\ worker = "handle" => StepsLeft = 3 * n + 3
      /\ worker = "test" => StepsLeft = 3 * n + 2
      /\ worker = "get" => StepsLeft = 3 * n + 1
  BY DEF StepsLeft, Round
<1>4. /\ worker' = "done" => StepsLeft' = 0
      /\ worker' = "handle" => StepsLeft' = 3 * m + 3
      /\ worker' = "test" => StepsLeft' = 3 * m + 2
      /\ worker' = "get" => StepsLeft' = 3 * m + 1
  BY DEF StepsLeft, Round
<1>5. (queue' = queue => m = n) /\ (Get => m = n - 1)
  <2>1. Get => m = n - 1
    BY <1>1, <1>2, GetAdvances DEF Get
  <2>. QED BY <2>1
<1>. HIDE DEF n, m
<1>6. StepsLeft \in Nat
  BY <1>1, <1>2, <1>3
<1>7. CASE Work
  <2>1. CASE Get
    <3>1. worker = "get" /\ worker' = "handle" /\ m = n - 1
      BY <1>5, <2>1 DEF Get
    <3>. QED BY <1>1, <1>3, <1>4, <1>6, <3>1
  <2>2. CASE Test
    <3>1. worker = "test" /\ worker' \in {"done", "get"} /\ m = n
      BY <1>5, <2>2 DEF Test
    <3>. QED BY <1>1, <1>3, <1>4, <1>6, <3>1
  <2>3. CASE Handled
    <3>1. worker = "handle" /\ worker' = "test" /\ m = n
      BY <1>5, <2>3 DEF Handled
    <3>. QED BY <1>1, <1>3, <1>4, <1>6, <3>1
  <2>4. CASE Wait
    <3>1. worker = "get" /\ queue = << >>
      BY <2>4 DEF Wait
    <3>. QED BY <1>2, <3>1 DEF HasPill
  <2>. QED BY <1>7, <2>1, <2>2, <2>3, <2>4 DEF Work
<1>8. CASE ~Work
  <2>1. worker' = worker /\ m = n
    <3>1. ASSUME NEW e \in 1 .. MaxEvents, postEvent(e) PROVE worker' = worker /\ m = n
      <4>1. put(e)
        BY <3>1 DEF postEvent
      <4>2. worker' = worker
        BY <1>2, <4>1 DEF put
      <4>3. m = n
        BY <1>1, <4>1, PutElsewhere DEF m, n
      <4>. QED BY <4>2, <4>3
    <3>2. CASE Join
      BY <1>5, <3>2 DEF Join
    <3>3. CASE WakeSpuriously
      BY <1>2, <3>3 DEF WakeSpuriously
    <3>4. CASE UNCHANGED vars
      BY <1>5, <3>4 DEF vars
    <3>5. ~ (Launch \/ Started \/ RaiseFlag \/ PutPill)
      BY DEF Launch, Started, RaiseFlag, PutPill
    <3>. QED BY <1>8, <3>1, <3>2, <3>3, <3>4, <3>5 DEF Next, Finish
  <2>2. StepsLeft' = StepsLeft
    BY <1>2, <1>3, <1>4, <2>1
  <2>. QED BY <1>6, <1>8, <2>2
<1>. QED BY <1>6, <1>7, <1>8

\* stop() does not wait in vain: while it waits, the worker is awake and each of
\* its steps brings it nearer to the end of run(), and no post() of other threads
\* takes it further away (the safety part of StopReturns).
THEOREM StopComesNearer == Spec => []Awake /\ [][ComesNearer]_vars
<1>1. ProgressInv => Awake
  BY WhileJoining DEF Awake, HasPill
<1>2. ProgressInv /\ [Next]_vars => [ComesNearer]_vars
  BY Nearer
<1>. QED BY <1>1, <1>2, ProgressHolds, PTL DEF Spec

----------------------------------------------------------------------------

brokerProofs == INSTANCE EventBrokerProofs WITH posts <- posted, MaxPosts <- MaxEvents,
                                                MaxSubscriptions <- 3, NoThread <- "nobody"

BrokerInv == brokerProofs!BrokerInv

\* The assumptions of the broker hold of main.cpp's threads.
LEMMA BrokerBounds == brokerProofs!BoundsAssumption /\ brokerProofs!NoThreadAssumption
  BY DEF brokerProofs!BoundsAssumption, brokerProofs!NoThreadAssumption, Threads

\* The broker of EventSystem is the one the proofs are about.
LEMMA SameSubs == \A t : broker!Subs(t) = brokerProofs!Subs(t)
  BY DEF broker!Subs, brokerProofs!Subs

LEMMA SameState == /\ broker!Init <=> brokerProofs!Init
                   /\ broker!TypeOK <=> brokerProofs!TypeOK
                   /\ broker!vars = brokerProofs!vars
<1>1. broker!Init <=> brokerProofs!Init
  BY DEF broker!Init, brokerProofs!Init, broker!NoFunction, brokerProofs!NoFunction
<1>2. broker!TypeOK <=> brokerProofs!TypeOK
  BY DEF broker!TypeOK, brokerProofs!TypeOK, broker!Range, brokerProofs!Range,
         broker!Call, brokerProofs!Call
<1>3. broker!vars = brokerProofs!vars
  BY DEF broker!vars, brokerProofs!vars
<1>. QED BY <1>1, <1>2, <1>3

LEMMA SameActions ==
  ASSUME NEW th \in Threads, NEW t \in Topics, NEW h \in Handlers
  PROVE  /\ broker!post(th, t) => brokerProofs!post(th, t)
         /\ broker!postEvent(th) => brokerProofs!postEvent(th)
         /\ broker!postReturns(th) => brokerProofs!postReturns(th)
         /\ broker!subscribe(h, t) => brokerProofs!subscribe(h, t)
<1>1. broker!post(th, t) => brokerProofs!post(th, t)
  BY DEF broker!post, brokerProofs!post, broker!Free, brokerProofs!Free, broker!With, brokerProofs!With
<1>2. broker!postEvent(th) => brokerProofs!postEvent(th)
  BY DEF broker!postEvent, brokerProofs!postEvent, broker!Subs, brokerProofs!Subs
<1>3. broker!postReturns(th) => brokerProofs!postReturns(th)
  BY DEF broker!postReturns, brokerProofs!postReturns, broker!Subs, brokerProofs!Subs,
         broker!Restrict, brokerProofs!Restrict
<1>4. broker!subscribe(h, t) => brokerProofs!subscribe(h, t)
  BY DEF broker!subscribe, brokerProofs!subscribe, broker!Free, brokerProofs!Free,
         broker!With, brokerProofs!With, broker!Subs, brokerProofs!Subs
<1>. QED BY <1>1, <1>2, <1>3, <1>4

----------------------------------------------------------------------------
LEMMA InitOrder ==
  /\ Len(initOrder) = 4
  /\ initOrder[1] = <<"log", "CAMERA_CMD">> /\ initOrder[2] = <<"log", "CAMERA_EVENT">>
  /\ initOrder[3] = <<"controller", "CAMERA_CMD">> /\ initOrder[4] = <<"controller", "CAMERA_EVENT">>
  /\ \A i \in 1 .. 4 : initOrder[i][1] \in Handlers /\ initOrder[i][2] \in Topics
  BY DEF initOrder, Handlers, Topics

\* Every step of the system is a step of its broker or leaves it alone.
LEMMA BrokerSteps ==
  ASSUME boot \in 1 .. Len(initOrder) + 1, SystemNext
  PROVE  [brokerProofs!Next]_(brokerProofs!vars)
<1>1. ASSUME NEW th \in Threads, NEW t \in Topics, broker!post(th, t) PROVE brokerProofs!Next
  BY <1>1, SameActions DEF brokerProofs!Next, Handlers
<1>2. ASSUME NEW h \in Handlers, NEW t \in Topics, broker!subscribe(h, t) PROVE brokerProofs!Next
  BY <1>2, SameActions DEF brokerProofs!Next, Threads
<1>3. ASSUME NEW th \in Threads, broker!postEvent(th) \/ broker!postReturns(th) PROVE brokerProofs!Next
  BY <1>3, SameActions DEF brokerProofs!Next, Topics, Handlers
<1>4. CASE Subscribe
  BY <1>2, <1>4, InitOrder DEF Subscribe
<1>5. CASE \E t \in Topics : Sniff(t)
  BY <1>2, <1>5 DEF Sniff, Handlers
<1>6. CASE Inject \/ Report
  BY <1>1, <1>6 DEF Inject, Report, Threads, Topics
<1>7. CASE \E th \in Threads : Post(th)
  BY <1>3, <1>7 DEF Post, Deliver, Return
<1>8. CASE Start \/ WorkOn \/ Defer \/ Repost \/ WakeIt \/ StopIt \/ FinishIt
  BY <1>8 DEF Start, WorkOn, Defer, Repost, WakeIt, StopIt, FinishIt, brokerVars, brokerProofs!vars
<1>. QED BY <1>4, <1>5, <1>6, <1>7, <1>8 DEF SystemNext, Control

----------------------------------------------------------------------------
\* What is proved of the broker, in the words of EventSystem.
LEMMA BrokerFacts ==
  ASSUME BrokerInv
  PROVE  /\ \A th \in DOMAIN calls :
              /\ th \in Threads /\ DOMAIN calls = {th}
              /\ calls[th].ev = posted /\ posted \in 1 .. MaxEvents /\ calls[th].topic \in Topics
              /\ calls[th].it \in Nat /\ calls[th].it >= 1
         /\ \A t : broker!Subs(t) \in Seq(Handlers) /\ Len(broker!Subs(t)) \in Nat
         /\ received \in [Handlers -> Seq(1 .. MaxEvents)]
         /\ posted \in 0 .. MaxEvents
         /\ broker!Free => DOMAIN calls = {}
<1>1. brokerProofs!TypeOK /\ brokerProofs!Exclusive /\ brokerProofs!Live
  BY DEF BrokerInv, brokerProofs!BrokerInv
<1>2. \A th \in DOMAIN calls : DOMAIN calls = {th} /\ calls[th].ev = posted
  BY <1>1 DEF brokerProofs!Exclusive
<1>3. \A th \in DOMAIN calls :
        /\ th \in Threads /\ calls[th].ev \in 1 .. MaxEvents /\ calls[th].topic \in Topics
        /\ calls[th].it \in 1 .. 4
  BY <1>1, BrokerBounds, brokerProofs!CallType
<1>4. \A t : broker!Subs(t) \in Seq(Handlers) /\ Len(broker!Subs(t)) \in Nat
  BY <1>1, BrokerBounds, brokerProofs!SubsType, SameSubs
<1>5. received \in [Handlers -> Seq(1 .. MaxEvents)] /\ posted \in 0 .. MaxEvents
  BY <1>1 DEF brokerProofs!TypeOK
<1>6. broker!Free => DOMAIN calls = {}
  <2>1. broker!Free => brokerProofs!Free
    BY DEF broker!Free, brokerProofs!Free
  <2>. QED BY <1>1, <2>1, BrokerBounds, brokerProofs!Idle
<1>7. ASSUME NEW th \in DOMAIN calls
      PROVE  /\ th \in Threads /\ DOMAIN calls = {th}
             /\ calls[th].ev = posted /\ posted \in 1 .. MaxEvents /\ calls[th].topic \in Topics
             /\ calls[th].it \in Nat /\ calls[th].it >= 1
  <2>1. th \in Threads /\ DOMAIN calls = {th} /\ calls[th].ev = posted /\ calls[th].topic \in Topics
    BY <1>2, <1>3
  <2>2. posted \in 1 .. MaxEvents
    BY <1>3, <2>1
  <2>3. calls[th].it \in Nat /\ calls[th].it >= 1
    <3>. DEFINE it == calls[th].it
    <3>1. it \in 1 .. 4
      BY <1>3
    <3>. HIDE DEF it
    <3>2. it \in Nat /\ it >= 1
      BY <3>1
    <3>. QED BY <3>2 DEF it
  <2>. QED BY <2>1, <2>2, <2>3
<1>. QED BY <1>4, <1>5, <1>6, <1>7

\* A handler's events come in the order of the posts.
LEMMA InOrder ==
  ASSUME BrokerInv, NEW h \in Handlers
  PROVE  \A i, j \in 1 .. Len(received[h]) : i < j => received[h][i] <= received[h][j]
BY DEF BrokerInv, brokerProofs!BrokerInv, brokerProofs!Ordered

----------------------------------------------------------------------------
\* Everything that has ever been put into the controller's queue, put by put.
Held == taken \o queue

\* init() has come as far as `boot' says, and nobody else subscribes for the
\* controller or the log.
Booted == /\ boot \in 1 .. 5
          /\ \A n \in 1 .. 4 : boot > n <=> Contains(broker!Subs(initOrder[n][2]), initOrder[n][1])

\* On no topic is the controller called twice, or before the log.
Wired == \A t \in Topics : \A i \in 1 .. Len(broker!Subs(t)) : broker!Subs(t)[i] = "controller" =>
           /\ \A j \in 1 .. Len(broker!Subs(t)) : broker!Subs(t)[j] = "controller" => j = i
           /\ \E j \in 1 .. i - 1 : broker!Subs(t)[j] = "log"

\* The controller was given what was posted and what the log has seen; an event
\* that is put for the first time is younger than all that were put before it.
Known == /\ current <= posted
         /\ \A i \in 1 .. Len(Held) : /\ Held[i] <= posted
                                      /\ Held[i] # Pill => Contains(received["log"], Held[i])
Fresh(s, j) == \A k \in 1 .. j - 1 : s[k] # s[j]
Increasing == \A i, j \in 1 .. Len(Held) :
                i < j /\ Held[i] # Pill /\ Held[j] # Pill /\ Fresh(Held, j) => Held[i] < Held[j]

\* A post() under way has called those it has passed, and given the controller
\* its event only if it has passed the controller.
Reached == \A th \in DOMAIN calls : \A i \in 1 .. calls[th].it - 1 :
             Contains(received[broker!Subs(calls[th].topic)[i]], calls[th].ev)
FirstTime == \A th \in DOMAIN calls : Contains(Held, calls[th].ev) =>
               \E i \in 1 .. calls[th].it - 1 : broker!Subs(calls[th].topic)[i] = "controller"

\* A cause was posted before its effect.
Causes == \A e \in DOMAIN cause : e \in 1 .. MaxEvents /\ cause[e] \in Nat /\ cause[e] < e

\* What is put aside, and what is in hand, was taken before.
Aside == /\ deferred_events \in Seq(1 .. MaxEvents) /\ Len(deferred_events) <= Capacity
         /\ replaying \in BOOLEAN
         /\ \A e \in 1 .. MaxEvents : Contains(deferred_events, e) => Contains(taken, e)
         /\ worker = "handle" => Contains(taken, current)

\* An event is in the queue, put aside, in the controller's hand or none of these:
\* never at two of these places, and never twice at one of them.
Distinct(s) == \A i, j \in 1 .. Len(s) : s[i] = s[j] => i = j
OnePlace == /\ Distinct(queue) /\ Distinct(deferred_events)
            /\ \A e \in 0 .. MaxEvents : ~(Contains(queue, e) /\ Contains(deferred_events, e))
            /\ worker = "handle" => ~Contains(queue, current) /\ ~Contains(deferred_events, current)

SystemInv == /\ HandlerInv /\ BrokerInv
             /\ Booted /\ Wired /\ Known /\ Increasing /\ Reached /\ FirstTime /\ Causes
             /\ Aside /\ OnePlace

LEMMA Concatenated ==
  ASSUME NEW S, NEW a \in Seq(S), NEW b \in Seq(S)
  PROVE  /\ a \o b \in Seq(S) /\ Len(a \o b) = Len(a) + Len(b)
         /\ \A i \in 1 .. Len(a) : (a \o b)[i] = a[i]
         /\ \A i \in 1 .. Len(b) : (a \o b)[Len(a) + i] = b[i]
OBVIOUS

LEMMA Equal ==
  ASSUME NEW S, NEW a \in Seq(S), NEW b \in Seq(S), Len(a) = Len(b),
         \A i \in 1 .. Len(b) : a[i] = b[i]
  PROVE  a = b
OBVIOUS

\* What the queue and the worker do to Held.
LEMMA HeldType ==
  ASSUME TypeOK
  PROVE  /\ Held \in Seq(0 .. MaxEvents) /\ Len(Held) = Len(taken) + Len(queue)
         /\ Len(taken) \in Nat /\ Len(queue) \in Nat /\ Len(Held) \in Nat
         /\ \A i \in 1 .. Len(Held) : Held[i] \in 0 .. MaxEvents
         /\ \A i \in 1 .. Len(taken) : Held[i] = taken[i]
         /\ \A i \in 1 .. Len(queue) : Held[Len(taken) + i] = queue[i]
<1>1. taken \in Seq(0 .. MaxEvents) /\ queue \in Seq(0 .. MaxEvents)
  BY DEF TypeOK
<1>2. Held \in Seq(0 .. MaxEvents) /\ Len(Held) = Len(taken) + Len(queue)
  BY <1>1 DEF Held
<1>. QED BY <1>1, <1>2 DEF Held

LEMMA HeldPut ==
  ASSUME TypeOK, NEW e \in 0 .. MaxEvents, put(e), UNCHANGED taken
  PROVE  /\ Len(Held') = Len(Held) + 1
         /\ \A i \in 1 .. Len(Held) : Held'[i] = Held[i]
         /\ Held'[Len(Held) + 1] = e
<1>1. taken \in Seq(0 .. MaxEvents) /\ queue \in Seq(0 .. MaxEvents)
  BY DEF TypeOK
<1>2. Held' = taken \o Append(queue, e)
  BY DEF put, Held
<1>3. taken \o Append(queue, e) = Append(Held, e)
  BY <1>1 DEF Held
<1>4. Held \in Seq(0 .. MaxEvents)
  BY HeldType
<1>. QED BY <1>2, <1>3, <1>4, Appended

LEMMA HeldGet ==
  ASSUME TypeOK, Get
  PROVE  Held' = Held
<1>1. taken \in Seq(0 .. MaxEvents) /\ queue \in Seq(0 .. MaxEvents) /\ queue # << >>
  BY DEF TypeOK, Get
<1>2. Held' = Append(taken, Head(queue)) \o Tail(queue)
  BY DEF Get, Held
<1>. DEFINE q == Tail(queue)
            s == Append(taken, Head(queue))
<1>4. /\ Len(queue) \in Nat /\ Len(queue) >= 1 /\ Head(queue) = queue[1] /\ Head(queue) \in 0 .. MaxEvents
      /\ q \in Seq(0 .. MaxEvents) /\ Len(q) = Len(queue) - 1
      /\ \A i \in 1 .. Len(queue) - 1 : q[i] = queue[i + 1]
  BY <1>1, Behead
<1>5. /\ s \in Seq(0 .. MaxEvents) /\ Len(s) = Len(taken) + 1 /\ Len(taken) \in Nat
      /\ \A i \in 1 .. Len(taken) : s[i] = taken[i]
      /\ s[Len(taken) + 1] = queue[1]
  BY <1>1, <1>4, Appended
<1>. HIDE DEF s, q
<1>6. /\ s \o q \in Seq(0 .. MaxEvents) /\ Len(s \o q) = Len(s) + Len(q)
      /\ \A i \in 1 .. Len(s) : (s \o q)[i] = s[i]
      /\ \A i \in 1 .. Len(q) : (s \o q)[Len(s) + i] = q[i]
  <2>1. s \in Seq(0 .. MaxEvents) /\ q \in Seq(0 .. MaxEvents)
    BY <1>4, <1>5
  <2>. QED BY <2>1, Concatenated
<1>7. /\ Held \in Seq(0 .. MaxEvents) /\ Len(Held) = Len(taken) + Len(queue)
      /\ \A i \in 1 .. Len(taken) : Held[i] = taken[i]
      /\ \A i \in 1 .. Len(queue) : Held[Len(taken) + i] = queue[i]
  BY HeldType
<1>8. ASSUME NEW i \in 1 .. Len(Held) PROVE (s \o q)[i] = Held[i]
  <2>1. CASE i <= Len(taken)
    <3>1. i \in 1 .. Len(taken) /\ i \in 1 .. Len(s)
      BY <2>1, <1>5
    <3>. QED BY <3>1, <1>5, <1>6, <1>7
  <2>2. CASE i = Len(taken) + 1
    <3>1. i = Len(s) /\ i \in 1 .. Len(s) /\ 1 \in 1 .. Len(queue)
      BY <2>2, <1>4, <1>5
    <3>2. (s \o q)[i] = queue[1]
      BY <3>1, <1>5, <1>6
    <3>. QED BY <2>2, <3>1, <3>2, <1>7
  <2>3. CASE i > Len(taken) + 1
    <3>. DEFINE k == i - Len(s)
    <3>0. /\ Len(queue) \in Nat /\ Len(taken) \in Nat /\ Len(s) = Len(taken) + 1
          /\ Len(q) = Len(queue) - 1 /\ i \in 1 .. Len(taken) + Len(queue)
      BY <1>4, <1>5, <1>7
    <3>1. k \in 1 .. Len(q) /\ k + 1 \in 1 .. Len(queue) /\ k \in 1 .. Len(queue) - 1
      BY <2>3, <3>0
    <3>2. i = Len(s) + k /\ i = Len(taken) + (k + 1)
      BY <3>1, <1>5
    <3>. HIDE DEF k
    <3>3. (s \o q)[i] = q[k] /\ Held[i] = queue[k + 1]
      BY <3>1, <3>2, <1>6, <1>7
    <3>. QED BY <3>1, <3>3, <1>4
  <2>4. i \in Int /\ Len(taken) \in Int
    BY <1>5
  <2>5. i <= Len(taken) \/ i = Len(taken) + 1 \/ i > Len(taken) + 1
    BY <2>4
  <2>. QED BY <2>1, <2>2, <2>3, <2>5
<1>9. Len(s \o q) = Len(Held)
  BY <1>4, <1>5, <1>6, <1>7
<1>10. s \o q = Held
  <2>. DEFINE c == s \o q
  <2>1. c \in Seq(0 .. MaxEvents) /\ Len(c) = Len(Held) /\ \A i \in 1 .. Len(Held) : c[i] = Held[i]
    BY <1>6, <1>8, <1>9
  <2>. HIDE DEF c
  <2>2. c = Held
    BY <1>7, <2>1, Equal
  <2>. QED BY <2>2 DEF c
<1>. QED BY <1>2, <1>10 DEF s, q

\* One element more.
LEMMA ContainsOneMore ==
  ASSUME NEW s, NEW r, Len(s) \in Nat, Len(r) = Len(s) + 1,
         \A i \in 1 .. Len(s) : r[i] = s[i]
  PROVE  \A e : Contains(r, e) <=> Contains(s, e) \/ e = r[Len(s) + 1]
<1>. SUFFICES ASSUME NEW e PROVE Contains(r, e) <=> Contains(s, e) \/ e = r[Len(s) + 1]
  OBVIOUS
<1>1. \A i \in 1 .. Len(r) : i \in 1 .. Len(s) \/ i = Len(s) + 1
  OBVIOUS
<1>2. Len(s) + 1 \in 1 .. Len(r) /\ \A i \in 1 .. Len(s) : i \in 1 .. Len(r)
  OBVIOUS
<1>3. Contains(r, e) => Contains(s, e) \/ e = r[Len(s) + 1]
  BY <1>1 DEF Contains
<1>4. Contains(s, e) \/ e = r[Len(s) + 1] => Contains(r, e)
  BY <1>2 DEF Contains
<1>. QED BY <1>3, <1>4

\* The same for one element less in front, and for two sequences in a row.
LEMMA ContainsTail ==
  ASSUME NEW S, NEW s \in Seq(S), s # << >>
  PROVE  \A e : Contains(s, e) <=> Contains(Tail(s), e) \/ e = Head(s)
<1>. SUFFICES ASSUME NEW e PROVE Contains(s, e) <=> Contains(Tail(s), e) \/ e = Head(s)
  OBVIOUS
<1>. DEFINE t == Tail(s)
<1>1. /\ Len(s) \in Nat /\ Len(s) >= 1 /\ Head(s) = s[1] /\ Len(t) = Len(s) - 1
      /\ \A i \in 1 .. Len(s) - 1 : t[i] = s[i + 1]
  BY Behead
<1>. HIDE DEF t
<1>2. ASSUME NEW i \in 1 .. Len(s), s[i] = e, i # 1 PROVE Contains(t, e)
  <2>1. i - 1 \in 1 .. Len(t) /\ (i - 1) + 1 = i
    BY <1>1, <1>2
  <2>2. t[i - 1] = e
    BY <1>1, <1>2, <2>1
  <2>. QED BY <2>1, <2>2 DEF Contains
<1>3. ASSUME NEW i \in 1 .. Len(t), t[i] = e PROVE Contains(s, e)
  <2>1. i + 1 \in 1 .. Len(s) /\ s[i + 1] = e
    BY <1>1, <1>3
  <2>. QED BY <2>1 DEF Contains
<1>4. 1 \in 1 .. Len(s)
  BY <1>1
<1>5. Contains(s, e) => Contains(t, e) \/ e = Head(s)
  BY <1>1, <1>2 DEF Contains
<1>6. Contains(t, e) \/ e = Head(s) => Contains(s, e)
  <2>1. Contains(t, e) => Contains(s, e)
    BY <1>3 DEF Contains
  <2>2. e = Head(s) => Contains(s, e)
    BY <1>1, <1>4 DEF Contains
  <2>. QED BY <2>1, <2>2
<1>. QED BY <1>5, <1>6 DEF t

LEMMA ContainsAppend ==
  ASSUME NEW S, NEW s \in Seq(S), NEW x \in S
  PROVE  \A e : Contains(Append(s, x), e) <=> Contains(s, e) \/ e = x
<1>. DEFINE r == Append(s, x)
<1>1. /\ Len(s) \in Nat /\ Len(r) = Len(s) + 1 /\ \A i \in 1 .. Len(s) : r[i] = s[i]
      /\ r[Len(s) + 1] = x
  BY Appended
<1>. HIDE DEF r
<1>2. \A e : Contains(r, e) <=> Contains(s, e) \/ e = x
  BY <1>1, ContainsOneMore
<1>. QED BY <1>2 DEF r

\* Sequences without repetitions.
LEMMA DistinctAppend ==
  ASSUME NEW S, NEW s \in Seq(S), NEW x \in S, Distinct(s), ~Contains(s, x)
  PROVE  Distinct(Append(s, x))
<1>. DEFINE r == Append(s, x)
<1>1. /\ Len(s) \in Nat /\ Len(r) = Len(s) + 1 /\ \A i \in 1 .. Len(s) : r[i] = s[i]
      /\ r[Len(s) + 1] = x
  BY Appended
<1>. HIDE DEF r
<1>2. \A i \in 1 .. Len(s) : s[i] # x
  BY DEF Contains
<1>3. ASSUME NEW i \in 1 .. Len(r), NEW j \in 1 .. Len(r), r[i] = r[j] PROVE i = j
  BY <1>1, <1>2, <1>3 DEF Distinct
<1>. QED BY <1>3 DEF Distinct, r

LEMMA DistinctTail ==
  ASSUME NEW S, NEW s \in Seq(S), s # << >>, Distinct(s)
  PROVE  Distinct(Tail(s)) /\ ~Contains(Tail(s), Head(s))
<1>. DEFINE t == Tail(s)
<1>1. /\ Len(s) \in Nat /\ Len(s) >= 1 /\ Head(s) = s[1] /\ Len(t) = Len(s) - 1
      /\ \A i \in 1 .. Len(s) - 1 : t[i] = s[i + 1]
  BY Behead
<1>. HIDE DEF t
<1>2. \A i \in 1 .. Len(t) : i + 1 \in 1 .. Len(s) /\ t[i] = s[i + 1] /\ i + 1 # 1
  BY <1>1
<1>3. ASSUME NEW i \in 1 .. Len(t), NEW j \in 1 .. Len(t), t[i] = t[j] PROVE i = j
  <2>1. i + 1 = j + 1
    BY <1>2, <1>3 DEF Distinct
  <2>. QED BY <2>1
<1>4. ASSUME NEW i \in 1 .. Len(t), t[i] = Head(s) PROVE FALSE
  <2>1. 1 \in 1 .. Len(s) /\ s[i + 1] = s[1] /\ i + 1 # 1
    BY <1>1, <1>2, <1>4
  <2>. QED BY <1>2, <2>1 DEF Distinct
<1>5. Distinct(t)
  BY <1>3 DEF Distinct
<1>6. ~Contains(t, Head(s))
  BY <1>4 DEF Contains
<1>. QED BY <1>5, <1>6 DEF t

LEMMA HeldContains ==
  ASSUME TypeOK
  PROVE  \A e : Contains(taken, e) \/ Contains(queue, e) => Contains(Held, e)
<1>1. /\ Len(taken) \in Nat /\ Len(queue) \in Nat /\ Len(Held) = Len(taken) + Len(queue)
      /\ \A i \in 1 .. Len(taken) : Held[i] = taken[i]
      /\ \A i \in 1 .. Len(queue) : Held[Len(taken) + i] = queue[i]
  BY HeldType
<1>2. ASSUME NEW e, Contains(taken, e) PROVE Contains(Held, e)
  BY <1>1, <1>2 DEF Contains
<1>3. ASSUME NEW e, Contains(queue, e) PROVE Contains(Held, e)
  <2>1. PICK i \in 1 .. Len(queue) : queue[i] = e
    BY <1>3 DEF Contains
  <2>2. Len(taken) + i \in 1 .. Len(Held) /\ Held[Len(taken) + i] = e
    BY <1>1, <2>1
  <2>. QED BY <2>2 DEF Contains
<1>. QED BY <1>2, <1>3

----------------------------------------------------------------------------
\* What subscribe() does to the vectors.
LEMMA Subscribed ==
  ASSUME BrokerInv, NEW h \in Handlers, NEW t \in Topics, broker!subscribe(h, t)
  PROVE  /\ Len(broker!Subs(t)) \in Nat
         /\ Len(broker!Subs(t)') = Len(broker!Subs(t)) + 1
         /\ \A i \in 1 .. Len(broker!Subs(t)) : broker!Subs(t)'[i] = broker!Subs(t)[i]
         /\ broker!Subs(t)'[Len(broker!Subs(t)) + 1] = h
         /\ \A u \in Topics : u # t => broker!Subs(u)' = broker!Subs(u)
         /\ DOMAIN calls' = {} /\ received' = received /\ posted' = posted
<1>1. broker!Subs(t) \in Seq(Handlers) /\ (broker!Free => DOMAIN calls = {})
  BY BrokerFacts
<1>2. broker!Subs(t)' = Append(broker!Subs(t), h)
  BY DEF broker!subscribe, broker!Subs, broker!With
<1>3. \A u \in Topics : u # t => broker!Subs(u)' = broker!Subs(u)
  BY DEF broker!subscribe, broker!Subs, broker!With
<1>4. DOMAIN calls' = {} /\ received' = received /\ posted' = posted
  BY <1>1 DEF broker!subscribe
<1>. HIDE DEF broker!Subs
<1>. QED BY <1>1, <1>2, <1>3, <1>4, Appended

\* Subscribing disturbs only what is said of the vectors.
LEMMA SubscribedRest ==
  ASSUME SystemInv, NEW h \in Handlers, NEW t \in Topics, broker!subscribe(h, t),
         UNCHANGED <<vars, cause>>
  PROVE  Known' /\ Increasing' /\ Reached' /\ FirstTime' /\ Causes'
<1>1. DOMAIN calls' = {} /\ received' = received /\ posted' = posted
  BY Subscribed DEF SystemInv
<1>2. Held' = Held /\ current' = current /\ cause' = cause
  BY DEF Held, vars
<1>3. Reached' /\ FirstTime'
  BY <1>1 DEF Reached, FirstTime
<1>4. Known' /\ Increasing'
  BY <1>1, <1>2 DEF SystemInv, Known, Increasing, Fresh
<1>5. Causes'
  BY <1>2 DEF SystemInv, Causes
<1>. QED BY <1>3, <1>4, <1>5

LEMMA SubscribedContains ==
  ASSUME BrokerInv, NEW h \in Handlers, NEW t \in Topics, broker!subscribe(h, t),
         NEW g, NEW u \in Topics
  PROVE  Contains(broker!Subs(u), g)' <=> Contains(broker!Subs(u), g) \/ (u = t /\ g = h)
<1>. DEFINE S == broker!Subs(t)
            R == broker!Subs(t)'
<1>1. /\ Len(S) \in Nat /\ Len(R) = Len(S) + 1
      /\ \A i \in 1 .. Len(S) : R[i] = S[i]
      /\ R[Len(S) + 1] = h
      /\ u # t => broker!Subs(u)' = broker!Subs(u)
  BY Subscribed
<1>2. CASE u # t
  BY <1>1, <1>2 DEF Contains
<1>3. CASE u = t
  <2>. HIDE DEF S, R
  <2>1. (\E i \in 1 .. Len(R) : R[i] = g) <=> (\E i \in 1 .. Len(S) : S[i] = g) \/ g = h
    <3>1. ASSUME NEW i \in 1 .. Len(R), R[i] = g PROVE (\E k \in 1 .. Len(S) : S[k] = g) \/ g = h
      BY <1>1, <3>1
    <3>2. ASSUME NEW i \in 1 .. Len(S), S[i] = g PROVE \E k \in 1 .. Len(R) : R[k] = g
      BY <1>1, <3>2
    <3>3. Len(S) + 1 \in 1 .. Len(R)
      BY <1>1
    <3>. QED BY <1>1, <3>1, <3>2, <3>3
  <2>. QED BY <1>3, <2>1 DEF Contains, S, R
<1>. QED BY <1>2, <1>3

LEMMA SubscribedWired ==
  ASSUME BrokerInv, Wired, NEW h \in Handlers, NEW t \in Topics, broker!subscribe(h, t),
         h = "controller" => /\ ~Contains(broker!Subs(t), "controller")
                             /\ Contains(broker!Subs(t), "log")
  PROVE  Wired'
<1>. DEFINE S == broker!Subs(t)
            R == broker!Subs(t)'
<1>1. /\ Len(S) \in Nat /\ Len(R) = Len(S) + 1
      /\ \A i \in 1 .. Len(S) : R[i] = S[i]
      /\ R[Len(S) + 1] = h
      /\ \A u \in Topics : u # t => broker!Subs(u)' = broker!Subs(u)
  BY Subscribed
<1>2. \A i \in 1 .. Len(S) : S[i] = "controller" =>
           /\ \A j \in 1 .. Len(S) : S[j] = "controller" => j = i
           /\ \E j \in 1 .. i - 1 : S[j] = "log"
  BY DEF Wired
<1>3. h = "controller" => /\ \A j \in 1 .. Len(S) : S[j] # "controller"
                          /\ \E j \in 1 .. Len(S) : S[j] = "log"
  BY DEF Contains
<1>. HIDE DEF S, R
<1>4. ASSUME NEW i \in 1 .. Len(R), R[i] = "controller"
      PROVE  /\ \A j \in 1 .. Len(R) : R[j] = "controller" => j = i
             /\ \E j \in 1 .. i - 1 : R[j] = "log"
  <2>1. CASE i \in 1 .. Len(S)
    <3>1. S[i] = "controller"
      BY <1>1, <1>4, <2>1
    <3>2. h # "controller"
      BY <1>3, <2>1, <3>1
    <3>3. \A j \in 1 .. Len(R) : R[j] = "controller" => j \in 1 .. Len(S)
      BY <1>1, <3>2
    <3>4. \A j \in 1 .. Len(R) : R[j] = "controller" => j = i
      BY <1>1, <1>2, <2>1, <3>1, <3>3
    <3>5. PICK j \in 1 .. i - 1 : S[j] = "log"
      BY <1>2, <2>1, <3>1
    <3>6. j \in 1 .. Len(S)
      BY <1>1, <2>1
    <3>. QED BY <1>1, <3>4, <3>5, <3>6
  <2>2. CASE i = Len(S) + 1
    <3>1. h = "controller"
      BY <1>1, <1>4, <2>2
    <3>2. \A j \in 1 .. Len(R) : R[j] = "controller" => j = i
      BY <1>1, <1>3, <2>2, <3>1
    <3>3. PICK j \in 1 .. Len(S) : S[j] = "log"
      BY <1>3, <3>1
    <3>4. j \in 1 .. i - 1 /\ R[j] = "log"
      BY <1>1, <2>2, <3>3
    <3>. QED BY <3>2, <3>4
  <2>. QED BY <1>1, <2>1, <2>2
<1>5. ASSUME NEW u \in Topics, u # t
      PROVE  \A i \in 1 .. Len(broker!Subs(u)') : broker!Subs(u)'[i] = "controller" =>
               /\ \A j \in 1 .. Len(broker!Subs(u)') : broker!Subs(u)'[j] = "controller" => j = i
               /\ \E j \in 1 .. i - 1 : broker!Subs(u)'[j] = "log"
  <2>1. broker!Subs(u)' = broker!Subs(u)
    BY <1>1, <1>5
  <2>. QED BY <2>1 DEF Wired
<1>. QED BY <1>4, <1>5 DEF Wired, R

LEMMA SubscribeStep ==
  ASSUME SystemInv, Subscribe
  PROVE  Booted' /\ Wired' /\ Known' /\ Increasing' /\ Reached' /\ FirstTime' /\ Causes'
<1>. DEFINE h == initOrder[boot][1]
            t == initOrder[boot][2]
<1>1. /\ boot \in 1 .. 4 /\ boot' = boot + 1 /\ h \in Handlers /\ t \in Topics
      /\ broker!subscribe(h, t) /\ UNCHANGED <<vars, cause>>
  BY InitOrder DEF Subscribe, SystemInv, Booted
<1>2. BrokerInv /\ Wired /\ Booted
  BY DEF SystemInv
<1>3. Wired'
  <2>1. ASSUME h = "controller"
        PROVE ~Contains(broker!Subs(t), "controller") /\ Contains(broker!Subs(t), "log")
    <3>1. boot \in {3, 4}
      BY <1>1, <2>1, InitOrder
    <3>2. CASE boot = 3
      BY <1>2, <3>2, InitOrder DEF Booted
    <3>3. CASE boot = 4
      BY <1>2, <3>3, InitOrder DEF Booted
    <3>. QED BY <3>1, <3>2, <3>3
  <2>. QED BY <1>1, <1>2, <2>1, SubscribedWired
<1>4. Booted'
  <2>1. ASSUME NEW n \in 1 .. 4
        PROVE  boot' > n <=> Contains(broker!Subs(initOrder[n][2]), initOrder[n][1])'
    <3>1. initOrder[n][1] \in Handlers /\ initOrder[n][2] \in Topics
      BY InitOrder
    <3>2. Contains(broker!Subs(initOrder[n][2]), initOrder[n][1])' <=>
            Contains(broker!Subs(initOrder[n][2]), initOrder[n][1])
              \/ (initOrder[n][2] = t /\ initOrder[n][1] = h)
      BY <1>1, <1>2, <3>1, SubscribedContains
    <3>3. (initOrder[n][2] = t /\ initOrder[n][1] = h) <=> n = boot
      BY <1>1, InitOrder
    <3>4. boot > n <=> Contains(broker!Subs(initOrder[n][2]), initOrder[n][1])
      BY <1>2 DEF Booted
    <3>5. boot' > n <=> boot > n \/ n = boot
      BY <1>1
    <3>. QED BY <3>2, <3>3, <3>4, <3>5
  <2>2. boot' \in 1 .. 5
    BY <1>1
  <2>. QED BY <2>1, <2>2 DEF Booted, initOrder
<1>. QED BY <1>1, <1>3, <1>4, SubscribedRest

LEMMA SniffStep ==
  ASSUME SystemInv, NEW t \in Topics, Sniff(t)
  PROVE  Booted' /\ Wired' /\ Known' /\ Increasing' /\ Reached' /\ FirstTime' /\ Causes'
<1>1. /\ "sniffer" \in Handlers /\ broker!subscribe("sniffer", t)
      /\ UNCHANGED <<vars, cause>> /\ boot' = boot
  BY DEF Sniff, Handlers
<1>2. BrokerInv /\ Wired /\ Booted
  BY DEF SystemInv
<1>3. Wired'
  BY <1>1, <1>2, SubscribedWired
<1>4. Booted'
  <2>1. ASSUME NEW n \in 1 .. 4
        PROVE  boot' > n <=> Contains(broker!Subs(initOrder[n][2]), initOrder[n][1])'
    <3>1. initOrder[n][1] \in Handlers /\ initOrder[n][2] \in Topics /\ initOrder[n][1] # "sniffer"
      BY InitOrder
    <3>2. Contains(broker!Subs(initOrder[n][2]), initOrder[n][1])' <=>
            Contains(broker!Subs(initOrder[n][2]), initOrder[n][1])
      BY <1>1, <1>2, <3>1, SubscribedContains
    <3>. QED BY <1>1, <1>2, <3>2 DEF Booted
  <2>. QED BY <1>1, <1>2, <2>1 DEF Booted, initOrder
<1>. QED BY <1>1, <1>3, <1>4, SubscribedRest

----------------------------------------------------------------------------
\* What is said of the vectors stays as long as they do.
LEMMA SameVectors ==
  ASSUME Booted, Wired, UNCHANGED <<subscribers, boot>>
  PROVE  Booted' /\ Wired' /\ \A t : broker!Subs(t)' = broker!Subs(t)
<1>1. \A t : broker!Subs(t)' = broker!Subs(t)
  BY DEF broker!Subs
<1>2. Booted'
  BY <1>1 DEF Booted, initOrder
<1>3. Wired'
  BY <1>1 DEF Wired
<1>. QED BY <1>1, <1>2, <1>3

\* A new post() has called nobody, and its event is new to everybody.
LEMMA PostRest ==
  ASSUME SystemInv, NEW th \in Threads, NEW t \in Topics, broker!post(th, t), UNCHANGED <<vars, boot>>
  PROVE  Booted' /\ Wired' /\ Known' /\ Increasing' /\ Reached' /\ FirstTime'
<1>1. /\ posted \in 0 .. MaxEvents /\ posted' = posted + 1 /\ received' = received
      /\ UNCHANGED <<subscribers, boot>>
      /\ DOMAIN calls = {}
  BY BrokerFacts DEF SystemInv, broker!post
<1>2. DOMAIN calls' = {th} /\ calls'[th].ev = posted + 1 /\ calls'[th].it = 1
  BY <1>1 DEF broker!post, broker!With
<1>3. Booted' /\ Wired'
  BY <1>1, SameVectors DEF SystemInv
<1>4. /\ Held' = Held /\ current' = current /\ current \in Int
      /\ Len(Held) \in Nat /\ \A i \in 1 .. Len(Held) : Held[i] \in Int
  <2>1. TypeOK
    BY DEF SystemInv, HandlerInv
  <2>2. current \in Int
    BY <2>1 DEF TypeOK, None
  <2>3. Len(Held) \in Nat /\ \A i \in 1 .. Len(Held) : Held[i] \in Int
    BY <2>1, HeldType
  <2>. QED BY <2>2, <2>3 DEF Held, vars
<1>5. Known /\ Increasing
  BY DEF SystemInv
<1>6. Known'
  BY <1>1, <1>4, <1>5 DEF Known
<1>7. Increasing'
  BY <1>4, <1>5 DEF Increasing, Fresh
<1>8. Reached'
  BY <1>2 DEF Reached
<1>9. FirstTime'
  <2>1. ~Contains(Held', calls'[th].ev)
    BY <1>1, <1>2, <1>4, <1>5 DEF Known, Contains
  <2>. QED BY <1>2, <2>1 DEF FirstTime
<1>. QED BY <1>3, <1>6, <1>7, <1>8, <1>9

LEMMA InjectStep ==
  ASSUME SystemInv, Inject
  PROVE  Booted' /\ Wired' /\ Known' /\ Increasing' /\ Reached' /\ FirstTime' /\ Causes'
<1>1. /\ "injector" \in Threads /\ "CAMERA_CMD" \in Topics
      /\ broker!post("injector", "CAMERA_CMD") /\ UNCHANGED <<vars, boot>> /\ cause' = cause
  BY DEF Inject, Threads, Topics
<1>2. Causes'
  BY <1>1 DEF SystemInv, Causes
<1>. QED BY <1>1, <1>2, PostRest

\* The event a handler works on was posted before what the handler posts.
LEMMA ReportStep ==
  ASSUME SystemInv, Report
  PROVE  Booted' /\ Wired' /\ Known' /\ Increasing' /\ Reached' /\ FirstTime' /\ Causes'
<1>1. /\ "controller" \in Threads /\ "CAMERA_EVENT" \in Topics
      /\ broker!post("controller", "CAMERA_EVENT") /\ UNCHANGED <<vars, boot>>
      /\ cause' = broker!With(cause, posted', current)
  BY DEF Report, Threads, Topics
<1>2. posted \in 0 .. MaxEvents /\ posted' = posted + 1 /\ posted < MaxEvents
  BY <1>1, BrokerFacts DEF SystemInv, broker!post
<1>3. current \in Nat /\ current <= posted
  <2>1. current # None /\ current # Pill /\ current \in None .. MaxEvents /\ current <= posted
    BY DEF Report, SystemInv, HandlerInv, InHand, TypeOK, Known
  <2>. QED BY <2>1 DEF None, Pill
<1>4. DOMAIN cause' = DOMAIN cause \cup {posted + 1}
  BY <1>1, <1>2 DEF broker!With
<1>5. \A e \in DOMAIN cause' : cause'[e] = IF e = posted + 1 THEN current ELSE cause[e]
  BY <1>1, <1>2 DEF broker!With
<1>6. Causes'
  <2>1. SUFFICES ASSUME NEW e \in DOMAIN cause'
                 PROVE  e \in 1 .. MaxEvents /\ cause'[e] \in Nat /\ cause'[e] < e
    BY DEF Causes
  <2>2. CASE e = posted + 1
    BY <2>2, <1>2, <1>3, <1>5
  <2>3. CASE e # posted + 1
    BY <2>3, <1>4, <1>5 DEF SystemInv, Causes
  <2>. QED BY <2>2, <2>3
<1>. QED BY <1>1, <1>6, PostRest

LEMMA ReturnStep ==
  ASSUME SystemInv, NEW th \in Threads, Return(th)
  PROVE  Booted' /\ Wired' /\ Known' /\ Increasing' /\ Reached' /\ FirstTime' /\ Causes'
<1>1. DOMAIN calls = {th}
  BY BrokerFacts DEF SystemInv, Return, broker!postReturns
<1>2. DOMAIN calls' = {}
  BY <1>1 DEF Return, broker!postReturns, broker!Restrict
<1>3. UNCHANGED <<subscribers, boot, received, posted, cause>> /\ UNCHANGED vars
  BY DEF Return, broker!postReturns
<1>4. Booted' /\ Wired'
  BY <1>3, SameVectors DEF SystemInv
<1>5. Held' = Held /\ current' = current
  BY <1>3 DEF Held, vars
<1>6. Known' /\ Increasing'
  BY <1>3, <1>5 DEF SystemInv, Known, Increasing, Fresh
<1>7. Reached' /\ FirstTime'
  BY <1>2 DEF Reached, FirstTime
<1>8. Causes'
  BY <1>3 DEF SystemInv, Causes
<1>. QED BY <1>4, <1>6, <1>7, <1>8

----------------------------------------------------------------------------
\* Steps of the controller's thread and its owner that leave the broker alone.
LEMMA SameHeld ==
  ASSUME SystemInv, UNCHANGED <<brokerVars, boot, cause>>, Held' = Held, current' <= posted
  PROVE  Booted' /\ Wired' /\ Known' /\ Increasing' /\ Reached' /\ FirstTime' /\ Causes'
<1>1. UNCHANGED <<subscribers, calls, received, posted, boot, cause>>
  BY DEF brokerVars
<1>2. Booted' /\ Wired' /\ \A t : broker!Subs(t)' = broker!Subs(t)
  BY <1>1, SameVectors DEF SystemInv
<1>3. Known'
  BY <1>1 DEF SystemInv, Known
<1>4. Increasing'
  BY DEF SystemInv, Increasing, Fresh
<1>5. Reached'
  BY <1>1, <1>2 DEF SystemInv, Reached
<1>6. FirstTime'
  BY <1>1, <1>2 DEF SystemInv, FirstTime
<1>7. Causes'
  BY <1>1 DEF SystemInv, Causes
<1>. QED BY <1>2, <1>3, <1>4, <1>5, <1>6, <1>7

\* The pill is no event.
LEMMA PillStep ==
  ASSUME SystemInv, UNCHANGED <<brokerVars, boot, cause>>, PutPill
  PROVE  Booted' /\ Wired' /\ Known' /\ Increasing' /\ Reached' /\ FirstTime' /\ Causes'
<1>1. UNCHANGED <<subscribers, calls, received, posted, boot, cause, current, taken>>
  BY DEF brokerVars, PutPill
<1>2. Booted' /\ Wired' /\ \A t : broker!Subs(t)' = broker!Subs(t)
  BY <1>1, SameVectors DEF SystemInv
<1>3. TypeOK /\ BrokerInv /\ Known /\ Increasing /\ Reached /\ FirstTime /\ Causes
  BY DEF SystemInv, HandlerInv
<1>4. /\ Len(Held') = Len(Held) + 1 /\ Len(Held) \in Nat
      /\ \A i \in 1 .. Len(Held) : Held'[i] = Held[i]
      /\ Held'[Len(Held) + 1] = 0
  BY <1>1, <1>3, HeldType, HeldPut DEF PutPill, Pill
<1>5. posted \in 0 .. MaxEvents
  BY <1>3, BrokerFacts
<1>6. Known'
  <2>1. ASSUME NEW i \in 1 .. Len(Held')
        PROVE  Held'[i] <= posted /\ (Held'[i] # Pill => Contains(received["log"], Held'[i]))
    <3>1. CASE i \in 1 .. Len(Held)
      BY <1>3, <1>4, <3>1 DEF Known
    <3>2. CASE i = Len(Held) + 1
      BY <1>4, <1>5, <3>2 DEF Pill
    <3>. QED BY <1>4, <3>1, <3>2
  <2>. QED BY <1>1, <1>3, <2>1 DEF Known, Pill
<1>7. Increasing'
  <2>1. SUFFICES ASSUME NEW i \in 1 .. Len(Held'), NEW j \in 1 .. Len(Held'), i < j,
                        Held'[i] # Pill, Held'[j] # Pill, Fresh(Held', j)
                 PROVE  Held'[i] < Held'[j]
    BY DEF Increasing, Fresh, Pill
  <2>2. /\ i \in 1 .. Len(Held) /\ j \in 1 .. Len(Held)
        /\ Held'[i] = Held[i] /\ Held'[j] = Held[j]
    BY <1>4, <2>1 DEF Pill
  <2>3. Fresh(Held, j)
    BY <1>4, <2>1, <2>2 DEF Fresh
  <2>. QED BY <1>3, <2>1, <2>2, <2>3 DEF Increasing
<1>8. Reached'
  BY <1>1, <1>2, <1>3 DEF Reached
<1>9. FirstTime'
  <2>1. ASSUME NEW th \in DOMAIN calls, Contains(Held', calls[th].ev) PROVE Contains(Held, calls[th].ev)
    <3>. DEFINE e == calls[th].ev
    <3>1. e \in 1 .. MaxEvents
      BY <1>3, BrokerFacts
    <3>2. PICK i \in 1 .. Len(Held') : Held'[i] = e
      BY <2>1 DEF Contains
    <3>. HIDE DEF e
    <3>3. i \in 1 .. Len(Held) /\ Held[i] = e
      BY <1>4, <3>1, <3>2
    <3>. QED BY <3>3 DEF e, Contains
  <2>. QED BY <1>1, <1>2, <1>3, <2>1 DEF FirstTime
<1>10. Causes'
  BY <1>1, <1>3 DEF Causes
<1>. QED BY <1>2, <1>6, <1>7, <1>8, <1>9, <1>10

LEMMA OwnStep ==
  ASSUME SystemInv, UNCHANGED <<brokerVars, boot, cause>>,
         Launch \/ RaiseFlag \/ Finish \/ Work \/ WakeSpuriously
  PROVE  Booted' /\ Wired' /\ Known' /\ Increasing' /\ Reached' /\ FirstTime' /\ Causes'
<1>1. TypeOK /\ BrokerInv /\ Known
  BY DEF SystemInv, HandlerInv
<1>2. posted \in 0 .. MaxEvents
  BY <1>1, BrokerFacts
<1>3. CASE PutPill
  BY <1>3, PillStep
<1>4. CASE Get
  <2>1. Held' = Held
    BY <1>1, <1>4, HeldGet
  <2>2. /\ Len(queue) >= 1 /\ current' = queue[1] /\ Len(queue) \in Nat
    BY <1>1, <1>4, Behead DEF Get, TypeOK
  <2>3. current' = Held[Len(taken) + 1] /\ Len(taken) + 1 \in 1 .. Len(Held)
    BY <1>1, <2>2, HeldType
  <2>4. current' <= posted
    BY <1>1, <2>3 DEF Known
  <2>. QED BY <2>1, <2>4, SameHeld
<1>5. CASE Launch \/ RaiseFlag \/ Started \/ Join \/ Test \/ Wait \/ Handled \/ WakeSpuriously
  <2>1. Held' = Held /\ current' \in {current, None}
    BY <1>5 DEF Held, Launch, RaiseFlag, Started, Join, Test, Wait, Handled, WakeSpuriously
  <2>2. current' <= posted
    BY <1>1, <1>2, <2>1 DEF Known, None
  <2>. QED BY <2>1, <2>2, SameHeld
<1>. QED BY <1>3, <1>4, <1>5 DEF Finish, Work

----------------------------------------------------------------------------
\* A post() under way calls the next subscriber.
LEMMA Called ==
  ASSUME SystemInv, NEW th \in Threads, broker!postEvent(th)
  PROVE  LET S == broker!Subs(calls[th].topic)
             n == calls[th].it
         IN  /\ DOMAIN calls = {th} /\ DOMAIN calls' = {th}
             /\ calls[th].ev = posted /\ posted \in 1 .. MaxEvents /\ calls[th].topic \in Topics
             /\ n \in 1 .. Len(S) /\ S[n] \in Handlers /\ Len(S) \in Nat
             /\ calls'[th].it = n + 1 /\ calls'[th].ev = calls[th].ev
             /\ calls'[th].topic = calls[th].topic
             /\ UNCHANGED <<subscribers, posted>>
             /\ Contains(received'[S[n]], posted)
             /\ \A g \in Handlers : \A e : Contains(received[g], e) => Contains(received'[g], e)
<1>. DEFINE S == broker!Subs(calls[th].topic)
            n == calls[th].it
<1>1. /\ th \in DOMAIN calls /\ n <= Len(S) /\ UNCHANGED <<subscribers, posted>>
      /\ received' = [received EXCEPT ![S[n]] = Append(@, calls[th].ev)]
      /\ calls' = [calls EXCEPT ![th].it = @ + 1]
  BY DEF broker!postEvent
<1>2. /\ DOMAIN calls = {th} /\ calls[th].ev = posted /\ posted \in 1 .. MaxEvents
      /\ calls[th].topic \in Topics /\ n \in Nat /\ n >= 1
      /\ S \in Seq(Handlers) /\ Len(S) \in Nat
      /\ received \in [Handlers -> Seq(1 .. MaxEvents)]
  BY <1>1, BrokerFacts DEF SystemInv
<1>3. n \in 1 .. Len(S)
  BY <1>1, <1>2
<1>4. S[n] \in Handlers
  <2>. HIDE DEF S, n
  <2>. QED BY <1>2, <1>3
<1>5. DOMAIN calls' = {th} /\ calls'[th] = [calls[th] EXCEPT !.it = @ + 1]
  BY <1>1, <1>2
<1>6. calls[th] \in brokerProofs!Call
  BY <1>1, BrokerBounds, brokerProofs!CallType DEF SystemInv, BrokerInv, brokerProofs!BrokerInv
<1>7. calls'[th].it = n + 1 /\ calls'[th].ev = calls[th].ev /\ calls'[th].topic = calls[th].topic
  BY <1>5, <1>6 DEF brokerProofs!Call
<1>8. ASSUME NEW g \in Handlers
      PROVE  /\ received'[g] = IF g = S[n] THEN Append(received[g], posted) ELSE received[g]
             /\ received[g] \in Seq(1 .. MaxEvents)
  BY <1>1, <1>2, <1>4
<1>9. ASSUME NEW s \in Seq(1 .. MaxEvents)
      PROVE  /\ Contains(Append(s, posted), posted)
             /\ \A e : Contains(s, e) => Contains(Append(s, posted), e)
  <2>. DEFINE r == Append(s, posted)
  <2>1. /\ Len(s) \in Nat /\ Len(r) = Len(s) + 1 /\ \A i \in 1 .. Len(s) : r[i] = s[i]
        /\ r[Len(s) + 1] = posted
    BY <1>2, Appended
  <2>. HIDE DEF r
  <2>2. Len(s) + 1 \in 1 .. Len(r) /\ \A i \in 1 .. Len(s) : i \in 1 .. Len(r)
    BY <2>1
  <2>. QED BY <2>1, <2>2 DEF Contains, r
<1>10. Contains(received'[S[n]], posted)
  BY <1>4, <1>8, <1>9
<1>11. \A g \in Handlers : \A e : Contains(received[g], e) => Contains(received'[g], e)
  BY <1>8, <1>9
<1>. QED BY <1>1, <1>2, <1>3, <1>4, <1>5, <1>7, <1>10, <1>11

\* The controller is called with an event that its queue has not had, and that
\* the log, subscribed before it, has seen.
LEMMA NewToController ==
  ASSUME SystemInv, NEW th \in Threads, broker!postEvent(th),
         broker!Subs(calls[th].topic)[calls[th].it] = "controller"
  PROVE  ~Contains(Held, posted) /\ Contains(received["log"], posted)
<1>. DEFINE S == broker!Subs(calls[th].topic)
            n == calls[th].it
<1>1. /\ th \in DOMAIN calls /\ calls[th].ev = posted /\ calls[th].topic \in Topics
      /\ n \in 1 .. Len(S) /\ Len(S) \in Nat
  BY Called
<1>2. /\ \A j \in 1 .. Len(S) : S[j] = "controller" => j = n
      /\ \E j \in 1 .. n - 1 : S[j] = "log"
  BY <1>1 DEF SystemInv, Wired
<1>3. \A i \in 1 .. n - 1 : Contains(received[S[i]], posted)
  BY <1>1 DEF SystemInv, Reached
<1>4. Contains(Held, posted) => \E i \in 1 .. n - 1 : S[i] = "controller"
  BY <1>1 DEF SystemInv, FirstTime
<1>. HIDE DEF S, n
<1>5. ~Contains(Held, posted)
  BY <1>1, <1>2, <1>4
<1>6. Contains(received["log"], posted)
  BY <1>2, <1>3
<1>. QED BY <1>5, <1>6

LEMMA DeliverStep ==
  ASSUME SystemInv, NEW th \in Threads, Deliver(th)
  PROVE  Booted' /\ Wired' /\ Known' /\ Increasing' /\ Reached' /\ FirstTime' /\ Causes'
<1>. DEFINE S == broker!Subs(calls[th].topic)
            n == calls[th].it
<1>1. /\ DOMAIN calls = {th} /\ DOMAIN calls' = {th}
      /\ calls[th].ev = posted /\ posted \in 1 .. MaxEvents
      /\ n \in 1 .. Len(S) /\ S[n] \in Handlers /\ Len(S) \in Nat
      /\ calls'[th].it = n + 1 /\ calls'[th].ev = posted /\ calls'[th].topic = calls[th].topic
      /\ UNCHANGED <<subscribers, posted>>
      /\ Contains(received'[S[n]], posted)
      /\ \A g \in Handlers : \A e : Contains(received[g], e) => Contains(received'[g], e)
  BY Called DEF Deliver
<1>2. UNCHANGED <<subscribers, boot, posted, cause, current, taken>>
  BY <1>1 DEF Deliver
<1>3. Booted' /\ Wired' /\ \A t : broker!Subs(t)' = broker!Subs(t)
  BY <1>2, SameVectors DEF SystemInv
<1>4. TypeOK /\ BrokerInv /\ Known /\ Increasing /\ Reached /\ FirstTime /\ Causes
  BY DEF SystemInv, HandlerInv
<1>5. Causes'
  BY <1>2, <1>4 DEF Causes
<1>6. Reached'
  <2>1. \A i \in 1 .. n - 1 : S[i] \in Handlers /\ Contains(received[S[i]], posted)
    <3>1. S \in Seq(Handlers)
      BY <1>4, BrokerFacts
    <3>2. \A i \in 1 .. n - 1 : Contains(received[S[i]], posted)
      BY <1>1, <1>4 DEF Reached
    <3>. HIDE DEF S, n
    <3>. QED BY <1>1, <3>1, <3>2
  <2>2. \A i \in 1 .. n : Contains(received'[S[i]], posted)
    <3>1. \A i \in 1 .. n : i \in 1 .. n - 1 \/ i = n
      BY <1>1
    <3>. QED BY <1>1, <2>1, <3>1
  <2>3. calls'[th].it - 1 = n
    BY <1>1
  <2>4. broker!Subs(calls[th].topic)' = S
    BY <1>1 DEF broker!Subs
  <2>. HIDE DEF S, n
  <2>. QED BY <1>1, <2>2, <2>3, <2>4 DEF Reached
<1>7. /\ Len(Held) \in Nat /\ \A i \in 1 .. Len(Held) : Held[i] \in 0 .. MaxEvents
  BY <1>4, HeldType
<1>8. CASE S[n] = "controller"
  <2>1. ~Contains(Held, posted) /\ Contains(received["log"], posted)
    BY <1>8, NewToController DEF Deliver
  <2>2. put(posted)
    BY <1>1, <1>8 DEF Deliver
  <2>3. /\ Len(Held') = Len(Held) + 1
        /\ \A i \in 1 .. Len(Held) : Held'[i] = Held[i]
        /\ Held'[Len(Held) + 1] = posted
    BY <1>1, <1>2, <1>4, <2>2, HeldPut
  <2>4. Known'
    <3>1. ASSUME NEW i \in 1 .. Len(Held')
          PROVE  Held'[i] <= posted /\ (Held'[i] # Pill => Contains(received'["log"], Held'[i]))
      <4>1. "log" \in Handlers
        BY DEF Handlers
      <4>2. CASE i \in 1 .. Len(Held)
        <5>1. Held'[i] = Held[i] /\ Held[i] <= posted /\ (Held[i] # Pill => Contains(received["log"], Held[i]))
          BY <1>4, <2>3, <4>2 DEF Known
        <5>. QED BY <1>1, <4>1, <5>1
      <4>3. CASE i = Len(Held) + 1
        <5>1. Held'[i] = posted /\ posted <= posted
          BY <1>1, <2>3, <4>3
        <5>. QED BY <1>1, <2>1, <4>1, <5>1
      <4>. QED BY <1>7, <2>3, <4>2, <4>3
    <3>2. current' <= posted
      BY <1>2, <1>4 DEF Known
    <3>. QED BY <1>2, <3>1, <3>2 DEF Known, Pill
  <2>5. Increasing'
    <3>1. \A i \in 1 .. Len(Held) : Held[i] < posted
      BY <1>1, <1>4, <1>7, <2>1 DEF Known, Contains
    <3>2. ASSUME NEW i \in 1 .. Len(Held'), NEW j \in 1 .. Len(Held'), i < j,
                 Held'[i] # Pill, Held'[j] # Pill, Fresh(Held', j)
          PROVE  Held'[i] < Held'[j]
      <4>1. i \in 1 .. Len(Held) /\ Held'[i] = Held[i]
        BY <1>7, <2>3, <3>2
      <4>2. CASE j \in 1 .. Len(Held)
        <5>1. Held'[j] = Held[j] /\ Fresh(Held, j)
          BY <1>7, <2>3, <3>2, <4>2 DEF Fresh
        <5>. QED BY <1>4, <3>2, <4>1, <4>2, <5>1 DEF Increasing
      <4>3. CASE j = Len(Held) + 1
        BY <2>3, <3>1, <4>1, <4>3
      <4>. QED BY <1>7, <2>3, <4>2, <4>3
    <3>. QED BY <3>2 DEF Increasing, Fresh, Pill
  <2>6. FirstTime'
    <3>1. n \in 1 .. calls'[th].it - 1
      BY <1>1
    <3>2. broker!Subs(calls[th].topic)' = S
      BY <1>1 DEF broker!Subs
    <3>. HIDE DEF S
    <3>. QED BY <1>1, <1>8, <3>1, <3>2 DEF FirstTime
  <2>. QED BY <1>3, <1>5, <1>6, <2>4, <2>5, <2>6
<1>9. CASE S[n] # "controller"
  <2>1. Held' = Held
    BY <1>2, <1>9 DEF Deliver, Held
  <2>2. Known'
    <3>1. "log" \in Handlers
      BY DEF Handlers
    <3>2. \A i \in 1 .. Len(Held) : Held[i] # Pill => Contains(received'["log"], Held[i])
      BY <1>1, <1>4, <3>1 DEF Known
    <3>. QED BY <1>2, <1>4, <2>1, <3>2 DEF Known, Pill
  <2>3. Increasing'
    BY <1>4, <2>1 DEF Increasing, Fresh, Pill
  <2>4. FirstTime'
    <3>1. Contains(Held, posted) => \E i \in 1 .. n - 1 : S[i] = "controller"
      BY <1>1, <1>4 DEF FirstTime
    <3>2. \A i \in 1 .. n - 1 : i \in 1 .. calls'[th].it - 1
      BY <1>1
    <3>3. broker!Subs(calls[th].topic)' = S
      BY <1>1 DEF broker!Subs
    <3>. HIDE DEF S, n
    <3>. QED BY <1>1, <2>1, <3>1, <3>2, <3>3 DEF FirstTime
  <2>. QED BY <1>3, <1>5, <1>6, <2>2, <2>3, <2>4
<1>. QED BY <1>8, <1>9

----------------------------------------------------------------------------
\* What is posted again was taken before and is in no queue.
LEMMA RepostedIs ==
  ASSUME SystemInv, Repost
  PROVE  /\ Head(deferred_events) \in 1 .. MaxEvents
         /\ Contains(deferred_events, Head(deferred_events))
         /\ Contains(Held, Head(deferred_events))
         /\ ~Contains(queue, Head(deferred_events))
<1>. DEFINE e == Head(deferred_events)
<1>1. deferred_events \in Seq(1 .. MaxEvents) /\ deferred_events # << >> /\ TypeOK
  BY DEF SystemInv, HandlerInv, Aside, Repost
<1>2. e \in 1 .. MaxEvents /\ Contains(deferred_events, e)
  BY <1>1, Behead, ContainsTail
<1>. HIDE DEF e
<1>3. Contains(taken, e)
  BY <1>2 DEF SystemInv, Aside
<1>4. Contains(Held, e)
  BY <1>1, <1>3, HeldContains
<1>5. e \in 0 .. MaxEvents
  BY <1>2
<1>6. ~Contains(queue, e)
  BY <1>2, <1>5 DEF SystemInv, OnePlace
<1>. QED BY <1>2, <1>4, <1>6 DEF e

LEMMA RepostStep ==
  ASSUME SystemInv, Repost
  PROVE  Booted' /\ Wired' /\ Known' /\ Increasing' /\ Reached' /\ FirstTime' /\ Causes'
<1>. DEFINE e == Head(deferred_events)
<1>1. UNCHANGED <<subscribers, calls, received, posted, boot, cause, current, taken>> /\ put(e)
  BY DEF brokerVars, Repost
<1>2. Booted' /\ Wired' /\ \A t : broker!Subs(t)' = broker!Subs(t)
  BY <1>1, SameVectors DEF SystemInv
<1>3. TypeOK /\ BrokerInv /\ Known /\ Increasing /\ Reached /\ FirstTime /\ Causes
  BY DEF SystemInv, HandlerInv
<1>4. e \in 0 .. MaxEvents /\ Contains(Held, e)
  BY RepostedIs
<1>. HIDE DEF e
<1>5. /\ Len(Held') = Len(Held) + 1 /\ Len(Held) \in Nat
      /\ \A i \in 1 .. Len(Held) : Held'[i] = Held[i]
      /\ Held'[Len(Held) + 1] = e
  BY <1>1, <1>3, <1>4, HeldType, HeldPut
<1>6. PICK k \in 1 .. Len(Held) : Held[k] = e
  BY <1>4 DEF Contains
<1>7. \A i \in 1 .. Len(Held') : \E m \in 1 .. Len(Held) : Held'[i] = Held[m]
  BY <1>5, <1>6
<1>8. Known'
  <2>1. ASSUME NEW i \in 1 .. Len(Held')
        PROVE  Held'[i] <= posted /\ (Held'[i] # Pill => Contains(received["log"], Held'[i]))
    BY <1>3, <1>7 DEF Known
  <2>. QED BY <1>1, <1>3, <2>1 DEF Known, Pill
<1>9. Increasing'
  <2>1. SUFFICES ASSUME NEW i \in 1 .. Len(Held'), NEW j \in 1 .. Len(Held'), i < j,
                        Held'[i] # Pill, Held'[j] # Pill, Fresh(Held', j)
                 PROVE  Held'[i] < Held'[j]
    BY DEF Increasing, Fresh, Pill
  <2>2. j # Len(Held) + 1
    <3>1. ASSUME j = Len(Held) + 1 PROVE FALSE
      <4>1. k \in 1 .. j - 1 /\ Held'[k] = Held'[j]
        BY <1>5, <1>6, <3>1
      <4>. QED BY <2>1, <4>1 DEF Fresh
    <3>. QED BY <3>1
  <2>3. /\ i \in 1 .. Len(Held) /\ j \in 1 .. Len(Held)
        /\ Held'[i] = Held[i] /\ Held'[j] = Held[j]
    BY <1>5, <2>1, <2>2
  <2>4. Fresh(Held, j)
    BY <1>5, <2>1, <2>3 DEF Fresh
  <2>. QED BY <1>3, <2>1, <2>3, <2>4 DEF Increasing
<1>10. Reached'
  BY <1>1, <1>2, <1>3 DEF Reached
<1>11. FirstTime'
  <2>1. \A x : Contains(Held', x) => Contains(Held, x)
    BY <1>7 DEF Contains
  <2>. QED BY <1>1, <1>2, <1>3, <2>1 DEF FirstTime
<1>12. Causes'
  BY <1>1, <1>3 DEF Causes
<1>. QED BY <1>2, <1>8, <1>9, <1>10, <1>11, <1>12

----------------------------------------------------------------------------
\* The places an event can be at.
LEMMA SamePlaces ==
  ASSUME SystemInv, UNCHANGED <<queue, taken, deferred_events>>, replaying' \in BOOLEAN,
         worker' = "handle" => worker = "handle" /\ current' = current
  PROVE  Aside' /\ OnePlace'
<1>1. Aside /\ OnePlace
  BY DEF SystemInv
<1>2. Aside'
  <2>1. /\ deferred_events' \in Seq(1 .. MaxEvents) /\ Len(deferred_events') <= Capacity
    BY <1>1 DEF Aside
  <2>2. /\ \A e \in 1 .. MaxEvents : Contains(deferred_events', e) => Contains(taken', e)
        /\ worker' = "handle" => Contains(taken', current')
    BY <1>1, Zenon DEF Aside
  <2>. QED BY <2>1, <2>2 DEF Aside
<1>3. OnePlace'
  BY <1>1, Zenon DEF OnePlace, Distinct
<1>. QED BY <1>2, <1>3

\* An event that is at no place, or was put aside and leaves the ring, enters the
\* queue.
LEMMA PutPlaces ==
  ASSUME SystemInv, NEW e \in 0 .. MaxEvents, put(e), UNCHANGED <<taken, current>>,
         ~Contains(queue, e), worker = "handle" => current # e,
         deferred_events' \in Seq(1 .. MaxEvents), Len(deferred_events') <= Capacity,
         Distinct(deferred_events'), ~Contains(deferred_events', e),
         \A x : Contains(deferred_events', x) => Contains(deferred_events, x),
         replaying' \in BOOLEAN
  PROVE  Aside' /\ OnePlace'
<1>1. Aside /\ OnePlace /\ queue \in Seq(0 .. MaxEvents)
  BY DEF SystemInv, HandlerInv, TypeOK
<1>2. queue' = Append(queue, e) /\ (worker' = "handle" => worker = "handle")
  BY DEF put
<1>3. Distinct(queue')
  BY <1>1, <1>2, DistinctAppend DEF OnePlace
<1>4. \A x : Contains(queue', x) <=> Contains(queue, x) \/ x = e
  BY <1>1, <1>2, ContainsAppend
<1>5. Aside'
  <2>1. /\ \A x \in 1 .. MaxEvents : Contains(deferred_events', x) => Contains(taken', x)
        /\ worker' = "handle" => Contains(taken', current')
    BY <1>1, <1>2, Zenon DEF Aside
  <2>. QED BY <2>1 DEF Aside
<1>6. \A x \in 0 .. MaxEvents : ~(Contains(queue', x) /\ Contains(deferred_events', x))
  BY <1>1, <1>4, Zenon DEF OnePlace
<1>7. worker' = "handle" => ~Contains(queue', current') /\ ~Contains(deferred_events', current')
  BY <1>1, <1>2, <1>4, Zenon DEF OnePlace
<1>. QED BY <1>3, <1>5, <1>6, <1>7 DEF OnePlace, Distinct

\* get() moves the first of the queue to the controller's hand.
LEMMA GetPlaces ==
  ASSUME SystemInv, Get, UNCHANGED deferred_events, replaying' \in BOOLEAN
  PROVE  Aside' /\ OnePlace'
<1>1. /\ Aside /\ OnePlace /\ queue \in Seq(0 .. MaxEvents) /\ taken \in Seq(0 .. MaxEvents)
      /\ queue # << >>
  BY DEF SystemInv, HandlerInv, TypeOK, Get
<1>2. current' = Head(queue) /\ queue' = Tail(queue) /\ taken' = Append(taken, current')
  BY DEF Get
<1>3. current' \in 0 .. MaxEvents /\ Distinct(queue') /\ ~Contains(queue', current')
  BY <1>1, <1>2, Behead, DistinctTail DEF OnePlace
<1>4. \A x : Contains(queue, x) <=> Contains(queue', x) \/ x = current'
  BY <1>1, <1>2, ContainsTail
<1>5. \A x : Contains(taken', x) <=> Contains(taken, x) \/ x = current'
  BY <1>1, <1>2, <1>3, ContainsAppend
<1>6. Aside'
  <2>1. deferred_events' \in Seq(1 .. MaxEvents) /\ Len(deferred_events') <= Capacity
    BY <1>1 DEF Aside
  <2>2. \A x \in 1 .. MaxEvents : Contains(deferred_events', x) => Contains(taken', x)
    BY <1>1, <1>5, Zenon DEF Aside
  <2>. QED BY <1>5, <2>1, <2>2 DEF Aside
<1>7. \A x \in 0 .. MaxEvents : ~(Contains(queue', x) /\ Contains(deferred_events', x))
  BY <1>1, <1>4, Zenon DEF OnePlace
<1>8. ~Contains(deferred_events', current')
  BY <1>1, <1>3, <1>4, Zenon DEF OnePlace
<1>9. Distinct(deferred_events')
  BY <1>1 DEF OnePlace
<1>. QED BY <1>3, <1>6, <1>7, <1>8, <1>9 DEF OnePlace, Distinct

\* Defer moves it from there to the ring, which may lose its oldest.
LEMMA DeferPlaces ==
  ASSUME SystemInv, Defer
  PROVE  Aside' /\ OnePlace'
<1>. DEFINE d == IF Len(deferred_events) = Capacity THEN Tail(deferred_events) ELSE deferred_events
<1>1. /\ Aside /\ OnePlace /\ deferred_events \in Seq(1 .. MaxEvents)
      /\ Len(deferred_events) <= Capacity /\ replaying \in BOOLEAN
  BY DEF SystemInv, Aside
<1>2. /\ worker = "handle" /\ worker' = "test" /\ UNCHANGED <<queue, taken, replaying>>
      /\ deferred_events' = Append(d, current)
  BY DEF Defer, Handled
<1>3. current \in 1 .. MaxEvents
  <2>1. current # None /\ current # Pill /\ current \in None .. MaxEvents
    BY <1>2 DEF Defer, SystemInv, HandlerInv, InHand, TypeOK
  <2>. QED BY <2>1 DEF None, Pill
<1>4. /\ d \in Seq(1 .. MaxEvents) /\ Len(d) < Capacity /\ Distinct(d)
      /\ \A x : Contains(d, x) => Contains(deferred_events, x)
  <2>1. CASE Len(deferred_events) = Capacity
    <3>1. deferred_events # << >> /\ d = Tail(deferred_events)
      BY <1>1, <2>1
    <3>2. d \in Seq(1 .. MaxEvents) /\ Len(d) = Capacity - 1
      BY <1>1, <2>1, <3>1, Behead
    <3>3. Distinct(d)
      BY <1>1, <3>1, DistinctTail DEF OnePlace
    <3>4. \A x : Contains(d, x) => Contains(deferred_events, x)
      BY <1>1, <3>1, ContainsTail
    <3>. QED BY <3>2, <3>3, <3>4
  <2>2. CASE Len(deferred_events) # Capacity
    <3>1. d = deferred_events /\ Len(d) < Capacity
      BY <1>1, <2>2
    <3>. QED BY <1>1, <3>1 DEF OnePlace
  <2>. QED BY <2>1, <2>2
<1>. HIDE DEF d
<1>5. ~Contains(queue, current) /\ ~Contains(deferred_events, current) /\ Contains(taken, current)
  BY <1>1, <1>2, Zenon DEF OnePlace, Aside
<1>6. deferred_events' \in Seq(1 .. MaxEvents) /\ Len(deferred_events') <= Capacity
  BY <1>2, <1>3, <1>4, Appended
<1>7. Distinct(deferred_events')
  BY <1>2, <1>3, <1>4, <1>5, DistinctAppend
<1>8. \A x : Contains(deferred_events', x) => Contains(deferred_events, x) \/ x = current
  BY <1>2, <1>3, <1>4, ContainsAppend
<1>9. Aside'
  <2>1. \A x \in 1 .. MaxEvents : Contains(deferred_events', x) => Contains(taken', x)
    BY <1>1, <1>2, <1>5, <1>8, Zenon DEF Aside
  <2>. QED BY <1>1, <1>2, <1>6, <2>1 DEF Aside
<1>10. \A x \in 0 .. MaxEvents : ~(Contains(queue', x) /\ Contains(deferred_events', x))
  BY <1>1, <1>2, <1>5, <1>8, Zenon DEF OnePlace
<1>11. Distinct(queue')
  BY <1>1, <1>2 DEF OnePlace
<1>. QED BY <1>2, <1>7, <1>9, <1>10, <1>11 DEF OnePlace, Distinct

LEMMA RepostPlaces ==
  ASSUME SystemInv, Repost
  PROVE  Aside' /\ OnePlace'
<1>. DEFINE e == Head(deferred_events)
            d == Tail(deferred_events)
<1>1. /\ Aside /\ OnePlace /\ deferred_events \in Seq(1 .. MaxEvents)
      /\ Len(deferred_events) <= Capacity /\ deferred_events # << >>
  BY DEF SystemInv, Aside, Repost
<1>2. /\ put(e) /\ deferred_events' = d /\ replaying' \in BOOLEAN
      /\ UNCHANGED <<taken, current>> /\ worker = "handle"
  BY DEF Repost
<1>3. e \in 1 .. MaxEvents /\ Contains(deferred_events, e) /\ ~Contains(queue, e)
  BY RepostedIs
<1>4. d \in Seq(1 .. MaxEvents) /\ Len(d) <= Capacity
  <2>1. d \in Seq(1 .. MaxEvents) /\ Len(d) = Len(deferred_events) - 1 /\ Len(deferred_events) \in Nat
    BY <1>1, Behead
  <2>. QED BY <1>1, <2>1
<1>5. Distinct(d) /\ ~Contains(d, e)
  BY <1>1, DistinctTail DEF OnePlace
<1>6. \A x : Contains(d, x) => Contains(deferred_events, x)
  BY <1>1, ContainsTail
<1>. HIDE DEF e, d
<1>7. current # e
  BY <1>1, <1>2, <1>3, Zenon DEF OnePlace
<1>8. e \in 0 .. MaxEvents
  BY <1>3
<1>. QED BY <1>2, <1>3, <1>4, <1>5, <1>6, <1>7, <1>8, PutPlaces

LEMMA PillPlaces ==
  ASSUME SystemInv, PutPill, UNCHANGED aside
  PROVE  Aside' /\ OnePlace'
<1>1. /\ Aside /\ OnePlace /\ deferred_events \in Seq(1 .. MaxEvents)
      /\ Len(deferred_events) <= Capacity /\ replaying \in BOOLEAN /\ HandlerInv
  BY DEF SystemInv, Aside
<1>2. owner = "stopping" /\ ~stopped /\ put(Pill) /\ UNCHANGED <<taken, current>>
  BY <1>1 DEF HandlerInv, Lifecycle, PutPill
<1>3. /\ \A i \in 1 .. Len(queue) : queue[i] # Pill
      /\ \A i \in 1 .. Len(taken) : taken[i] # Pill
  BY <1>1, <1>2 DEF HandlerInv, PillQueued, PillTaken
<1>4. ~Contains(queue, Pill) /\ ~Contains(taken, Pill)
  BY <1>3 DEF Contains
<1>5. worker = "handle" => current # Pill
  BY <1>1, <1>4, Zenon DEF Aside
<1>6. ~Contains(deferred_events, Pill)
  <2>1. \A i \in 1 .. Len(deferred_events) : deferred_events[i] # Pill
    BY <1>1 DEF Pill
  <2>. QED BY <2>1 DEF Contains
<1>7. Pill \in 0 .. MaxEvents
  BY DEF Pill
<1>8. deferred_events' = deferred_events /\ replaying' = replaying
  BY DEF aside
<1>9. Distinct(deferred_events)
  BY <1>1 DEF OnePlace
<1>. QED BY <1>1, <1>2, <1>4, <1>5, <1>6, <1>7, <1>8, <1>9, PutPlaces

LEMMA DeliverPlaces ==
  ASSUME SystemInv, NEW th \in Threads, Deliver(th)
  PROVE  Aside' /\ OnePlace'
<1>1. /\ Aside /\ OnePlace /\ deferred_events \in Seq(1 .. MaxEvents)
      /\ Len(deferred_events) <= Capacity /\ replaying \in BOOLEAN /\ TypeOK
  BY DEF SystemInv, Aside, HandlerInv
<1>2. /\ calls[th].ev = posted /\ posted \in 1 .. MaxEvents /\ broker!postEvent(th)
      /\ UNCHANGED <<taken, current>> /\ deferred_events' = deferred_events /\ replaying' = replaying
  BY Called DEF Deliver, aside
<1>3. CASE broker!Subs(calls[th].topic)[calls[th].it] = "controller"
  <2>1. put(posted) /\ ~Contains(Held, posted)
    BY <1>2, <1>3, NewToController DEF Deliver
  <2>2. ~Contains(queue, posted) /\ ~Contains(taken, posted)
    BY <1>1, <2>1, HeldContains
  <2>3. ~Contains(deferred_events, posted) /\ (worker = "handle" => current # posted)
    BY <1>1, <1>2, <2>2, Zenon DEF Aside
  <2>4. posted \in 0 .. MaxEvents
    BY <1>2
  <2>5. Distinct(deferred_events)
    BY <1>1 DEF OnePlace
  <2>. QED BY <1>1, <1>2, <2>1, <2>2, <2>3, <2>4, <2>5, PutPlaces
<1>4. CASE broker!Subs(calls[th].topic)[calls[th].it] # "controller"
  <2>1. UNCHANGED <<queue, worker>>
    BY <1>4 DEF Deliver
  <2>. QED BY <1>1, <1>2, <2>1, SamePlaces
<1>. QED BY <1>3, <1>4

LEMMA AsideStep ==
  ASSUME SystemInv, SystemNext
  PROVE  Aside' /\ OnePlace'
<1>0. replaying \in BOOLEAN
  BY DEF SystemInv, Aside
<1>1. CASE Subscribe \/ (\E t \in Topics : Sniff(t)) \/ Inject \/ Report \/ (\E th \in Threads : Return(th))
  <2>1. UNCHANGED vars /\ UNCHANGED aside
    BY <1>1 DEF Subscribe, Sniff, Inject, Report, Return
  <2>. QED BY <1>0, <2>1, SamePlaces DEF vars, aside
<1>2. CASE \E th \in Threads : Deliver(th)
  BY <1>2, DeliverPlaces
<1>3. CASE Defer
  BY <1>3, DeferPlaces
<1>4. CASE Repost
  BY <1>4, RepostPlaces
<1>5. CASE Start \/ WorkOn \/ WakeIt \/ StopIt \/ FinishIt
  <2>1. /\ deferred_events' = deferred_events /\ replaying' \in BOOLEAN
        /\ Launch \/ RaiseFlag \/ Finish \/ Work \/ WakeSpuriously
    BY <1>0, <1>5 DEF Start, WorkOn, WakeIt, StopIt, FinishIt, aside
  <2>2. CASE PutPill
    <3>1. UNCHANGED aside
      BY <1>5, <2>2 DEF Start, WorkOn, WakeIt, StopIt, FinishIt, PutPill, Launch, RaiseFlag, Work,
                        Test, Get, Wait, Handled, WakeSpuriously
    <3>. QED BY <2>2, <3>1, PillPlaces
  <2>3. CASE Get
    BY <2>1, <2>3, GetPlaces
  <2>4. CASE Launch \/ RaiseFlag \/ Started \/ Join \/ Test \/ Wait \/ Handled \/ WakeSpuriously
    <3>1. UNCHANGED <<queue, taken>>
      BY <2>4 DEF Launch, RaiseFlag, Started, Join, Test, Wait, Handled, WakeSpuriously
    <3>2. worker' = "handle" => worker = "handle" /\ current' = current
      BY <2>4 DEF Launch, RaiseFlag, Started, Join, Test, Wait, Handled, WakeSpuriously
    <3>. QED BY <2>1, <3>1, <3>2, SamePlaces
  <2>. QED BY <2>1, <2>2, <2>3, <2>4 DEF Finish, Work
<1>. QED BY <1>1, <1>2, <1>3, <1>4, <1>5 DEF SystemNext, Control, Post

----------------------------------------------------------------------------
\* Every step of the system is a step of its event handler or leaves it alone.
LEMMA HandlerSteps ==
  ASSUME SystemInv, SystemNext
  PROVE  [Next]_vars
<1>1. CASE Subscribe \/ (\E t \in Topics : Sniff(t)) \/ Inject \/ Report
  BY <1>1 DEF Subscribe, Sniff, Inject, Report
<1>2. CASE \E th \in Threads : Return(th)
  BY <1>2 DEF Return
<1>3. ASSUME NEW th \in Threads, Deliver(th) PROVE [Next]_vars
  <2>1. /\ broker!postEvent(th) /\ calls[th].ev = posted /\ posted \in 1 .. MaxEvents
        /\ UNCHANGED <<flags, owner, current, synced, taken>>
    BY <1>3, Called DEF Deliver
  <2>2. CASE broker!Subs(calls[th].topic)[calls[th].it] = "controller"
    <3>1. put(posted)
      BY <1>3, <2>1, <2>2 DEF Deliver
    <3>2. ~Contains(queue, posted)
      BY <2>1, <2>2, NewToController, HeldContains DEF SystemInv, HandlerInv
    <3>3. postEvent(posted)
      BY <2>1, <3>1, <3>2 DEF postEvent
    <3>. QED BY <2>1, <3>3 DEF Next
  <2>3. CASE broker!Subs(calls[th].topic)[calls[th].it] # "controller"
    BY <1>3, <2>3 DEF Deliver, vars, flags
  <2>. QED BY <2>2, <2>3
<1>4. CASE Start \/ WorkOn \/ Defer \/ WakeIt \/ StopIt \/ FinishIt
  BY <1>4 DEF Start, WorkOn, Defer, WakeIt, StopIt, FinishIt, Next, Work
<1>5. CASE Repost
  <2>. DEFINE e == Head(deferred_events)
  <2>1. e \in 1 .. MaxEvents /\ ~Contains(queue, e)
    BY <1>5, RepostedIs
  <2>2. postEvent(e)
    BY <1>5, <2>1 DEF Repost, postEvent
  <2>. QED BY <2>1, <2>2 DEF Next
<1>. QED BY <1>1, <1>2, <1>3, <1>4, <1>5 DEF SystemNext, Control, Post

LEMMA SystemInvInit == SystemInit => SystemInv
<1>. SUFFICES ASSUME SystemInit PROVE SystemInv
  OBVIOUS
<1>1. Init /\ broker!Init /\ boot = 1 /\ DOMAIN cause = {}
  BY DEF SystemInit
<1>2. HandlerInv
  BY <1>1, HandlerInvInit
<1>3. BrokerInv
  BY <1>1, SameState, BrokerBounds, brokerProofs!BrokerInit DEF BrokerInv
<1>4. DOMAIN subscribers = {} /\ DOMAIN calls = {} /\ posted = 0
  BY <1>1 DEF broker!Init, broker!NoFunction
<1>5. \A t : broker!Subs(t) = << >>
  BY <1>4 DEF broker!Subs
<1>6. Booted
  BY <1>1, <1>5 DEF Booted, Contains
<1>7. Wired
  BY <1>5 DEF Wired
<1>8. Held = << >> /\ current = -1
  BY <1>1 DEF Init, Held, None
<1>9. Known /\ Increasing
  BY <1>4, <1>8 DEF Known, Increasing
<1>10. Reached /\ FirstTime /\ Causes
  BY <1>1, <1>4 DEF Reached, FirstTime, Causes
<1>11. Aside /\ OnePlace
  <2>1. deferred_events = << >> /\ replaying = FALSE /\ worker = "none" /\ queue = << >>
    BY <1>1 DEF SystemInit, Init
  <2>2. deferred_events \in Seq(1 .. MaxEvents) /\ Len(deferred_events) = 0 /\ Len(queue) = 0
    BY <2>1
  <2>3. Distinct(queue) /\ Distinct(deferred_events)
    BY <2>2 DEF Distinct
  <2>4. \A e : ~Contains(deferred_events, e)
    BY <2>2 DEF Contains
  <2>5. Len(deferred_events) <= Capacity
    BY <2>2
  <2>6. replaying \in BOOLEAN
    BY <2>1, Zenon
  <2>7. worker # "handle"
    BY <2>1
  <2>8. Aside
    BY <2>2, <2>4, <2>5, <2>7, <2>6, Zenon DEF Aside
  <2>9. OnePlace
    BY <2>3, <2>4, <2>7, Zenon DEF OnePlace
  <2>. QED BY <2>8, <2>9
<1>. QED BY <1>2, <1>3, <1>6, <1>7, <1>9, <1>10, <1>11 DEF SystemInv

LEMMA SystemInvStep == SystemInv /\ [SystemNext]_systemVars => SystemInv'
<1>. DEFINE Rest == Booted /\ Wired /\ Known /\ Increasing /\ Reached /\ FirstTime /\ Causes
<1>1. ASSUME SystemInv, SystemNext PROVE SystemInv'
  <2>1. HandlerInv'
    BY <1>1, HandlerSteps, HandlerInvStep DEF SystemInv
  <2>2. BrokerInv'
    <3>1. boot \in 1 .. Len(initOrder) + 1
      BY <1>1, InitOrder DEF SystemInv, Booted
    <3>2. [brokerProofs!Next]_(brokerProofs!vars)
      BY <1>1, <3>1, BrokerSteps
    <3>. QED BY <1>1, <3>2, BrokerBounds, brokerProofs!BrokerStep DEF SystemInv, BrokerInv
  <2>3. Rest'
    <3>1. CASE Subscribe
      BY <1>1, <3>1, SubscribeStep
    <3>2. CASE \E t \in Topics : Sniff(t)
      BY <1>1, <3>2, SniffStep
    <3>3. CASE Inject
      BY <1>1, <3>3, InjectStep
    <3>4. CASE Report
      BY <1>1, <3>4, ReportStep
    <3>5. CASE \E th \in Threads : Post(th)
      BY <1>1, <3>5, DeliverStep, ReturnStep DEF Post
    <3>6. CASE Start \/ WorkOn \/ Defer \/ WakeIt \/ StopIt \/ FinishIt
      <4>1. /\ UNCHANGED <<brokerVars, boot, cause>>
            /\ Launch \/ RaiseFlag \/ Finish \/ Work \/ WakeSpuriously
        BY <3>6 DEF Start, WorkOn, Defer, WakeIt, StopIt, FinishIt, Work
      <4>. QED BY <1>1, <4>1, OwnStep
    <3>7. CASE Repost
      BY <1>1, <3>7, RepostStep
    <3>. QED BY <1>1, <3>1, <3>2, <3>3, <3>4, <3>5, <3>6, <3>7 DEF SystemNext, Control
  <2>4. Aside' /\ OnePlace'
    BY <1>1, AsideStep
  <2>. QED BY <2>1, <2>2, <2>3, <2>4 DEF SystemInv
<1>2. ASSUME SystemInv, UNCHANGED systemVars PROVE SystemInv'
  <2>1. UNCHANGED vars /\ UNCHANGED <<brokerVars, boot, cause>> /\ UNCHANGED aside
    BY <1>2 DEF systemVars
  <2>2. HandlerInv'
    BY <1>2, <2>1, HandlerInvStep DEF SystemInv
  <2>3. BrokerInv'
    <3>1. UNCHANGED brokerProofs!vars
      BY <2>1 DEF brokerVars, brokerProofs!vars
    <3>. QED BY <1>2, <3>1, BrokerBounds, brokerProofs!BrokerStep DEF SystemInv, BrokerInv
  <2>4. Held' = Held /\ current' <= posted
    BY <1>2, <2>1 DEF Held, vars, SystemInv, Known
  <2>5. Rest'
    BY <1>2, <2>1, <2>4, SameHeld
  <2>6. Aside' /\ OnePlace'
    <3>1. UNCHANGED <<queue, taken, deferred_events, replaying, worker, current>>
      BY <2>1 DEF vars, aside
    <3>2. replaying' \in BOOLEAN
      BY <1>2, <3>1, Zenon DEF SystemInv, Aside
    <3>. QED BY <1>2, <3>1, <3>2, SamePlaces
  <2>. QED BY <2>2, <2>3, <2>5, <2>6 DEF SystemInv
<1>. QED BY <1>1, <1>2

LEMMA SystemInvHolds == SystemSpec => []SystemInv
<1>. QED BY SystemInvInit, SystemInvStep, PTL DEF SystemSpec

----------------------------------------------------------------------------
LEMMA SystemInvTypes == SystemInv => SystemTypeOK
<1>. SUFFICES ASSUME SystemInv PROVE SystemTypeOK
  OBVIOUS
<1>1. TypeOK
  BY DEF SystemInv, HandlerInv
<1>2. broker!TypeOK
  BY SameState DEF SystemInv, BrokerInv, brokerProofs!BrokerInv
<1>3. boot \in 1 .. Len(initOrder) + 1 /\ DOMAIN cause \subseteq 1 .. MaxEvents
  BY InitOrder DEF SystemInv, Booted, Causes
<1>4. deferred_events \in Seq(1 .. MaxEvents) /\ Len(deferred_events) <= Capacity /\ replaying \in BOOLEAN
  BY DEF SystemInv, Aside
<1>. QED BY <1>1, <1>2, <1>3, <1>4 DEF SystemTypeOK

\* Every variable of the composed system keeps its type (main.cpp's threads,
\* EventBroker and EventHandler together), for every number of events.
THEOREM SystemTypes == SystemSpec => []SystemTypeOK
<1>. QED BY SystemInvHolds, SystemInvTypes, PTL

LEMMA CausesInOrder == SystemInv => CausalOrder
<1>. SUFFICES ASSUME SystemInv, NEW e \in DOMAIN cause, NEW h \in Handlers, broker!Before(h, e, cause[e])
              PROVE  FALSE
  BY DEF CausalOrder
<1>1. e \in Nat /\ cause[e] \in Nat /\ cause[e] < e
  BY DEF SystemInv, Causes
<1>2. PICK i \in 1 .. Len(received[h]), j \in 1 .. Len(received[h]) :
        i < j /\ received[h][i] = e /\ received[h][j] = cause[e]
  BY DEF broker!Before
<1>3. e <= cause[e]
  BY <1>2, InOrder DEF SystemInv
<1>. QED BY <1>1, <1>3

\* No subscriber sees a result before the event it came of, although the
\* controller's thread posts results while the post() that brought the event may
\* still be calling others (EventBroker::post holds mtx_subscribers).
THEOREM ResultsFollowCauses == SystemSpec => []CausalOrder
<1>. QED BY SystemInvHolds, CausesInOrder, PTL

LEMMA LogIsAhead == SystemInv => ActsOnLog
<1>. SUFFICES ASSUME SystemInv, NEW j \in 1 .. Len(taken), taken[j] # Pill
              PROVE  /\ Contains(received["log"], taken[j])
                     /\ (\A i \in 1 .. j - 1 : taken[i] # taken[j]) =>
                          \A i \in 1 .. j - 1 : taken[i] # Pill => broker!Before("log", taken[i], taken[j])
  BY DEF ActsOnLog
<1>. DEFINE L == received["log"]
<1>1. /\ Len(taken) \in Nat /\ Len(Held) \in Nat /\ Len(Held) >= Len(taken)
      /\ \A i \in 1 .. Len(taken) : Held[i] = taken[i] /\ taken[i] \in Int
  BY HeldType DEF SystemInv, HandlerInv
<1>2. \A i \in 1 .. Len(taken) : taken[i] # Pill => Contains(L, taken[i])
  BY <1>1 DEF SystemInv, Known
<1>3. ASSUME \A k \in 1 .. j - 1 : taken[k] # taken[j], NEW i \in 1 .. j - 1, taken[i] # Pill
      PROVE  broker!Before("log", taken[i], taken[j])
  <2>1. i \in 1 .. Len(taken) /\ i < j
    BY <1>1
  <2>0. Fresh(Held, j)
    BY <1>1, <1>3 DEF Fresh
  <2>2. taken[i] < taken[j]
    BY <1>1, <1>3, <2>0, <2>1 DEF SystemInv, Increasing
  <2>3. PICK k \in 1 .. Len(L) : L[k] = taken[i]
    BY <1>2, <1>3, <2>1 DEF Contains
  <2>4. PICK m \in 1 .. Len(L) : L[m] = taken[j]
    BY <1>2 DEF Contains
  <2>5. \A x, y \in 1 .. Len(L) : x < y => L[x] <= L[y]
    BY InOrder DEF SystemInv, Handlers
  <2>6. k < m
    <3>1. L[k] < L[m] /\ L[k] \in Int /\ L[m] \in Int /\ k # m
      BY <1>1, <2>1, <2>2, <2>3, <2>4
    <3>2. ~ (m < k)
      BY <2>5, <3>1
    <3>. QED BY <3>1, <3>2
  <2>. QED BY <2>3, <2>4, <2>6 DEF broker!Before
<1>. QED BY <1>2, <1>3

\* The controller acts on nothing the log has not seen before, and takes an event
\* for the first time in the log's order, behind all it has taken until then, also
\* while init() is still subscribing them (main.cpp's init()) and although deferred
\* commands come back past the log (entry of stateIdle in CameraManager.cpp).
THEOREM LogComesFirst == SystemSpec => []ActsOnLog
<1>. QED BY SystemInvHolds, LogIsAhead, PTL

\* The safety half of ImplementsHandler: composed with the broker, the controller
\* is still the EventHandler of its module, no event being in its queue twice,
\* although the controller posts to itself as well.  Fairness, the other half, is
\* left to the run.
THEOREM HandlerImplemented == SystemSpec => Spec
<1>1. SystemInit => Init
  BY DEF SystemInit
<1>2. SystemInv /\ [SystemNext]_systemVars => [Next]_vars
  BY HandlerSteps DEF systemVars
<1>. QED BY <1>1, <1>2, SystemInvHolds, PTL DEF SystemSpec, Spec

\* The broker that main.cpp's threads use is the one of EventBroker, so that no
\* post() reaches a deleted subscriber and all see the events in one order.
THEOREM BrokerImplemented == SystemSpec => [](broker!NoDeadCall /\ broker!SameOrder)
<1>1. BrokerInv => broker!NoDeadCall
  <2>1. BrokerInv => brokerProofs!NoDeadCall
    BY BrokerBounds, brokerProofs!LiveCalls DEF BrokerInv
  <2>2. brokerProofs!NoDeadCall => broker!NoDeadCall
    BY DEF broker!NoDeadCall, brokerProofs!NoDeadCall, broker!Subs, brokerProofs!Subs
  <2>. QED BY <2>1, <2>2
<1>2. BrokerInv => broker!SameOrder
  <2>1. BrokerInv => brokerProofs!SameOrder
    BY BrokerBounds, brokerProofs!OneOrder DEF BrokerInv
  <2>2. brokerProofs!SameOrder => broker!SameOrder
    BY DEF broker!SameOrder, brokerProofs!SameOrder, broker!Before, brokerProofs!Before
  <2>. QED BY <2>1, <2>2
<1>3. SystemInv => broker!NoDeadCall /\ broker!SameOrder
  BY <1>1, <1>2 DEF SystemInv
<1>. QED BY <1>3, SystemInvHolds, PTL

----------------------------------------------------------------------------
\* What the broker has called the controller with, and nothing else, is in the
\* controller's queue or was taken from it.
HandedOver == \A e \in 1 .. MaxEvents : Contains(Held, e) <=> Contains(received["controller"], e)

LEMMA HandedOverStep ==
  ASSUME SystemInv, SystemInv', HandedOver, [SystemNext]_systemVars
  PROVE  HandedOver'
<1>1. TypeOK /\ Len(Held) \in Nat
  BY HeldType DEF SystemInv, HandlerInv
<1>2. ASSUME Held' = Held, received' = received PROVE HandedOver'
  BY <1>2 DEF HandedOver
<1>3. CASE Subscribe \/ (\E t \in Topics : Sniff(t)) \/ Inject \/ Report
           \/ (\E th \in Threads : Return(th)) \/ UNCHANGED systemVars
  <2>1. received' = received
    BY <1>3 DEF Subscribe, Sniff, Inject, Report, Return, systemVars, brokerVars,
                broker!subscribe, broker!post, broker!postReturns
  <2>2. Held' = Held
    BY <1>3 DEF Subscribe, Sniff, Inject, Report, Return, systemVars, vars, Held
  <2>. QED BY <1>2, <2>1, <2>2
<1>4. CASE Start \/ WorkOn \/ Defer \/ WakeIt \/ StopIt \/ FinishIt
  <2>1. /\ received' = received
        /\ Launch \/ RaiseFlag \/ Finish \/ Work \/ WakeSpuriously
    BY <1>4 DEF Start, WorkOn, Defer, WakeIt, StopIt, FinishIt, brokerVars, Work
  <2>2. CASE PutPill
    <3>1. /\ Len(Held') = Len(Held) + 1 /\ \A i \in 1 .. Len(Held) : Held'[i] = Held[i]
          /\ Held'[Len(Held) + 1] = 0
      BY <1>1, <2>2, HeldPut DEF PutPill, Pill
    <3>2. \A e : Contains(Held', e) <=> Contains(Held, e) \/ e = 0
      BY <1>1, <3>1, ContainsOneMore
    <3>3. \A e \in 1 .. MaxEvents : e # 0
      OBVIOUS
    <3>. QED BY <2>1, <3>2, <3>3 DEF HandedOver
  <2>3. CASE Get
    BY <1>1, <1>2, <2>1, <2>3, HeldGet
  <2>4. CASE Launch \/ RaiseFlag \/ Started \/ Join \/ Test \/ Wait \/ Handled \/ WakeSpuriously
    <3>1. Held' = Held
      BY <2>4 DEF Held, Launch, RaiseFlag, Started, Join, Test, Wait, Handled, WakeSpuriously
    <3>. QED BY <1>2, <2>1, <3>1
  <2>. QED BY <2>1, <2>2, <2>3, <2>4 DEF Finish, Work
<1>5. ASSUME NEW th \in Threads, Deliver(th) PROVE HandedOver'
  <2>. DEFINE h == broker!Subs(calls[th].topic)[calls[th].it]
              r == received["controller"]
  <2>1. /\ broker!postEvent(th) /\ calls[th].ev = posted /\ posted \in 1 .. MaxEvents
        /\ h \in Handlers /\ taken' = taken
    BY <1>5, Called DEF Deliver
  <2>2. received \in [Handlers -> Seq(1 .. MaxEvents)] /\ "controller" \in Handlers
    BY BrokerFacts DEF SystemInv, Handlers
  <2>3. received' = [received EXCEPT ![h] = Append(@, posted)]
    BY <2>1 DEF broker!postEvent
  <2>4. CASE h = "controller"
    <3>1. put(posted)
      BY <1>5, <2>1, <2>4 DEF Deliver
    <3>2. /\ Len(Held') = Len(Held) + 1 /\ \A i \in 1 .. Len(Held) : Held'[i] = Held[i]
          /\ Held'[Len(Held) + 1] = posted
      BY <1>1, <2>1, <3>1, HeldPut
    <3>3. \A e : Contains(Held', e) <=> Contains(Held, e) \/ e = posted
      BY <1>1, <3>2, ContainsOneMore
    <3>4. received'["controller"] = Append(r, posted) /\ r \in Seq(1 .. MaxEvents)
      BY <2>2, <2>3, <2>4
    <3>5. \A e : Contains(Append(r, posted), e) <=> Contains(r, e) \/ e = posted
      <4>. HIDE DEF r
      <4>1. /\ Len(r) \in Nat /\ Len(Append(r, posted)) = Len(r) + 1
            /\ \A i \in 1 .. Len(r) : Append(r, posted)[i] = r[i]
            /\ Append(r, posted)[Len(r) + 1] = posted
        BY <2>1, <3>4, Appended
      <4>. QED BY <4>1, ContainsOneMore
    <3>. QED BY <3>3, <3>4, <3>5 DEF HandedOver
  <2>5. CASE h # "controller"
    <3>1. Held' = Held
      BY <1>5, <2>1, <2>5 DEF Deliver, Held
    <3>2. received'["controller"] = r
      BY <2>2, <2>3, <2>5
    <3>. QED BY <3>1, <3>2 DEF HandedOver
  <2>. QED BY <2>4, <2>5
<1>6. CASE Repost
  <2>. DEFINE e == Head(deferred_events)
  <2>1. /\ e \in 0 .. MaxEvents /\ Contains(Held, e)
        /\ put(e) /\ taken' = taken /\ received' = received
    BY <1>6, RepostedIs DEF Repost, brokerVars
  <2>2. /\ Len(Held') = Len(Held) + 1 /\ \A i \in 1 .. Len(Held) : Held'[i] = Held[i]
        /\ Held'[Len(Held) + 1] = e
    BY <1>1, <2>1, HeldPut
  <2>3. \A x : Contains(Held', x) <=> Contains(Held, x)
    BY <1>1, <2>1, <2>2, ContainsOneMore
  <2>. QED BY <2>1, <2>3 DEF HandedOver
<1>. QED BY <1>3, <1>4, <1>5, <1>6 DEF SystemNext, Control, Post

\* Between the broker and the controller's thread no event is lost or invented, and
\* none is handled twice at a time: what the controller was called with is what it
\* has taken or still has in its queue; an event that enters the queue for the
\* first time follows all that were posted before it; and an event that is put
\* aside and posted again (stateConnected and the entry of stateIdle) is at one
\* place at a time, whoever posts and whatever the thread is doing.
THEOREM NothingIsLost == SystemSpec => [](HandedOver /\ Increasing /\ OnePlace)
<1>1. SystemInit => HandedOver
  <2>. SUFFICES ASSUME SystemInit PROVE HandedOver
    OBVIOUS
  <2>1. Held = << >> /\ received["controller"] = << >>
    BY DEF SystemInit, Init, Held, broker!Init, Handlers
  <2>. QED BY <2>1 DEF HandedOver
<1>2. SystemInv /\ SystemInv' /\ HandedOver /\ [SystemNext]_systemVars => HandedOver'
  BY HandedOverStep
<1>3. SystemInv => Increasing /\ OnePlace
  BY DEF SystemInv
<1>. QED BY <1>1, <1>2, <1>3, SystemInvHolds, PTL DEF SystemSpec
=============================================================================
