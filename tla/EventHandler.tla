---------------------------- MODULE EventHandler ----------------------------
(***************************************************************************)
(* events/EventHandler.h on async/ActiveObject.h and collections/SyncQueue.h:*)
(* a thread that takes events from its queue and handles them one by one,   *)
(* until stop() is called.  Three kinds of threads meet here: posters call  *)
(* postEvent(), an owner calls start() and stop(), and the worker runs      *)
(* run().  put() and get() are critical sections of the queue's mutex, so   *)
(* each is one step; a worker that finds the queue empty waits on the       *)
(* condition variable until a put() notifies it.                            *)
(*                                                                          *)
(* should_stop is a plain bool, written by the owner and read by the worker *)
(* without synchronisation: until a get() has synchronised the worker with  *)
(* the owner's put() of the pill, it may read the old value.                *)
(***************************************************************************)
EXTENDS Integers, Sequences, SequencesExt

CONSTANT MaxEvents  \* bound: how many events there are

ASSUME MaxEventsAssumption == MaxEvents \in Nat

Pill == 0           \* the EV_EMPTY event of stop(); posted events are 1 .. MaxEvents
None == -1

VARIABLES queue,      \* SynchronizedQueue::queue
          started, stopped, should_stop,
          owner,      \* what the owner's thread is doing
          worker,     \* what the worker's thread is doing
          current,    \* the event the worker handles
          synced,     \* the worker has synchronised with stop()
          taken       \* history: the elements get() returned, in order

vars == <<queue, started, stopped, should_stop, owner, worker, current, synced,
          taken>>
flags == <<started, stopped, should_stop>>

TypeOK == /\ queue \in Seq(0 .. MaxEvents) /\ taken \in Seq(0 .. MaxEvents)
          /\ started \in BOOLEAN /\ stopped \in BOOLEAN /\ should_stop \in BOOLEAN
          /\ owner \in {"idle", "launched", "stopping", "joining"}
          /\ worker \in {"none", "test", "get", "waiting", "handle", "done"}
          /\ current \in None .. MaxEvents
          /\ synced \in BOOLEAN

Init == /\ queue = << >> /\ taken = << >>
        /\ started = FALSE /\ stopped = FALSE /\ should_stop = FALSE
        /\ owner = "idle" /\ worker = "none"
        /\ current = None
        /\ synced = FALSE

\* Variants with a fault: an append that notifies nobody ...
putSilently(e) == queue' = Append(queue, e) /\ UNCHANGED worker

\* SynchronizedQueue::put: append and notify the waiting thread.
put(e) == /\ queue' = Append(queue, e)
          /\ worker' = IF worker = "waiting" THEN "get" ELSE worker

----------------------------------------------------------------------------
\* An event is not in the queue twice; one that was taken may be posted again.
postEvent(e) == /\ ~Contains(queue, e)
                /\ put(e)
                /\ UNCHANGED <<flags, owner, current, synced, taken>>

\* start(): the thread runs before `started' is set.
Launch == /\ owner = "idle" /\ ~started /\ ~stopped
          /\ worker' = "test"
          /\ owner' = "launched"
          /\ UNCHANGED <<queue, flags, current, synced, taken>>

Started == /\ owner = "launched"
           /\ started' = TRUE
           /\ owner' = "idle"
           /\ UNCHANGED <<queue, stopped, should_stop, worker, current, synced, taken>>

\* ... a stop() that does not raise the flag, puts no pill, or does not wait ...
NoFlag == /\ owner = "idle" /\ started /\ ~stopped
          /\ owner' = "stopping"
          /\ UNCHANGED <<queue, flags, worker, current, synced, taken>>

NoPill == /\ owner = "stopping"
          /\ owner' = "joining"
          /\ UNCHANGED <<queue, flags, worker, current, synced, taken>>

Detach == /\ owner = "joining"
          /\ stopped' = TRUE
          /\ owner' = "idle"
          /\ UNCHANGED <<queue, started, should_stop, worker, current, synced, taken>>

\* stop(): the flag, then the pill, then join().  Every other call of start()
\* and stop() returns without doing anything.
RaiseFlag == /\ owner = "idle" /\ started /\ ~stopped
             /\ should_stop' = TRUE
             /\ owner' = "stopping"
             /\ UNCHANGED <<queue, started, stopped, worker, current, synced, taken>>

PutPill == /\ owner = "stopping"
           /\ put(Pill)
           /\ owner' = "joining"
           /\ UNCHANGED <<flags, current, synced, taken>>

Join == /\ owner = "joining" /\ worker = "done"
        /\ stopped' = TRUE
        /\ owner' = "idle"
        /\ UNCHANGED <<queue, started, should_stop, worker, current, synced, taken>>

\* shouldStop(), as the worker sees it.
shouldStop == IF synced THEN {should_stop} ELSE {should_stop, FALSE}

Test == /\ worker = "test"
        /\ \E stop \in shouldStop : worker' = IF stop THEN "done" ELSE "get"
        /\ UNCHANGED <<queue, flags, owner, current, synced, taken>>

\* ... and a wait() without its predicate, which reads the front of an empty list.
GetUnchecked == /\ worker = "get"
                /\ current' = IF queue = << >> THEN None - 1 ELSE Head(queue)
                /\ queue' = IF queue = << >> THEN queue ELSE Tail(queue)
                /\ taken' = Append(taken, current')
                /\ synced' = (synced \/ owner = "joining")
                /\ worker' = "handle"
                /\ UNCHANGED <<flags, owner>>

\* SynchronizedQueue::get.  Taking the mutex after the owner released it makes
\* what the owner wrote before visible.
Get == /\ worker = "get" /\ queue # << >>
       /\ current' = Head(queue)
       /\ queue' = Tail(queue)
       /\ taken' = Append(taken, current')
       /\ synced' = (synced \/ owner = "joining")
       /\ worker' = "handle"
       /\ UNCHANGED <<flags, owner>>

Wait == /\ worker = "get" /\ queue = << >>
        /\ worker' = "waiting"
        /\ UNCHANGED <<queue, flags, owner, current, synced, taken>>

\* A condition variable may wake a thread for no reason; wait() tests again.
WakeSpuriously == /\ worker = "waiting"
                  /\ worker' = "get"
                  /\ UNCHANGED <<queue, flags, owner, current, synced, taken>>

\* handleEvent() returns.
Handled == /\ worker = "handle"
           /\ worker' = "test"
           /\ current' = None
           /\ UNCHANGED <<queue, flags, owner, synced, taken>>

Work == Test \/ Get \/ Wait \/ Handled
Finish == Started \/ PutPill \/ Join

Next == (\E e \in 1 .. MaxEvents : postEvent(e)) \/ Launch \/ RaiseFlag \/ Finish \/ Work \/ WakeSpuriously

Spec == Init /\ [][Next]_vars

\* The worker is scheduled and its handler returns; calls the owner has begun
\* go on.  Nobody has to post, to start or to stop.
FairSpec == Spec /\ WF_vars(Work) /\ WF_vars(Finish)
----------------------------------------------------------------------------
\* No event is handled behind the pill, although the flag that goes with it is
\* read without synchronisation: the put() and get() of the pill carry it over.
PillIsLast == \A i \in 1 .. Len(taken) : taken[i] = Pill =>
                i = Len(taken) /\ worker \in {"handle", "test", "done"}

\* Once stop() has returned no handler runs and no event is in hand: the object
\* the thread works on may be deleted (cleanUp() in main.cpp does).
QuietWhenStopped == stopped => worker = "done" /\ current = None

\* stop() "joins the thread": it always returns, also when the worker was about
\* to wait, or was waiting, as the flag was raised.
StopReturns == owner = "stopping" ~> stopped

\* Every event that is posted, for the first time or again, leaves the queue, and
\* it leaves it by get(), unless the object is stopped first: no notification of
\* the queue's condition variable is lost.
EventsTaken == \A e \in 1 .. MaxEvents :
                 (started /\ Contains(queue, e)) ~> (~Contains(queue, e) \/ should_stop)
=============================================================================
