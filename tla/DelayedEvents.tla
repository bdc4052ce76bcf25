---------------------------- MODULE DelayedEvents ----------------------------
(***************************************************************************)
(* events/EventBroker.cpp, delayed events: clients schedule and cancel      *)
(* events, and the broker's thread sleeps on a condition variable until the *)
(* first deadline has passed and then posts the event.  The functions       *)
(* clients call are one critical section of mtx_delayed_events each, plus,  *)
(* for postDelayed() and stop(), a notification outside it; the thread      *)
(* holds the mutex whenever it is neither waiting nor posting.  Time is a   *)
(* counter that the deadlines are compared with.                            *)
(***************************************************************************)
EXTENDS Integers, Sequences, FiniteSets, FiniteSetsExt, SequencesExt

CONSTANTS Delays,    \* arguments of postDelayed()
          IdRange,   \* 2^w for the w bits of eventCounter
          MaxEvents, \* bound: calls of postDelayed()
          MaxTime    \* bound: the clock

ASSUME DelaysAssumption == Delays \subseteq Nat
ASSUME BoundsAssumption == IdRange \in Nat \ {0} /\ MaxEvents \in Nat /\ MaxTime \in Nat

Forever == MaxTime + 1   \* wait() without a deadline

VARIABLES delayed_events, eventCounter,
          now,         \* system_clock::now()
          thread,      \* where run() is
          wake,        \* the deadline it waits for
          dev,         \* the event it posts
          notifies,    \* calls of postDelayed() that have still to notify
          should_stop, stopper,
          posted,      \* number of events scheduled
          cancelled,   \* history: the events that were removed or cleared
          dispatched   \* history: the events run() posted, and when

vars == <<delayed_events, eventCounter, now, thread, wake, dev, notifies,
          should_stop, stopper, posted, cancelled, dispatched>>
clients == <<eventCounter, notifies, posted>>
history == <<cancelled, dispatched>>
stopping == <<should_stop, stopper>>

\* `ev' stands for the event and its topic and numbers the calls.
DelayedEvent == [sched_id : 0 .. IdRange - 1, ev : 1 .. MaxEvents,
                 deadline : 0 .. MaxTime]

TypeOK == /\ delayed_events \in Seq(DelayedEvent)
          /\ eventCounter \in 0 .. IdRange - 1
          /\ now \in 0 .. MaxTime
          /\ thread \in {"start", "test", "decided", "waiting", "woken", "check", "posting", "done"}
          /\ wake \in 0 .. Forever
          /\ dev \in Seq(DelayedEvent) /\ Len(dev) <= 1
          /\ notifies \in 0 .. MaxEvents
          /\ should_stop \in BOOLEAN
          /\ stopper \in {"none", "raised", "joining", "stopped"}
          /\ posted \in 0 .. MaxEvents
          /\ cancelled \subseteq 1 .. MaxEvents
          /\ dispatched \in Seq([event : DelayedEvent, time : 0 .. MaxTime])

Init == /\ delayed_events = << >>
        /\ eventCounter = 0
        /\ now = 0
        /\ thread = "start"
        /\ wake = Forever
        /\ dev = << >>
        /\ notifies = 0
        /\ should_stop = FALSE /\ stopper = "none"
        /\ posted = 0
        /\ cancelled = {}
        /\ dispatched = << >>

\* run() holds mtx_delayed_events.
Locked == thread \in {"test", "decided", "check"}

\* A variant with a fault: in front of the events that have the same deadline.
insertInFront(events, e) ==
  LET later == {i \in 1 .. Len(events) : e.deadline <= events[i].deadline}
  IN  InsertAt(events, IF later = {} THEN Len(events) + 1 ELSE Min(later), e)

\* Ordered by deadline, behind the events that have the same one.
insert(events, e) ==
  LET later == {i \in 1 .. Len(events) : e.deadline < events[i].deadline}
  IN  InsertAt(events, IF later = {} THEN Len(events) + 1 ELSE Min(later), e)

----------------------------------------------------------------------------
\* A variant with a fault: it notifies only when nothing was scheduled before.
postDelayedQuiet(delay) ==
  /\ ~Locked
  /\ posted < MaxEvents /\ now + delay <= MaxTime
  /\ posted' = posted + 1
  /\ delayed_events' = insert(delayed_events, [sched_id |-> eventCounter, ev |-> posted',
                                               deadline |-> now + delay])
  /\ eventCounter' = (eventCounter + 1) % IdRange
  /\ notifies' = IF delayed_events = << >> THEN notifies + 1 ELSE notifies
  /\ UNCHANGED <<now, thread, wake, dev, stopping, history>>

postDelayed(delay) ==
  /\ ~Locked
  /\ posted < MaxEvents /\ now + delay <= MaxTime
  /\ posted' = posted + 1
  /\ delayed_events' = insert(delayed_events, [sched_id |-> eventCounter, ev |-> posted',
                                               deadline |-> now + delay])
  /\ eventCounter' = (eventCounter + 1) % IdRange
  /\ notifies' = notifies + 1
  /\ UNCHANGED <<now, thread, wake, dev, stopping, history>>

\* notify_one(), lost unless run() waits.
Awakened == IF thread = "waiting" THEN "woken" ELSE thread

Notify == /\ notifies > 0
          /\ notifies' = notifies - 1
          /\ thread' = Awakened
          /\ UNCHANGED <<delayed_events, eventCounter, now, wake, dev, stopping, posted, history>>

removeDelayed(id) ==
  /\ ~Locked
  /\ LET is == {i \in 1 .. Len(delayed_events) : delayed_events[i].sched_id = id}
     IN  /\ is # {}
         /\ delayed_events' = RemoveAt(delayed_events, Min(is))
         /\ cancelled' = cancelled \cup {delayed_events[Min(is)].ev}
  /\ UNCHANGED <<clients, now, thread, wake, dev, stopping, dispatched>>

clearDelayedEvents == /\ ~Locked
                      /\ delayed_events # << >>
                      /\ delayed_events' = << >>
                      /\ cancelled' = cancelled \cup {e.ev : e \in ToSet(delayed_events)}
                      /\ UNCHANGED <<clients, now, thread, wake, dev, stopping, dispatched>>

Tick == /\ now < MaxTime
        /\ now' = now + 1
        /\ UNCHANGED <<delayed_events, clients, thread, wake, dev, stopping, history>>

\* stop(): the flag and the notification, neither of them under the mutex.
RaiseFlag == /\ stopper = "none"
             /\ should_stop' = TRUE
             /\ stopper' = "raised"
             /\ UNCHANGED <<delayed_events, clients, now, thread, wake, dev, history>>

NotifyStop == /\ stopper = "raised"
              /\ stopper' = "joining"
              /\ thread' = Awakened
              /\ UNCHANGED <<delayed_events, clients, now, wake, dev, should_stop, history>>

Join == /\ stopper = "joining" /\ thread = "done"
        /\ stopper' = "stopped"
        /\ UNCHANGED <<delayed_events, clients, now, thread, wake, dev, should_stop, history>>

----------------------------------------------------------------------------
\* run().
Lock == /\ thread = "start"
        /\ thread' = "test"
        /\ UNCHANGED <<delayed_events, clients, now, wake, dev, stopping, history>>

Test == /\ thread = "test"
        /\ thread' = IF should_stop THEN "done" ELSE "decided"
        /\ UNCHANGED <<delayed_events, clients, now, wake, dev, stopping, history>>

\* A variant with a fault: it waits for a notification even when an event is due.
WaitForever == /\ thread = "decided"
               /\ wake' = Forever
               /\ thread' = "waiting"
               /\ UNCHANGED <<delayed_events, clients, now, dev, stopping, history>>

Wait == /\ thread = "decided"
        /\ wake' = IF delayed_events # << >> THEN Head(delayed_events).deadline ELSE Forever
        /\ thread' = "waiting"
        /\ UNCHANGED <<delayed_events, clients, now, dev, stopping, history>>

Timeout == /\ thread = "waiting" /\ wake <= now
           /\ thread' = "woken"
           /\ UNCHANGED <<delayed_events, clients, now, wake, dev, stopping, history>>

WakeSpuriously == /\ thread = "waiting"
                  /\ thread' = "woken"
                  /\ UNCHANGED <<delayed_events, clients, now, wake, dev, stopping, history>>

Relock == /\ thread = "woken"
          /\ thread' = "check"
          /\ UNCHANGED <<delayed_events, clients, now, wake, dev, stopping, history>>

\* A variant with a fault: whoever wakes the thread, the first event is due.
ExpiredUnchecked == delayed_events # << >>

Expired == delayed_events # << >> /\ Head(delayed_events).deadline <= now

\* A variant with a fault: the event is copied and not erased.
TakeExpiredKeeps == /\ thread = "check" /\ Expired
                    /\ dev' = <<Head(delayed_events)>>
                    /\ thread' = "posting"
                    /\ UNCHANGED <<delayed_events, clients, now, wake, stopping, history>>

TakeExpired == /\ thread = "check" /\ Expired
               /\ dev' = <<Head(delayed_events)>>
               /\ delayed_events' = Tail(delayed_events)
               /\ thread' = "posting"
               /\ UNCHANGED <<clients, now, wake, stopping, history>>

NotExpired == /\ thread = "check" /\ ~Expired
              /\ thread' = "test"
              /\ UNCHANGED <<delayed_events, clients, now, wake, dev, stopping, history>>

\* post() without the mutex, then the mutex again.
Post == /\ thread = "posting"
        /\ dispatched' = Append(dispatched, [event |-> Head(dev), time |-> now])
        /\ dev' = << >>
        /\ thread' = "test"
        /\ UNCHANGED <<delayed_events, clients, now, wake, stopping, cancelled>>

run == Lock \/ Test \/ Wait \/ Timeout \/ Relock \/ TakeExpired \/ NotExpired \/ Post

Next == \/ \E delay \in Delays : postDelayed(delay)
        \/ Notify
        \/ \E id \in 0 .. IdRange - 1 : removeDelayed(id)
        \/ clearDelayedEvents
        \/ Tick
        \/ RaiseFlag \/ NotifyStop \/ Join
        \/ run \/ WakeSpuriously

Spec == Init /\ [][Next]_vars

\* The thread is scheduled, calls that have begun go on, and time passes.
FairSpec == /\ Spec
            /\ WF_vars(run) /\ WF_vars(Notify) /\ WF_vars(NotifyStop \/ Join) /\ WF_vars(Tick)
----------------------------------------------------------------------------
\* Events leave the broker in the order of their deadlines and, when these are
\* equal, of their postDelayed() calls, whatever is scheduled, cancelled or
\* cleared while the thread waits, wakes up or posts.
InDeadlineOrder ==
  \A i, j \in 1 .. Len(dispatched) : i < j =>
    LET d == dispatched[i].event
        e == dispatched[j].event
    IN  d.deadline < e.deadline \/ (d.deadline = e.deadline /\ d.ev < e.ev)

\* No event is posted before its deadline, although the thread may be woken for
\* another event, for one that was removed since, or for no reason.
NotEarly == \A i \in 1 .. Len(dispatched) : dispatched[i].time >= dispatched[i].event.deadline

Scheduled(e) == \E i \in 1 .. Len(delayed_events) : delayed_events[i].ev = e

Places(e) ==
       {<<"scheduled", i>> : i \in {i \in 1 .. Len(delayed_events) : delayed_events[i].ev = e}}
  \cup {<<"in hand", i>> : i \in {i \in 1 .. Len(dev) : dev[i].ev = e}}
  \cup {<<"posted", i>> : i \in {i \in 1 .. Len(dispatched) : dispatched[i].event.ev = e}}
  \cup {<<"cancelled", c>> : c \in cancelled \cap {e}}

\* An event is scheduled, in the thread's hands, posted or cancelled, and no two
\* of these: one that was cancelled in time is not posted, none is posted twice
\* and none disappears, although run() posts without the mutex.
Accounted == \A e \in 1 .. posted : Cardinality(Places(e)) = 1

\* run() never sleeps past the first deadline: while it waits with events
\* scheduled, its deadline is not after the first of them or a notification is
\* still to come.  A nearer event may be put in front while it sleeps, the
\* notification follows only after the mutex is released, and one sent while
\* run() does not wait is lost.
OnTime == thread = "waiting" /\ delayed_events # << >> =>
            notifies > 0 \/ wake <= Head(delayed_events).deadline

\* A scheduled event does not stay scheduled: run() posts it unless it is
\* removed or the broker is stopped, and no notification it needs is lost.
EventLeaves == \A e \in 1 .. MaxEvents : Scheduled(e) ~> (~Scheduled(e) \/ should_stop)

\* stop() "joins the thread" (ActiveObject.h): it returns.
StopReturns == stopper = "raised" ~> stopper = "stopped"
=============================================================================
