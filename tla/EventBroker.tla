----------------------------- MODULE EventBroker -----------------------------
(***************************************************************************)
(* events/EventBroker.cpp, publish and subscribe: any thread may post an    *)
(* event on a topic, which calls postEvent() of every subscriber in turn    *)
(* while mtx_subscribers is held.  Subscribers come and go: an EventSniffer *)
(* subscribes its Sniffers when it is made and each Sniffer unsubscribes    *)
(* when it is deleted, after which calling it would be a use after free.    *)
(* The calls of one post() are steps of their own; everything else the      *)
(* mutex protects is short enough to be one step.                           *)
(***************************************************************************)
EXTENDS Integers, Sequences, FiniteSets, SequencesExt, Functions

CONSTANTS Threads,           \* the threads that post
          Topics,
          Handlers,          \* the EventHandlerBase objects
          MaxPosts,          \* bound: posts in all
          MaxSubscriptions,  \* bound: entries of one topic's vector
          NoThread           \* the mutex is free

ASSUME BoundsAssumption == MaxPosts \in Nat /\ MaxSubscriptions \in Nat
ASSUME NoThreadAssumption == NoThread \notin Threads

VARIABLES subscribers,      \* the map: a function on the topics it has a key for
          mtx_subscribers,  \* the thread that holds the mutex
          calls,            \* [ev, topic, it] of the posts under way, per thread
          alive,            \* handlers that are not deleted
          received,         \* history: events each handler was called with
          posts             \* number of posts so far

vars == <<subscribers, mtx_subscribers, calls, alive, received, posts>>

Call == [ev : 1 .. MaxPosts, topic : Topics, it : 1 .. MaxSubscriptions + 1]

TypeOK == /\ DOMAIN subscribers \subseteq Topics
          /\ \A t \in DOMAIN subscribers : subscribers[t] \in Seq(Handlers)
          /\ mtx_subscribers \in Threads \cup {NoThread}
          /\ DOMAIN calls \subseteq Threads /\ Range(calls) \subseteq Call
          /\ alive \subseteq Handlers
          /\ received \in [Handlers -> Seq(1 .. MaxPosts)]
          /\ posts \in 0 .. MaxPosts

NoFunction == [x \in {} |-> x]

Init == /\ subscribers = NoFunction
        /\ mtx_subscribers = NoThread
        /\ calls = NoFunction
        /\ alive = Handlers
        /\ received = [h \in Handlers |-> << >>]
        /\ posts = 0

Free == mtx_subscribers = NoThread

\* The function f with the value v at x, whether it had a value there or not.
With(f, x, v) == [y \in DOMAIN f \cup {x} |-> IF y = x THEN v ELSE f[y]]

Subs(t) == IF t \in DOMAIN subscribers THEN subscribers[t] ELSE << >>

\* A variant with a fault: it stops at the first entry.
deleteFirst(subs, h) == RemoveFirst(subs, h)

\* What is left of the entries that the iterator has passed.
deleteSubscriber(subs, h) ==
  LET kept[it \in 0 .. Len(subs)] == IF it = 0 THEN << >>
                                     ELSE IF subs[it] = h THEN kept[it - 1]
                                     ELSE Append(kept[it - 1], subs[it])
  IN  kept[Len(subs)]

----------------------------------------------------------------------------
\* A variant of post() with a fault: without the mutex.
postUnlocked(th, t) == /\ th \notin DOMAIN calls
                       /\ posts < MaxPosts
                       /\ posts' = posts + 1
                       /\ calls' = With(calls, th, [ev |-> posts', topic |-> t, it |-> 1])
                       /\ UNCHANGED <<subscribers, mtx_subscribers, alive, received>>

\* post() takes the mutex ...
post(th, t) == /\ th \notin DOMAIN calls
               /\ Free
               /\ posts < MaxPosts
               /\ posts' = posts + 1
               /\ calls' = With(calls, th, [ev |-> posts', topic |-> t, it |-> 1])
               /\ mtx_subscribers' = th
               /\ UNCHANGED <<subscribers, alive, received>>

\* ... calls postEvent() of one subscriber after the other ...
postEvent(th) == /\ th \in DOMAIN calls
                 /\ LET c == calls[th]
                        h == Subs(c.topic)[c.it]
                    IN  /\ c.it <= Len(Subs(c.topic))
                        /\ received' = [received EXCEPT ![h] = Append(@, c.ev)]
                 /\ calls' = [calls EXCEPT ![th].it = @ + 1]
                 /\ UNCHANGED <<subscribers, mtx_subscribers, alive, posts>>

\* ... and returns, releasing the mutex.
postReturns(th) == /\ th \in DOMAIN calls
                   /\ calls[th].it > Len(Subs(calls[th].topic))
                   /\ calls' = Restrict(calls, DOMAIN calls \ {th})
                   /\ mtx_subscribers' = NoThread
                   /\ UNCHANGED <<subscribers, alive, received, posts>>

\* The same handler may subscribe more than once.
subscribe(h, t) == /\ Free
                   /\ h \in alive
                   /\ Len(Subs(t)) < MaxSubscriptions
                   /\ subscribers' = With(subscribers, t, Append(Subs(t), h))
                   /\ UNCHANGED <<mtx_subscribers, calls, alive, received, posts>>

\* A variant with a fault: without the mutex.
unsubscribeUnlocked(h, t) == /\ t \in DOMAIN subscribers
                             /\ subscribers' = [subscribers EXCEPT ![t] = deleteSubscriber(@, h)]
                             /\ UNCHANGED <<mtx_subscribers, calls, alive, received, posts>>

\* unsubscribe(subscriber, topic); map::at throws when the topic has no key.
unsubscribe(h, t) == /\ Free
                     /\ t \in DOMAIN subscribers
                     /\ subscribers' = [subscribers EXCEPT ![t] = deleteSubscriber(@, h)]
                     /\ UNCHANGED <<mtx_subscribers, calls, alive, received, posts>>

\* ~Sniffer(): unsubscribe(subscriber), then the object is gone.
deleteHandler(h) == /\ Free
                    /\ h \in alive
                    /\ subscribers' = [t \in DOMAIN subscribers |-> deleteSubscriber(subscribers[t], h)]
                    /\ alive' = alive \ {h}
                    /\ UNCHANGED <<mtx_subscribers, calls, received, posts>>

Next == \/ \E th \in Threads : \/ \E t \in Topics : post(th, t)
                               \/ postEvent(th)
                               \/ postReturns(th)
        \/ \E h \in Handlers, t \in Topics : subscribe(h, t) \/ unsubscribe(h, t)
        \/ \E h \in Handlers : deleteHandler(h)

Spec == Init /\ [][Next]_vars
----------------------------------------------------------------------------
\* No post() calls a subscriber that was deleted meanwhile: unsubscribing waits
\* for the posts under way and leaves no entry of the handler behind, however
\* often it subscribed (~Sniffer, deleteSubscriber).
NoDeadCall == \A th \in DOMAIN calls :
                LET c == calls[th]
                IN  c.it <= Len(Subs(c.topic)) => Subs(c.topic)[c.it] \in alive

Before(h, d, e) == \E i, j \in 1 .. Len(received[h]) :
                     i < j /\ received[h][i] = d /\ received[h][j] = e

\* All subscribers see the events they share in the same order, over all topics
\* and whatever threads posted them: the logger's order of events is the one
\* the controller acts on.
SameOrder == \A g, h \in Handlers, d, e \in 1 .. posts :
               d # e => ~ (Before(g, d, e) /\ Before(h, e, d))

Copies(h, e) == Cardinality({i \in 1 .. Len(received[h]) : received[h][i] = e})
Subscriptions(h, t) == Cardinality({i \in 1 .. Len(Subs(t)) : Subs(t)[i] = h})

\* A post() that returns has called each handler once for every subscription it
\* has to the topic, and none that has no subscription: nobody who subscribes
\* or unsubscribes meanwhile makes it skip or repeat one.
ExactFanOut == [][\A th \in DOMAIN calls \ DOMAIN calls' : \A h \in Handlers :
                     Copies(h, calls[th].ev) = Subscriptions(h, calls[th].topic)]_vars
=============================================================================
