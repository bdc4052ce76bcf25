----------------------------- MODULE EventSystem -----------------------------
(***************************************************************************)
(* The event system as main.cpp puts it together: EventHandler's worker is  *)
(* the CameraController, which gets its events from the EventBroker.  While *)
(* init() still subscribes the log and the controller, the injector already *)
(* posts commands; the controller posts results while it handles an event,  *)
(* and is itself among the receivers; somebody opens another EventSniffer;  *)
(* and the owner stops the controller.                                      *)
(*                                                                          *)
(* A command the controller cannot serve now it puts aside, and a result    *)
(* that brings it back to Idle makes it post those commands to itself once  *)
(* more, past the broker and the log.  Which command is put aside and which *)
(* result leads to Idle is for CameraController to say: here any may.       *)
(*                                                                          *)
(* An EventSniffer is one handler here: its Sniffers share the callback.    *)
(***************************************************************************)
EXTENDS EventHandler

CONSTANT Capacity  \* of the ring of deferred commands

ASSUME CapacityAssumption == Capacity \in Nat \ {0}

VARIABLES subscribers, mtx_subscribers, calls, alive, received,  \* EventBroker
          posted, \* number of events posted
          boot,   \* how far init() has come
          deferred_events,
          replaying,  \* the handler is in the loop that posts them again
          cause   \* history: the event that was handled when a result was posted

Threads == {"injector", "controller"}
Topics == {"CAMERA_CMD", "CAMERA_EVENT"}
Handlers == {"log", "controller", "sniffer"}

broker == INSTANCE EventBroker WITH posts <- posted, MaxPosts <- MaxEvents,
                                    MaxSubscriptions <- 3, NoThread <- "nobody"

brokerVars == <<subscribers, mtx_subscribers, calls, alive, received, posted>>
aside == <<deferred_events, replaying>>
systemVars == <<vars, brokerVars, boot, aside, cause>>

\* Variants with a fault: the controller subscribes before the log does, or
\* twice to the same topic.
initOrderControllerFirst == <<<<"controller", "CAMERA_CMD">>, <<"controller", "CAMERA_EVENT">>,
                              <<"log", "CAMERA_CMD">>, <<"log", "CAMERA_EVENT">>>>

initOrderTwice == <<<<"log", "CAMERA_CMD">>, <<"log", "CAMERA_EVENT">>,
                    <<"controller", "CAMERA_CMD">>, <<"controller", "CAMERA_CMD">>>>

\* The subscriptions init() makes, by way of two constructors.
initOrder == <<<<"log", "CAMERA_CMD">>, <<"log", "CAMERA_EVENT">>,
               <<"controller", "CAMERA_CMD">>, <<"controller", "CAMERA_EVENT">>>>

SystemTypeOK == /\ TypeOK
                /\ broker!TypeOK
                /\ boot \in 1 .. Len(initOrder) + 1
                /\ deferred_events \in Seq(1 .. MaxEvents)
                /\ Len(deferred_events) <= Capacity
                /\ replaying \in BOOLEAN
                /\ DOMAIN cause \subseteq 1 .. MaxEvents

SystemInit == /\ Init
              /\ broker!Init
              /\ boot = 1
              /\ deferred_events = << >> /\ replaying = FALSE
              /\ cause = [e \in {} |-> e]
----------------------------------------------------------------------------
\* init() constructs the sniffer and the controller, then starts the latter.
Subscribe == /\ boot <= Len(initOrder)
             /\ broker!subscribe(initOrder[boot][1], initOrder[boot][2])
             /\ boot' = boot + 1
             /\ UNCHANGED <<vars, aside, cause>>

Start == /\ boot > Len(initOrder)
         /\ Launch
         /\ UNCHANGED <<brokerVars, boot, aside, cause>>

\* Another EventSniffer is made: one subscription per topic.
Sniff(t) == /\ ~ \E i \in 1 .. Len(broker!Subs(t)) : broker!Subs(t)[i] = "sniffer"
            /\ broker!subscribe("sniffer", t)
            /\ UNCHANGED <<vars, boot, aside, cause>>

\* EventInjector::run(): a command.
Inject == /\ broker!post("injector", "CAMERA_CMD")
          /\ UNCHANGED <<vars, boot, aside, cause>>

\* A handler of the controller posts what came of the event it handles.
Report == /\ worker = "handle" /\ current # Pill /\ ~replaying
          /\ broker!post("controller", "CAMERA_EVENT")
          /\ cause' = broker!With(cause, posted', current)
          /\ UNCHANGED <<vars, boot, aside>>

\* A post() under way calls the next subscriber; the controller's postEvent()
\* puts the event into its queue, whichever thread is calling.
Deliver(th) == /\ broker!postEvent(th)
               /\ IF broker!Subs(calls[th].topic)[calls[th].it] = "controller"
                  THEN put(calls[th].ev)
                  ELSE UNCHANGED <<queue, worker>>
               /\ UNCHANGED <<flags, owner, current, synced, taken, boot, aside, cause>>

Return(th) == /\ broker!postReturns(th)
              /\ UNCHANGED <<vars, boot, aside, cause>>

\* Results are what handlers post, everything else is a command.
IsResult(e) == e \in DOMAIN cause

\* stateConnected gets a command that the state below it does not serve: it goes
\* into the ring, whose oldest command is overwritten when it is full.
Defer == /\ worker = "handle" /\ current # Pill /\ ~IsResult(current)
         /\ \A e \in DOMAIN cause : cause[e] # current
         /\ "controller" \notin DOMAIN calls
         /\ deferred_events' =
              Append(IF Len(deferred_events) = Capacity THEN Tail(deferred_events)
                     ELSE deferred_events, current)
         /\ Handled
         /\ UNCHANGED <<brokerVars, boot, replaying, cause>>

\* A result leads into stateIdle, whose entry handler, after it has posted the
\* status, moves the deferred commands to the queue, one postEvent() at a time.
Repost == /\ worker = "handle" /\ IsResult(current)
          /\ "controller" \notin DOMAIN calls
          /\ deferred_events # << >>
          /\ put(Head(deferred_events))
          /\ deferred_events' = Tail(deferred_events)
          /\ replaying' = TRUE
          /\ UNCHANGED <<flags, owner, current, synced, taken, brokerVars, boot, cause>>

\* The other steps of the controller's thread; a handler returns when its posts
\* have and its loop is through.
WorkOn == /\ Work
          /\ "controller" \notin DOMAIN calls
          /\ replaying => deferred_events = << >>
          /\ replaying' = FALSE
          /\ UNCHANGED <<brokerVars, boot, deferred_events, cause>>

StopIt == RaiseFlag /\ UNCHANGED <<brokerVars, boot, aside, cause>>

FinishIt == Finish /\ UNCHANGED <<brokerVars, boot, aside, cause>>

WakeIt == WakeSpuriously /\ UNCHANGED <<brokerVars, boot, aside, cause>>

Control == WorkOn \/ Defer \/ Repost

Post(th) == Deliver(th) \/ Return(th)

SystemNext == \/ Subscribe \/ Start \/ (\E t \in Topics : Sniff(t))
              \/ Inject \/ Report \/ (\E th \in Threads : Post(th))
              \/ Control \/ WakeIt \/ StopIt \/ FinishIt

SystemSpec == SystemInit /\ [][SystemNext]_systemVars

\* Both threads are scheduled, handlers return, and stop() goes on.
FairSystemSpec == /\ SystemSpec
                  /\ WF_systemVars(Control) /\ WF_systemVars(FinishIt)
                  /\ \A th \in Threads : WF_systemVars(Post(th))
----------------------------------------------------------------------------
\* A result never overtakes its cause: every subscriber that sees both the event
\* a handler worked on and what the handler posted sees them in this order,
\* although the worker may take the event while the post() that brought it is
\* still calling other subscribers (mtx_subscribers in EventBroker::post).
CausalOrder == \A e \in DOMAIN cause, h \in Handlers : ~broker!Before(h, e, cause[e])

\* The controller acts on nothing that the log has not seen before it, and takes
\* events for the first time in the order of the log, behind everything it has
\* taken before, deferred commands it is served again included (the order of
\* construction in init(), one mutex, and a repost that bypasses the log).
ActsOnLog ==
  \A j \in 1 .. Len(taken) : taken[j] # Pill =>
    /\ Contains(received["log"], taken[j])
    /\ (\A i \in 1 .. j - 1 : taken[i] # taken[j]) =>
         \A i \in 1 .. j - 1 : taken[i] # Pill => broker!Before("log", taken[i], taken[j])

\* Seen through the broker, with the posts of its own thread in between, the
\* controller is still the EventHandler of its module: no event is in its queue
\* twice, although the broker and the controller itself put it there, its thread
\* stops when told to and is never starved by posting.
ImplementsHandler == FairSpec
=============================================================================
