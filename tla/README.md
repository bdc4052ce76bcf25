# TLA+ models of camera-controller-2

camera-controller-2 drives a tethered photo camera. One active object, the
CameraController, owns the camera (libgphoto2, behind `CameraWrapper`); it is
told what to do by events on a topic and answers with events. This directory
holds models of its event system, of the state machine, of the camera's owner
and of the camera's settings, the TLC configurations that check them on small instances, and proofs of
the most important properties for every value of the constants.

Paths below are relative to the repository's `src/` directory.

## 1. The system

| Component | State it keeps | Operations |
|---|---|---|
| `cameracontroller/cameramanager/CameraManager.cpp` (CameraController) | HSM state, `deferred_events`, `camera_config`, the wrapper | one handler per state; `connect`, `disconnect`, `setConfig`, `readStatus`, `readOptions`, `captureWired`, `download` |
| `camera/CameraWrapper.cpp` | `Camera*`, `connected`, cached serial | `connect`, `disconnect`, `isResponsive`, getters, setters, `wiredCapture`, `downloadFile` |
| `camera/CameraWidget.cpp` | a widget tree of libgphoto2 | `getValue`, `setValue`, `apply` |
| `CameraStringConversion` (in CameraWrapper.cpp) | none | conversions of shutter speed, aperture, battery level; `findNearest` |
| `events/HSM.h` | `state`, `temp` | `init`, `handleEvent` |
| `events/EventHandler.h`, `async/ActiveObject.h`, `collections/SyncQueue.h` | the queue, `started`, `stopped`, `should_stop`, a thread | `start`, `stop`, `postEvent`, the thread's loop |
| `events/EventBroker.cpp`, publish and subscribe | `subscribers`, `mtx_subscribers` | `post`, `subscribe`, `unsubscribe` |
| `events/EventBroker.cpp`, delayed events | `delayed_events`, `eventCounter`, a thread | `postDelayed`, `removeDelayed`, `clearDelayedEvents`, `run`, `stop` |
| `collections/CircularBuffer.h` | ring, two pointers, `empty` | `put`, `pop`, `get`, `last`, `count` |
| `EventSniffer`, `EventInjector`, `EventLogger`, `Logger`, `main.cpp` | subscriptions; the objects of the program | log events, post commands typed on a terminal, start and stop |

**How they interact.** A client (EventInjector) posts a command on
`TOPIC_CAMERA_CMD`. `EventBroker::post` calls `postEvent` of each subscriber
under `mtx_subscribers`; for the controller this appends to its synchronized
queue. The controller's thread takes one event at a time and
`HSM::handleEvent` runs the handler of the current state. Handlers call the
camera synchronously and post the outcome on `TOPIC_CAMERA_EVENT`, to which the
controller itself subscribes: a result comes back through the same queue as the
commands, behind whatever is already there. While a capture or a download is
waiting for its result, other commands are put aside in a ring of 1000 and posted
again when `stateIdle` is entered.

**What is hard.**

* Results are asynchronous to their own cause. An error or a result of one
  session can be in the queue when that session has already ended and another
  is being opened.
* A transition is asked for by a return value, and `handleEvent()` only looks at
  it in some of the calls it makes.
* Each gphoto2 call can fail, with a code that is critical or is not, or with an
  exception nobody catches.
* `should_stop` is a plain `bool` shared by two threads, and two condition
  variables are notified with and without their mutex.
* Subscribers come and go while another thread is calling them.
* Deadlines change while the broker's thread waits for the first of them.
* The injector posts commands while `init()` is still building the rest.
* A setting exists four times: as a text in the camera, where hands can change
  it, as a number in the stored configuration, in the last published status and
  in the last published list. The numbers go through 32-bit floats.
* `handleEvent()` finds the least common ancestor of two states from superstate
  links alone, over a fixed array.

**What makes each part correct**

| Part | Correct when |
|---|---|
| CameraController | a result is taken only by the session and the operation it belongs to; the camera is used only while held and released by a failure; an operation that was begun ends; a command is neither lost nor served twice |
| CameraWrapper | the camera is used only through a live handle |
| Settings | a value taken from a published list is accepted, reads back as it was set and is in force again in the next session; what is published is what the camera holds |
| HSM | exactly a state and its superstates are active; states are exited inside out and entered outside in; states common to both ends of a transition stay; `handleEvent` returns |
| EventHandler | `stop()` returns, nothing is handled behind it, no wakeup is lost |
| EventBroker | one order for everybody, every subscription served once, no call of a deleted subscriber |
| The event system | no effect is seen before its cause; what the controller acts on is in the log; events pass through the broker without being lost or left asleep, and none is at two places at a time |
| Delayed events | deadline order, never early, once, always at last; the thread does not sleep past a deadline; `stop()` returns |
| CircularBuffer | an overwriting FIFO |

PROJECT.json lists the hazards at the lines where they bite, and the properties
that would notice.

## 2. The modules

| Module | Models | Extended or instantiated by |
|---|---|---|
| `OverwritingFifo` | abstract: what the ring promises | `CircularBuffer` (refinement) |
| `CircularBuffer` | collections/CircularBuffer.h | `MCCircularBuffer`, `CircularBufferProofs` |
| `CameraWrapper` | life cycle of the camera handle | `CameraController` |
| `CameraSession` | abstract: what the controller promises | `CameraController` (refinement) |
| `CameraController` | CameraManager.cpp | `CommandHistory`, `MCCameraController`, `CameraControllerProofs` |
| `StringConversion` | the conversions between texts and numbers; no state | `CameraSettings` |
| `CameraSettings` | settings, status and lists, on CameraManager.cpp, CameraWrapper.cpp and CameraWidget.cpp | `MCCameraSettings`, `CameraSettingsProofs` |
| `CommandHistory` | the controller with history variables | `MCCommandHistory`, `CommandHistoryProofs` |
| `HSM` | events/HSM.h | `HSMProofs`; TLC checks the module itself |
| `EventHandler` | EventHandler.h on ActiveObject.h and SyncQueue.h | `EventSystem` (extension and refinement) |
| `EventBroker` | post, subscribe, unsubscribe | `MCEventBroker`, `EventSystem`, `EventBrokerProofs` |
| `EventSystem` | EventBroker and EventHandler put together as main.cpp does | `EventSystemProofs`, which also proves what holds of EventHandler alone; TLC checks the module itself |
| `DelayedEvents` | postDelayed, removeDelayed, run, stop | `DelayedEventsProofs`; TLC checks the module itself |

Definitions named "a variant with a fault" are not part of any specification:
each is what a plausible mistake in the code would look like, and shows that the
property next to it in PROJECT.json's `mutants` is able to fail.

### CameraController

`state` is the leaf state of the HSM. A handler runs to completion on the
controller's thread, and the only thing it shares with other threads is
`eventList`; so an event is handled in one step, and the events that the handler
posts are collected in `outbox` and moved to `eventList` one by one, with
commands of clients in between, before the next event is taken. Nothing a
handler does after a post depends on the queue, which is why this is the same as
posting in the middle of the handler.

An event is its signal and a number: for a command its identity, for an error
the gphoto2 code. The configuration a `SET_CONFIG` carries is abstracted to how
many of its four settings are present, and chosen where it is first read.
`readStatus` stops at the first error, hence posts at most one; `setConfig` and
`readOptions` go on with the next setting, hence post up to one each.

Three things in the code are easily overlooked and are in the model:

* The transitions to `stateError` that the `EV_ENTRY` handlers of Idle,
  CaptureWired and Downloading ask for have no effect: `handleEvent()` ignores
  what an entry handler returns. An unresponsive camera only cuts the entry
  action short.
* `download()` goes on after it could not create its directory, and so can
  post two results.
* A `DISCONNECT` in Idle leads to Disconnected, which has no entry action: the
  wrapper stays connected. The next `CONNECT` finds it so and succeeds at once.
  `CameraSession!Leave` states it ("`UNCHANGED link`").

`reconnect_attempts` is written and never read, `to_download` only names a file
and the events on `TOPIC_CAMERA_STATUS` reach nobody who keeps state: all three
are left out here; what those events say is the subject of CameraSettings.

### CameraWrapper

`handle` is the `Camera*` as null, live or dangling. The three ways `connect()`
can throw leave it in three different states, each an action of its own.

### StringConversion and CameraSettings

A text of the camera is a unit and its digits, never a string. The conversions
keep what decides about the last digit: `Float` is the 32-bit float nearest to a
quotient, to which every operation of the code rounds, `Truncate` is the `int()`
at the end, `Fixed4` the formatting with four decimals. `findNearest` is a
recursive function over the window of its binary search. `RECURSIVE` is not used.

In CameraSettings a handler is a sequence of camera calls (`todo`), one step
each, in the order of the code: `setConfig()` tries aperture, shutter speed, ISO
and trigger mode and goes on after an error; `readStatus()` ends with its first
error and then publishes nothing; `readOptions()` publishes list by list. When
these handlers run is CameraController's concern: here any of them may run at
any time once a session was opened, which allows more than the program does. The
camera (`choices`, `value`, `locked`) is external: for a text it does not offer it
refuses or picks another one, and between two calls the photographer may turn a
dial, change the lens or the exposure mode, or make a setting read-only. Between
sessions everything about it may change. The second event of `readStatus()`
(battery, exposure program, focal length) carries nothing that is set or listed;
it is left out, and so is an error while reading for it, which comes after the
publication modelled here.

The history variables say for which settings a property makes no promise:
`excused` (the setter failed, the number was not in the list, a hand was faster),
`unseen` (changed by hand or not read since), and for which it does: `fresh` (the
list was read since it changed).

### HSM

The superstates and the `EV_INIT` transitions are chosen in `Init`, over all
trees with `N` states no deeper than the entry path; which state handles an
event, and with what transition, is chosen at each event. One step is one
iteration of a loop of `handleEvent()`, that is, one call of a state handler.
`active` counts entries minus exits. An entry handler may overwrite `temp` by
calling `transition()`, as the controller's do.

### EventSystem

`initOrder` is the order in which `init()`, through the constructors of
EventSniffer and CameraController, subscribes the log and the controller, one
step each, while the injector's thread, already started, posts commands. The
controller's thread is EventHandler's worker; a handler may post results, from
its own thread, and returns when its posts have. `Deliver` is one call of one
`post()`: for the controller it is EventHandler's `put`.

A handler may also put its command aside (`Defer`, into a ring of `Capacity`
elements that overwrites the oldest), and a result may lead it into the loop of
`stateIdle` that posts the deferred commands to its own queue again, one
`postEvent()` per step (`Repost`), past the broker and the log. So the controller
takes such a command twice, the second time behind events that are younger, and
`ActsOnLog` speaks of the order of first meetings only. Which commands are
deferred, and which results lead to Idle, is CameraController's subject; here any
command may be deferred, as often as it is taken, and any result may lead to the
loop, which allows more than the program does.

A further EventSniffer may be opened at any moment. `cleanUp()` cannot be reached in the program; the
owner's `stop()` of the controller is modelled all the same.

### EventHandler, EventBroker, DelayedEvents

A critical section is a step, a notification outside the mutex is another, and
a wait is left by a notification, at its deadline or for no reason at all. In
EventHandler the unsynchronised `should_stop` may be read late, until a `get()`
has synchronised with the `put()` of the pill. In EventBroker each call that
one `post()` makes is a step. In DelayedEvents time is a counter that never
goes back (the code uses `system_clock`, which can be set; that is left out) and
`should_stop` is read as last written, which can only make the lost wakeup
harder to find, not easier.

## 3. What is checked

Deadlock is checked for the HSM, which can always take another event. It is off
in the other runs: those systems may legitimately come to rest (all commands
posted and handled, the process terminated, the thread stopped, the clock at its
bound).

A type invariant is checked where several modules meet (`controller_safety`,
`event_system`); in the other modules `TypeOK` documents the variables. It is part
of the inductive invariant, and so proved, of every module but CameraSettings.

### Runs that pass

| Run | Bounds | Distinct states | Shows |
|---|---|---|---|
| `ring` | 3 slots, 2 values | 390 | `RingInv`; the ring implements `OverwritingFifo`, result by result |
| `controller_safety` | 5 commands, ring of 2, all faults | 6.3 million | `ConnectFence`, `CaptureFence`, `CameraHeld`, `ExactlyOnce`, `BatchOrder`; the controller implements `CameraSession` |
| `controller_liveness` | 4 commands of every kind; camera responsive, download errors critical, a directory to download to | 768 000 | `DownloadFence`; connection attempts, captures and downloads end, deferred commands are replayed |
| `hsm` | all hierarchies of 5 states, every drill, every transition | 345 000 | `Nested`, `Settled`, `ReachesGoal`, `CommonStatesKept`, `PathFits`, `HandlingEnds` |
| `event_system` | 4 events, 3 subscribers, 2 topics, ring of 2 | 786 000 | `CausalOrder`, `ActsOnLog`, `PillIsLast`, `QuietWhenStopped`, `StopReturns`, `EventsTaken`; the controller behind the broker implements `EventHandler` |
| `pub_sub` | 2 threads, 2 topics, 2 handlers, 3 posts, 3 entries a topic | 142 000 | `NoDeadCall`, `SameOrder`, `ExactFanOut` |
| `delayed_events` | 3 events, delays 0 and 2, clock to 3, 2 ids | 372 000 | `InDeadlineOrder`, `NotEarly`, `Accounted`, `OnTime`, `EventLeaves` |
| `settings` | 3 sessions or commands; every pair of neighbouring shutter speeds and every five neighbouring apertures of a Nikon D3000; a camera with faults; one without a lens | 1.2 million | `Restored`, `StatusTrue`, `ListedAccepted`, `NearestFound` |

*The bounds.* The ring has three slots because that is the smallest number in
which each pointer can be ahead of the other, meet it, or be about to wrap. Four
commands suffice to open a session, break it, open another and leave something
behind; five to defer two commands twice, or to overfill a ring of two. Five
states give every case (A) to (G) of a transition, with source and target at all
depths that the entry path, which has the code's five elements, allows: it is
filled to its last element. Trees are numbered breadth first, which every tree
can be, so that no two of them differ in the numbering alone. Two topics, two handlers
and three entries give a handler that subscribes twice, next to another one.
Three delayed events with two delays give equal, increasing and decreasing
deadlines, a nearer one put in front of the one the thread sleeps for, and an id
counter that wraps. Four events
let a command be injected before the controller subscribes, another be handled
and answered, and a third arrive around the stop; or two commands be deferred, a
third be answered, and both be posted again before or behind other events. A full
ring is also overwritten in this run, but a repost after that needs a fifth event:
it is in `controller_safety`, and in the proofs, which are for every capacity. Three commands open a session,
set something and open another one; the conversions are checked on every text in
the lists of the camera in d3000_configs.txt, in short pieces because each
setting is independent of the others.

`controller_liveness` excludes three faults. A camera that does not answer and a
download error that is not critical each break a property, in a run of their own
below. A directory that cannot be created makes `download()` report twice; then
the second report may end the next download, and `DownloadFence` does not claim
otherwise.

*Symmetry* is used in `pub_sub` only, over threads, topics and handlers, none of
which the model distinguishes; each of its properties is an invariant or an action
property, never liveness.

*Fairness.* The controller's thread (`WF` of `Run`): it is never starved, and
the gphoto2 calls return, with an error if need be. Clients are not required to
post anything. EventHandler: the worker is scheduled and its handlers return,
and a call of `start()` or `stop()` that has begun goes on; nobody has to call
them. DelayedEvents: the same, a `postDelayed()` that has inserted its event goes
on to notify, and time passes. EventSystem: as EventHandler, and a `post()` that
has begun goes on to its next call; neither the injector nor the handlers have to
post. HSM: the code of `handleEvent()` goes on. Weak
fairness is enough everywhere: none of the waits depends on winning a race
again and again.

### Runs that show a disagreement

| Run | The repository says | The code does |
|---|---|---|
| `unresponsive_capture` | `transition()`: "Performs a transiction to the next state" (events/HSM.h) | an entry handler's transition is dropped; a camera that does not answer leaves the controller in CaptureWired for good |
| `failed_download` | both catch blocks report a failed download | a gphoto2 error is reported as a generic error, and unless it is critical the controller waits in Downloading for good |
| `zoom_aperture` | the argument of `setAperture()` "Must be one of the values returned in listApertures()" (camera/CameraWrapper.h), and the test requires these to be accepted | f/4.2 is listed as 419 because 4.2f * 100 is truncated, and 419 is set as f/4.19, which the camera does not offer |
| `broker_stop` | `stop()` "joins the thread" (async/ActiveObject.h) | the flag and the notification can fall between the test and the wait, and `stop()` never returns |

`unresponsive_capture` and `failed_download` each allow one fault that
`controller_liveness` does not (a camera that does not answer; a download error
that is not critical), with fewer commands and no other fault added, so the
counterexample names the cause. No aperture in the D3000's own list suffers from
the truncation (`settings`); of the values a zoom lens may add, f/4.2 does.

Noticed while modelling, and no run of their own because they follow from a
single line of the code:

* camera/CameraWrapper.h announces "@throw GPhotoError" only, but
  `WidgetReadOnlyError`, `std::invalid_argument` (of `std::stoi` in `getISO` and
  `listISOs`) and `filesystem_error` (of `fs::exists` in `download()`) also leave
  these calls and nobody catches them: the process ends. The model has this as
  the action `Uncaught`.
* The test section "Camera is NOT connected" (tests/camerawrapper.cpp:47-51)
  requires calls on a wrapper that is not connected to throw. After a failed
  `gp_camera_init()` `connect()` frees the camera and keeps the pointer, which the
  next call would use; after a failed `getSerialNumber()` it keeps a live camera
  although `connected` is false. `CameraWrapper` has both outcomes, and
  `CameraHeld` shows that the controller never calls a wrapper in such a state.
* camera/CameraWrapper.h: `getExposureTime()` returns "0 if error, -1 if BULB",
  `getAperture()` "0 if error"; the code returns 0 for Bulb and -1 for a text it
  cannot read.
* A shutter speed that is in no list is not read back as it was set: 200 us
  becomes "0.0002s" and then 199. For the camera's own texts see `settings`.
* The burst count of the camera is a range widget (d3000_configs.txt), which
  CameraWidgetString refuses with GP_ERROR_BAD_PARAMETERS; no code calls it.
* `EV_CAMERA_SET_CONFIG` replaces the whole stored configuration: what an earlier
  command set and the last one did not is not restored in the next session.
* A blank line leaves EventInjector's `ev` and `topic` as they were, and the last
  command is posted again; at the end of the input it does so for ever.
* `findNearest` has no caller yet; `settings` checks it on the published lists.
* events/EventBroker.h promises a "Unique id of the delayed event"; the counter
  has 16 bits and wraps. When an event stays scheduled during 65536 further calls
  two events share an id, and `removeDelayed()` takes the one with the earlier
  deadline. `delayed_events` runs with two ids and three events, so that this
  happens; its properties hold all the same, since none of them says which event
  a client meant.
* events/EventBroker.h defines EVENT_BROKER_MIN_DELAY, the "Minimum guaranteed
  delay"; no code uses it.

## 4. What is proved

Every safety property that a passing run checks, but `ListedAccepted`, is also a theorem, for every value of the
constants, under the assumptions the modules state (bounds are natural numbers,
the ring has at least one slot, the entry path at least two elements, ids and
delays are natural numbers, commands are command signals, error codes are
integers, there is at least one answer of the environment, a camera offers for
each setting at least one list and no empty one). None of the properties is
inductive alone; below is what each needs.

| Proof module | Theorem | Property |
|---|---|---|
| `CircularBufferProofs` | `RingCorrect`, `FifoImplemented` | `TypeOK`, `RingInv`; `ImplementsFifo` |
| `CameraControllerProofs` | `TypeCorrect`, `ConnectionsAreFenced`, `CapturesAreFenced`, `DownloadsAreFenced`, `CameraIsHeld`, `SessionImplemented` | `TypeOK`, `ConnectFence`, `CaptureFence`, `DownloadFence`, `CameraHeld`, `ImplementsSession` |
| | `NobodyWaitsInVain` | the core of `CaptureEnds`, `DownloadEnds`, `DeferredReplayed` |
| `CommandHistoryProofs` | `CommandsExactlyOnce`, `BatchesInOrder` | `ExactlyOnce`, `BatchOrder` |
| `HSMProofs` | `StatesNest`, `HandlingSettles`, `TransitionsArrive`, `SharedStatesStay`, `PathIsLongEnough` | `Nested`, `Settled`, `ReachesGoal`, `CommonStatesKept`, `PathFits` |
| | `HandlingIsFinite` | the core of `HandlingEnds` |
| `EventBrokerProofs` | `NoCallOfTheDead`, `OneOrderForAll`, `FanOutIsExact` | `NoDeadCall`, `SameOrder`, `ExactFanOut` |
| `EventSystemProofs` | `PillEndsTheRun`, `StoppedIsQuiet` (of EventHandler alone) | `PillIsLast`, `QuietWhenStopped` |
| | `NoWakeupIsLost`, `StopComesNearer` (of EventHandler alone) | the core of `EventsTaken` and of `StopReturns` |
| | `SystemTypes`, `ResultsFollowCauses`, `LogComesFirst` | `SystemTypeOK`, `CausalOrder`, `ActsOnLog` |
| | `HandlerImplemented`, `BrokerImplemented` | the composed system keeps what was proved of its parts |
| | `NothingIsLost` | what the broker gave the controller is what it has taken or queued, and no event is at two places |
| `DelayedEventsProofs` | `DeadlineOrder`, `NeverEarly`, `EveryEventAccounted`, `NoNotificationIsLost` | `InDeadlineOrder`, `NotEarly`, `Accounted`, `OnTime` (the core of `EventLeaves`) |
| `CameraSettingsProofs` | `StatusIsTrue`, `SettingsAreRestored`, `NearestIsFound` | `StatusTrue`, `Restored`, `NearestFound` |
| | `ListsAreTheCameras` | a list that is up to date is the camera's, converted |

*Induction over data* is not available as a rule: the theorems of the library take
an operator as a parameter. Where a proof needs it (what a recursive function
returns, what `deleteSubscriber` keeps, how deep a state lies) it looks at the
least number for which the claim fails; lemma `LeastNumber`, from the
well-foundedness of `<` on the naturals, says that there is one.

* **The ring.** The element at position i of `Contents` lies in slot
  (read_ptr + i - 1) modulo Size. Lemmas say how the successor of a slot wraps,
  that different positions lie in different slots, and where the slots of
  `Contents` are after a put into a ring with room, a put into a full ring, and a
  pop.

* **The controller.** The invariant is

      IInv == TypeOK /\ ConnectFence /\ CaptureFence /\ CameraHeld /\ DeferredCommands

  `ConnectFence` says that while connecting exactly one connect result is on its
  way, with no event of the camera behind it, and that it tells the wrapper's
  state: so once it is taken nothing of an older session is left, which is what
  `CaptureFence` needs to survive the entry into Idle and what `CameraHeld` needs
  to survive the transition into Connected. `CameraHeld` in turn is what makes
  every step a step of `CameraSession`. `DeferredCommands` (the ring contains
  session commands only) is needed because the contents of the ring are posted
  again, and a result among them would break the fences. The proof has one step
  per action; lemmas say how each way of changing `Pending` (a new command, a
  result taken, the entry of Idle or of a busy state) treats the fences.
  `DownloadsAreFenced` adds `DownloadFence`: with a directory to download to, one
  download posts at most one result (`DownloadStart`), and the other handlers post
  none, so the argument is the one for captures.
  `NobodyWaitsInVain` adds what the waiting states wait for (`Awaited`): what ends
  a capture or a download is `Coming`, because the entry action posted it
  (`PostedComing`, which needs `CameraHeld`: `isResponsive()` is false of a wrapper
  that is not connected), commands that slip in do not displace it
  (`CommandComing`), and a handler that stays in the state takes another event
  (`TakeComing`). It supposes what the run `controller_liveness` supposes, a camera
  that answers and, for downloads, errors that are critical; without either of them
  it is false, as `unresponsive_capture` and `failed_download` show.

* **The commands.** `HistoryInv` is `IInv` and what follows: every command
  issued is in the ring, in the queue, served, refused or overwritten (`Known`), in
  one of these only and there once (`Apart`, `Unique`), the pairs in `batched` are
  of commands that were issued (`Paired`),
  and for each of them (`InBatches`) the earlier command is ahead of the later one
  as long as both wait, *with nothing but commands between them in the queue*. The
  last clause is what is easily missed: a result between the two would change the
  state, and the earlier one might be deferred where the later one is served.

* **The HSM.** `HSMInv` has one conjunct for each loop of `handleEvent()`
  (`AtExit`, `AtClassify`, `AtClimb`, `AtSearch`, `AtEnter`, `AtDrill`,
  `AtDrillPath`): which state and superstates are active, that the path is a chain
  of superstates from the target up (`Chain`), that it is no longer than the
  target is deep (`AsDeep`, with the depth bound of `Hierarchies` this is
  `PathFits`), and that the states shared by both ends are among the active ones.
  The tree is any function to lower numbers; that `Upward` unfolds, and that a
  state is not its own superstate, is shown by the least counterexample.
  `HandlingIsFinite` gives `handleEvent()` a measure of three numbers: the loop it
  is in (`Stage`), how far EV_INIT may still lead down (`Below`), and how far the
  loop has still to go up, or back along the path (`Ahead`). The second is needed
  because entering and drilling alternate, and the third may grow when the second
  falls.

* **EventHandler.** `HandlerInv`: where the pill is for each place of the owner and
  of the worker. A pill is in the queue only once `stop()` has
  put it, and only one (`PillQueued`); a worker that
  has taken it has synchronised with the `put()` that followed `should_stop =
  true`, so the stale reads are over and it takes nothing more (`PillTaken`).
  `ProgressInv` adds that a worker that sleeps has an empty queue (`NoLostWakeup`)
  and that a `stop()` that waits has its pill in front of the worker
  (`PillComing`); the worker's distance from the end is then three steps for each
  element up to the pill (`StepsLeft`), and others append behind the pill.

* **EventBroker.** `BrokerInv`: whoever posts holds the mutex, so that there is at
  most one call (`Exclusive`), entries of the map are of living handlers (`Live`),
  a call points into its list or just behind it (`InRange`), every handler's events
  are in the order of the posts, none newer than the latest (`Ordered`), and the
  copies handed out are as many as the entries passed (`FannedOut`).
  `deleteSubscriber` is a recursive function; that it leaves no entry of the
  handler is shown by the least counterexample.

* **EventSystem.** `SystemInv` is `HandlerInv` and `BrokerInv` (instantiated as
  EventSystem does) and what ties them: what the handler has taken or queued
  (`Held`) had been delivered to the log before, because the log's entry is in
  front of the controller's in every list; what enters the queue for the first
  time is younger than all that was in it before (`Increasing`); a cause is smaller
  than its effect. Deferred commands are what makes `Increasing` need its "for the
  first time": they are among those already taken (`Aside`), so that a repost is
  never a first time; and that a repost doubles nothing rests on `OnePlace`: queue,
  ring and hand have no event in common and none twice. With it every
  step is a step of EventHandler, or leaves its variables alone
  (`HandlerImplemented`, the safety half of `ImplementsHandler`), and of the broker
  (`BrokerImplemented`). `NothingIsLost` needs the other direction as well: what was
  delivered is held (`HandedOver`).

* **DelayedEvents.** `DelayedInv`: the schedule is sorted by deadline and number,
  what the thread has in hand is due and no later than the schedule, and what
  was dispatched is no later than either (`Order`); schedule, hand, dispatched and
  cancelled events are a partition of what was posted (`Ledger`).
  `OnTime` (`NoNotificationIsLost`) is inductive with it: removing an event cannot make the
  first deadline earlier because the schedule is sorted, and an insertion leaves a
  notification to come. Nothing of the kind holds for the flag of `stop()`, whose
  notification can be lost (`broker_stop`).

* **Settings.** `SettingsInv` speaks of the calls still to be made: those that set
  come first, a get leads to a publish, and where something is set, or there is
  more than one publish, every setting is read between the other publishes and the
  last one (`Planned`); and each setting that was not touched since it was read
  is shown as it is, or was read for the publish to come, or will be (`Shows`).
  The first part holds of the calls of every handler and of what is left of them,
  also where `readStatus()` ends early. `InForce` adds that what was asked for
  is in force or will be set, and `UpToDate` that a fresh list is the camera's.

  Whether a number survives its conversion is a matter of 32-bit floats, and of the
  camera: it is false for f/4.2 (`zoom_aperture`). `SettingsAreRestored` therefore
  supposes it of the cameras (`Exact`), and what it adds is that storage, faults,
  hands and reconnections do not lose the number; `NearestIsFound` supposes that
  texts are read as an int (`Numeric`). TLC evaluates both
  for the cameras of `settings`, every list of the D3000 among them, as an
  assumption of MCCameraSettings. `ListedAccepted` is nearly `Exact` itself: it is
  left to TLC, and what is proved is the other half, that the published list is
  the camera's (`ListsAreTheCameras`). This theorem and `StatusIsTrue` suppose
  nothing.

  For `findNearest()` the proof shows that the window of the binary search, a
  recursive function, exists (`LoopEnds`: a loop whose argument gets smaller has a
  result), that the last window encloses the value or has found it
  (`BisectEncloses`), and that then no other value of an increasing list is nearer
  (`FindsNearest`, for every increasing list of integers and every integer).

**Only model-checked:** liveness, fairness and ENABLED, which are out of the
prover's reach: `ConnectingEnds`, `CaptureEnds`, `DownloadEnds`,
`DeferredReplayed`, `HandlingEnds`, `StopReturns`, `EventsTaken`, `EventLeaves`, and
that the fairness of EventSystem implies that of EventHandler (the other half of
`ImplementsHandler`). Of each of them the part that can go wrong in the code, that
what is waited for is on its way, is a safety property and is proved:
`ConnectFence` for `ConnectingEnds`, `NobodyWaitsInVain`, `HandlingIsFinite`,
`StopComesNearer`, `NoWakeupIsLost` and `NoNotificationIsLost` for the others. What
TLC adds is the step from there, that a thread which can go on does.

What the conversions with their 32-bit floats compute (`Scaled`, `Float`, `Fixed4`)
is evaluated by TLC on the camera's lists; `ListedAccepted`, which depends on
little else, is checked there only.

## 5. What is not modelled, and why

* libgphoto2 and the camera: external, modelled from what the code asks of them.
* The getters of battery level, exposure program and focal length (with
  `batteryLevelToInt` and CameraWidgetRange), whose values reach the log only.
* EventLogger, Logger, the name tables, Singleton: formatting and constants.
* The terminal side of EventInjector: I/O. Its commands are `PostCommand`. It
  posts plain events where the controller expects a `CameraDownloadEvent`; the
  model's clients post well-formed commands.
* `cleanUp()` of main.cpp: the loop before it never ends. Option parsing.
* The event generator scripts and the vendored libraries under libs/ (catch2,
  cxxopts, restinio). They are by far the greater part of the repository's lines
  and none of its logic: the program's core calls none of them, apart from the
  option parser, so there is no use of them to model from.
* Memory-level effects below the level of these models, such as the reference to
  a vector's element that `wait_until()` is given.

## 6. Plan

Done, in this order: the ring and its abstract specification; the wrapper, the
session and the controller; the controller's proofs; command histories; the HSM;
EventHandler; EventBroker; DelayedEvents; the conversions and the settings; the
event system as main.cpp composes it; the fence of the downloads, with its proof. Then the
proofs: of EventBroker, EventHandler and their composition; of DelayedEvents; of
the command histories; of the HSM; of the settings; and of the safety core of
each liveness property. Last, deferred commands in EventSystem, and `OnTime`.

Next:

1. The controller's `Defer` is a `Put` of OverwritingFifo, and the repost loop of
   Idle a `Pop` until it is empty: the ring of CircularBuffer in the place of the
   sequence `deferred_events`.
2. A refinement of the controller's `state` by HSM for the controller's own
   hierarchy, which ties the lost entry transitions to `handleEvent()`.
3. `Exact` for the texts of a unit, rather than camera by camera: it needs what
   `Scaled` computes for every input.
