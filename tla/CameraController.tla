-------------------------- MODULE CameraController --------------------------
(***************************************************************************)
(* cameracontroller/cameramanager/CameraManager.cpp: the active object that *)
(* owns the camera.  Its thread takes one event at a time from eventList    *)
(* and runs the handler of the current state to completion; clients post    *)
(* commands through the broker at any moment.  The events a handler posts   *)
(* (on TOPIC_CAMERA_EVENT, to which the controller itself subscribes, or    *)
(* straight to its own queue) are collected in `outbox' and reach eventList *)
(* one at a time, before the thread takes the next event, so that commands  *)
(* can slip in between.  Events on TOPIC_CAMERA_STATUS have no subscriber   *)
(* that keeps state and are left out.                                       *)
(*                                                                          *)
(* An event is its signal and one number: the identity of a command, the    *)
(* gphoto2 code of an error.  Which answers the camera and the file system  *)
(* give is the environment's choice, within the sets given as constants.    *)
(***************************************************************************)
EXTENDS Integers, Sequences

CONSTANTS Commands,           \* the command signals clients post
          MaxCommands,        \* bound: how many commands are posted
          Capacity,           \* slots of deferred_events
          ErrorCodes,         \* codes of the GPhotoErrors of widget calls
          DownloadErrorCodes, \* codes of the GPhotoErrors of downloadFile()
          Settings,           \* how many of its four settings a config may set
          NumOptions,         \* option lists read by readOptions()
          Responses,          \* answers of isResponsive() on a connected camera
          DirFailures,        \* may creating download_dir fail?
          OtherExceptions     \* may a call throw what no handler catches?

SessionCommands == {"SET_CONFIG", "GET_STATUS", "GET_OPTIONS", "CAPTURE_WIRED", "DOWNLOAD"}

ConnectResults == {"CONNECTED", "CONNECTION_ERROR"}
CaptureResults == {"CAPTURE_SUCCESS", "CAPTURE_ERROR"}
DownloadResults == {"DOWNLOAD_SUCCESS", "DOWNLOAD_ERROR"}

CommandSignals == {"CONNECT", "DISCONNECT"} \cup SessionCommands
CameraSignals == ConnectResults \cup CaptureResults \cup DownloadResults
                   \cup {"DISCONNECTED", "GENERIC_ERROR"}

ASSUME CommandsAssumption == Commands \subseteq CommandSignals
ASSUME BoundsAssumption == /\ MaxCommands \in Nat
                           /\ Capacity \in Nat \ {0}
                           /\ NumOptions \in Nat
ASSUME CodesAssumption == ErrorCodes \subseteq Int /\ DownloadErrorCodes \subseteq Int
ASSUME SettingsAssumption == Settings \subseteq Nat
ASSUME ChoicesAssumption == /\ Responses \subseteq BOOLEAN /\ Responses # {}
                            /\ DirFailures \subseteq BOOLEAN /\ DirFailures # {}
                            /\ OtherExceptions \in BOOLEAN

VARIABLES state,            \* the leaf state of the HSM
          eventList,        \* EventHandler::eventList
          outbox,           \* events the running handler has still to post
          deferred_events,  \* commands kept for the next entry of Idle
          camera_config,    \* how many settings the stored config carries
          posted,           \* number of commands posted by clients
          terminated,       \* std::terminate was called
          handle, connected \* the CameraWrapper

vars == <<state, eventList, outbox, deferred_events, camera_config, posted,
          terminated, handle, connected>>

camera == INSTANCE CameraWrapper

Event == [sig : CommandSignals \cup CameraSignals, arg : Int]

InConnected == {"Idle", "CaptureWired", "Downloading"}
States == {"Disconnected", "Connecting", "Error"} \cup InConnected

TypeOK == /\ state \in States
          /\ eventList \in Seq(Event)
          /\ outbox \in Seq(Event)
          /\ deferred_events \in Seq(Event)
          /\ camera_config \in Nat
          /\ posted \in Nat
          /\ terminated \in BOOLEAN
          /\ camera!TypeOK

\* HSM::init(): stateInit's transition enters Disconnected.
Init == /\ state = "Disconnected"
        /\ eventList = << >>
        /\ outbox = << >>
        /\ deferred_events = << >>
        /\ camera_config = 0
        /\ posted = 0
        /\ terminated = FALSE
        /\ camera!Init

Ev(sig) == [sig |-> sig, arg |-> 0]
GenericError(code) == [sig |-> "GENERIC_ERROR", arg |-> code]

criticalError(code) == code <= -4 /\ code >= -70

----------------------------------------------------------------------------
\* What each helper may post: n calls, each of which can fail with one error.
Errors(n) == UNION {[1 .. k -> {GenericError(c) : c \in ErrorCodes}] : k \in 0 .. n}

setConfig(cfg) == Errors(cfg)
readStatus == Errors(1)
readOptions == Errors(NumOptions)

\* What the controller posts for each outcome of the wrapper's call: a return, a
\* GPhotoError, and for downloadFile() a filesystem_error.
wiredCapture == {Ev("CAPTURE_SUCCESS"), Ev("CAPTURE_ERROR")}
downloadFile == {Ev("DOWNLOAD_SUCCESS"), Ev("DOWNLOAD_ERROR")}
                  \cup {GenericError(c) : c \in DownloadErrorCodes}

\* Variants with a fault: an error that is caught and not reported, and a
\* report that is followed by another one.
captureWiredSilent == {<<Ev("CAPTURE_SUCCESS")>>, << >>}
downloadSilent == {<<r>> : r \in downloadFile \ {Ev("DOWNLOAD_ERROR")}} \cup {<< >>}
downloadTwice == {<<r, Ev("DOWNLOAD_SUCCESS")>> : r \in downloadFile}

captureWired == {<<r>> : r \in wiredCapture}

\* The failure to create the directory is reported, and the download is then
\* attempted all the same.
download == UNION {{(IF failed THEN <<Ev("DOWNLOAD_ERROR")>> ELSE << >>) \o <<r>>
                      : r \in downloadFile} : failed \in DirFailures}

\* isResponsive() of the wrapper.
isResponsive(answer) == connected /\ answer

\* The thread takes the next event; the state's handler handles it.
Handle(states, sigs) == /\ ~terminated
                        /\ outbox = << >>
                        /\ eventList # << >>
                        /\ state \in states
                        /\ Head(eventList).sig \in sigs
                        /\ eventList' = Tail(eventList)
                        /\ UNCHANGED <<posted, terminated>>

\* Variants of EnterIdle with a fault: no EV_INIT drill; deferred commands that
\* are not reposted, not popped, or reposted last first.
EnterIdleUndrilled(before) == /\ state' = "Connected"
                              /\ outbox' = before
                              /\ UNCHANGED deferred_events

EnterIdleNoRepost(before) ==
  \E answer \in Responses, errors \in readStatus :
    /\ state' = "Idle"
    /\ outbox' = IF isResponsive(answer) THEN before \o errors ELSE before
    /\ UNCHANGED deferred_events

EnterIdleNoPop(before) ==
  \E answer \in Responses, errors \in readStatus :
    /\ state' = "Idle"
    /\ outbox' = IF isResponsive(answer) THEN before \o errors \o deferred_events ELSE before
    /\ UNCHANGED deferred_events

EnterIdleReversed(before) ==
  \E answer \in Responses, errors \in readStatus :
    LET n == Len(deferred_events)
    IN  /\ state' = "Idle"
        /\ IF isResponsive(answer)
           THEN /\ outbox' = before \o errors \o [i \in 1 .. n |-> deferred_events[n + 1 - i]]
                /\ deferred_events' = << >>
           ELSE /\ outbox' = before
                /\ UNCHANGED deferred_events

\* EV_ENTRY of Idle, after the handler that leads there posted `before'.  An
\* unresponsive camera ends the entry; the transition() called then is lost,
\* because handleEvent() ignores what an entry handler returns.
EnterIdle(before) ==
  \E answer \in Responses, errors \in readStatus :
    /\ state' = "Idle"
    /\ IF isResponsive(answer)
       THEN /\ outbox' = before \o errors \o deferred_events
            /\ deferred_events' = << >>
       ELSE /\ outbox' = before
            /\ UNCHANGED deferred_events

\* EV_ENTRY of CaptureWired and of Downloading: the same test, the same loss.
EnterBusy(target, operation) ==
  \E answer \in Responses, result \in operation :
    /\ state' = target
    /\ outbox' = IF isResponsive(answer) THEN result ELSE << >>

\* Variants with a fault: Error that keeps the camera, Connecting that does not
\* report an exception.
EnterErrorKeeps == /\ state' = "Error"
                   /\ outbox' = << >>
                   /\ UNCHANGED <<handle, connected>>

EnterConnectingSilent == /\ state' = "Connecting"
                         /\ \/ camera!connectReturns /\ outbox' = <<Ev("CONNECTED")>>
                            \/ camera!connectThrows /\ outbox' = << >>

\* EV_ENTRY of Error: disconnect().
EnterError == /\ state' = "Error"
              /\ \/ camera!disconnect /\ outbox' = <<Ev("DISCONNECTED")>>
                 \/ camera!notConnected /\ outbox' = << >>

\* EV_ENTRY of Connecting: connect().
EnterConnecting == /\ state' = "Connecting"
                   /\ \/ camera!connectReturns /\ outbox' = <<Ev("CONNECTED")>>
                      \/ camera!connectThrows /\ outbox' = <<Ev("CONNECTION_ERROR")>>

----------------------------------------------------------------------------
\* EventBroker::post of a command by a client.
PostCommand == \E sig \in Commands :
  /\ ~terminated
  /\ posted < MaxCommands
  /\ posted' = posted + 1
  /\ eventList' = Append(eventList, [sig |-> sig, arg |-> posted'])
  /\ UNCHANGED <<state, outbox, deferred_events, camera_config, terminated, handle, connected>>

\* The running handler's next post reaches the controller's own queue.
PostOwn == /\ ~terminated
           /\ outbox # << >>
           /\ eventList' = Append(eventList, Head(outbox))
           /\ outbox' = Tail(outbox)
           /\ UNCHANGED <<state, deferred_events, camera_config, posted, terminated,
                          handle, connected>>

\* Variants with a fault: a second CONNECT while connecting, any error taken for
\* the connection's.
OnConnectAgain == /\ Handle({"Disconnected", "Error", "Connecting"}, {"CONNECT"})
                  /\ EnterConnecting
                  /\ UNCHANGED <<deferred_events, camera_config>>

OnAnyError == /\ Handle({"Connecting"}, {"CONNECTION_ERROR", "GENERIC_ERROR"})
              /\ EnterError
              /\ UNCHANGED <<deferred_events, camera_config>>

OnConnect == /\ Handle({"Disconnected", "Error"}, {"CONNECT"})
             /\ EnterConnecting
             /\ UNCHANGED <<deferred_events, camera_config>>

OnConnectionError == /\ Handle({"Connecting"}, {"CONNECTION_ERROR"})
                     /\ EnterError
                     /\ UNCHANGED <<deferred_events, camera_config>>

\* The stored configuration is applied anew, then Connected drills into Idle.
OnConnected == /\ Handle({"Connecting"}, {"CONNECTED"})
               /\ \E e1 \in setConfig(camera_config), e2 \in readStatus, e3 \in readOptions :
                    EnterIdle(e1 \o e2 \o e3)
               /\ UNCHANGED <<camera_config, handle, connected>>

\* The payload of the command is chosen here, where it is first read.
OnSetConfig == /\ Handle({"Idle"}, {"SET_CONFIG"})
               /\ camera_config' \in Settings
               /\ \E e1 \in setConfig(camera_config'), e2 \in readStatus : outbox' = e1 \o e2
               /\ UNCHANGED <<state, deferred_events, handle, connected>>

OnGetStatus == /\ Handle({"Idle"}, {"GET_STATUS"})
               /\ outbox' \in readStatus
               /\ UNCHANGED <<state, deferred_events, camera_config, handle, connected>>

OnGetOptions == /\ Handle({"Idle"}, {"GET_OPTIONS"})
                /\ outbox' \in readOptions
                /\ UNCHANGED <<state, deferred_events, camera_config, handle, connected>>

\* A variant with a fault: a capture on top of a capture.
OnCaptureWiredAgain == /\ Handle({"Idle", "CaptureWired"}, {"CAPTURE_WIRED"})
                       /\ EnterBusy("CaptureWired", captureWired)
                       /\ UNCHANGED <<deferred_events, camera_config, handle, connected>>

OnCaptureWired == /\ Handle({"Idle"}, {"CAPTURE_WIRED"})
                  /\ EnterBusy("CaptureWired", captureWired)
                  /\ UNCHANGED <<deferred_events, camera_config, handle, connected>>

OnDownload == /\ Handle({"Idle"}, {"DOWNLOAD"})
              /\ EnterBusy("Downloading", download)
              /\ UNCHANGED <<deferred_events, camera_config, handle, connected>>

\* Disconnected has no entry action: the wrapper keeps the camera.
OnDisconnect == /\ Handle({"Idle"}, {"DISCONNECT"})
                /\ state' = "Disconnected"
                /\ UNCHANGED <<outbox, deferred_events, camera_config, handle, connected>>

OnCaptureSuccess == /\ Handle({"CaptureWired"}, {"CAPTURE_SUCCESS"})
                    /\ EnterIdle(<< >>)
                    /\ UNCHANGED <<camera_config, handle, connected>>

OnCaptureError == /\ Handle({"CaptureWired"}, {"CAPTURE_ERROR"})
                  /\ EnterError
                  /\ UNCHANGED <<deferred_events, camera_config>>

OnDownloadEnd == /\ Handle({"Downloading"}, DownloadResults)
                 /\ EnterIdle(<< >>)
                 /\ UNCHANGED <<camera_config, handle, connected>>

\* stateConnected: a critical error ends the session, whatever is going on.
OnGenericError == /\ Handle(InConnected, {"GENERIC_ERROR"})
                  /\ criticalError(Head(eventList).arg)
                  /\ EnterError
                  /\ UNCHANGED <<deferred_events, camera_config>>

\* stateConnected: deferred_events.put(ev), which discards the oldest element
\* of a full ring (OverwritingFifo!Put).
Defer == /\ Handle({"CaptureWired", "Downloading"}, SessionCommands)
         /\ deferred_events' = Append(IF Len(deferred_events) = Capacity
                                      THEN Tail(deferred_events) ELSE deferred_events,
                                      Head(eventList))
         /\ UNCHANGED <<state, outbox, camera_config, handle, connected>>

\* The signals that make a state's handler, or its superstate's, do something.
Reacts(st) == CASE st \in {"Disconnected", "Error"} -> {"CONNECT"}
                [] st = "Connecting"   -> ConnectResults
                [] st = "Idle"         -> SessionCommands \cup {"DISCONNECT"}
                [] st = "CaptureWired" -> SessionCommands \cup CaptureResults
                [] st = "Downloading"  -> SessionCommands \cup DownloadResults

\* An event that reaches Hsm_top, or is only logged.
Ignore == /\ Handle(States, (CommandSignals \cup CameraSignals) \ Reacts(state))
          /\ ~ (/\ state \in InConnected
                /\ Head(eventList).sig = "GENERIC_ERROR"
                /\ criticalError(Head(eventList).arg))
          /\ UNCHANGED <<state, outbox, deferred_events, camera_config, handle, connected>>

\* WidgetReadOnlyError of a setter, std::invalid_argument of std::stoi in
\* getISO() and listISOs(), filesystem_error of fs::exists: none is a
\* GPhotoError, so it leaves the thread's function and the process is over.
Uncaught == /\ OtherExceptions
            /\ ~terminated /\ outbox = << >> /\ eventList # << >>
            /\ LET sig == Head(eventList).sig
               IN  \/ state = "Connecting" /\ sig = "CONNECTED"
                   \/ state = "Idle" /\ sig \in SessionCommands \ {"CAPTURE_WIRED"}
                   \/ state = "CaptureWired" /\ sig = "CAPTURE_SUCCESS"
                   \/ state = "Downloading" /\ sig \in DownloadResults
            /\ terminated' = TRUE
            /\ UNCHANGED <<state, eventList, outbox, deferred_events, camera_config, posted,
                           handle, connected>>

\* A step of the controller's thread.
Run == \/ PostOwn
       \/ OnConnect \/ OnConnectionError \/ OnConnected
       \/ OnSetConfig \/ OnGetStatus \/ OnGetOptions
       \/ OnCaptureWired \/ OnDownload \/ OnDisconnect
       \/ OnCaptureSuccess \/ OnCaptureError \/ OnDownloadEnd
       \/ OnGenericError \/ Defer \/ Ignore \/ Uncaught

Next == PostCommand \/ Run

Spec == Init /\ [][Next]_vars

\* The thread is not starved and the gphoto2 calls it makes return; clients
\* need not post anything.
FairSpec == Spec /\ WF_vars(Run)
----------------------------------------------------------------------------
\* Everything the thread has still to take, in order, ahead of new commands.
Pending == eventList \o outbox

PendingAt(sigs) == {i \in 1 .. Len(Pending) : Pending[i].sig \in sigs}

\* The outcome of connect() fences the sessions: exactly while the state is
\* Connecting one connect result is on its way, it tells what the wrapper holds,
\* and no event of an earlier session can arrive after it (connect(),
\* stateConnecting).
ConnectFence ==
  IF state = "Connecting"
  THEN \E i \in PendingAt(ConnectResults) :
         /\ \A j \in PendingAt(CameraSignals) : j <= i
         /\ \A j \in PendingAt(ConnectResults) : j = i
         /\ Pending[i].sig = "CONNECTED" <=> connected
  ELSE PendingAt(ConnectResults) = {}

\* A capture result that stateCaptureWired takes is the result of the capture
\* it started: there is never more than one on its way, and none once the
\* session is in another state, also after an error and a reconnection.
CaptureFence == /\ \A i, j \in PendingAt(CaptureResults) : i = j
                /\ state \in {"Idle", "Downloading"} => PendingAt(CaptureResults) = {}

\* The same for downloads, as long as the directory for the photos exists or
\* can be created: when it cannot, download() posts two results, and the second
\* one may end the next download (download(), stateDownloading).
DownloadFence == TRUE \notin DirFailures =>
                   /\ \A i, j \in PendingAt(DownloadResults) : i = j
                   /\ state \in {"Idle", "CaptureWired"} => PendingAt(DownloadResults) = {}

\* The substates of Connected call the camera without testing isConnected():
\* they are only reached with a connected wrapper and a live handle, never with
\* the dangling one a failed connect() leaves; Error has let the camera go.
CameraHeld == /\ state \in InConnected => connected
              /\ connected => handle = "live"
              /\ state = "Error" => ~connected

phase == CASE state = "Disconnected" -> "off"
           [] state = "Connecting" -> "connecting"
           [] state = "Idle" -> "ready"
           [] state \in {"CaptureWired", "Downloading"} -> "busy"
           [] state = "Error" -> "failed"

Session == INSTANCE CameraSession WITH link <- connected

\* The controller is a camera session: whatever events are queued, a request is
\* established only if its own connect() succeeded and refused only if it
\* failed, and a failure always releases the camera.
ImplementsSession == Session!Spec

\* A connection attempt comes to an end: stateConnecting waits for an event of
\* its own making, which nothing may swallow.
ConnectingEnds == state = "Connecting" ~> (state # "Connecting" \/ terminated)

\* A capture comes to an end: success leads to Idle, an error or a camera that
\* is not responsive to Error.
CaptureEnds == state = "CaptureWired" ~> (state # "CaptureWired" \/ terminated)

\* A download comes to an end: success and error both lead to Idle.
DownloadEnds == state = "Downloading" ~> (state # "Downloading" \/ terminated)

\* While the session lasts, deferred commands do not stay deferred.
DeferredReplayed == deferred_events # << >> ~>
                      (deferred_events = << >> \/ state \notin InConnected \/ terminated)
=============================================================================
