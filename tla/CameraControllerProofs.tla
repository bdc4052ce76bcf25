----------------------- MODULE CameraControllerProofs -----------------------
(***************************************************************************)
(* Proofs about CameraController, for every set of commands, codes and      *)
(* settings and for every bound.                                            *)
(***************************************************************************)
EXTENDS CameraController, TLAPS

USE CommandsAssumption, BoundsAssumption, CodesAssumption, SettingsAssumption,
    ChoicesAssumption

\* Every sequence readStatus(), readOptions() and setConfig() may post consists
\* of GENERIC_ERROR events.
LEMMA ErrorsType ==
  ASSUME NEW n \in Nat, NEW s \in Errors(n)
  PROVE  /\ s \in Seq(Event)
         /\ \A i \in 1 .. Len(s) : s[i].sig = "GENERIC_ERROR"
<1>1. PICK k \in 0 .. n : s \in [1 .. k -> {GenericError(c) : c \in ErrorCodes}]
  BY DEF Errors
<1>2. \A i \in 1 .. k : s[i] \in Event /\ s[i].sig = "GENERIC_ERROR"
  BY <1>1 DEF GenericError, Event, CameraSignals
<1>3. k \in Nat
  OBVIOUS
<1>4. s = [i \in 1 .. k |-> s[i]]
  BY <1>1
<1>5. s \in Seq(Event) /\ Len(s) = k
  BY <1>2, <1>3, <1>4
<1>. QED BY <1>2, <1>5

\* What the three helpers post, by name.
LEMMA HelpersType ==
  /\ \A s \in readStatus : /\ s \in Seq(Event)
                           /\ \A i \in 1 .. Len(s) : s[i].sig = "GENERIC_ERROR"
  /\ \A s \in readOptions : /\ s \in Seq(Event)
                            /\ \A i \in 1 .. Len(s) : s[i].sig = "GENERIC_ERROR"
  /\ \A cfg \in Nat : \A s \in setConfig(cfg) :
       /\ s \in Seq(Event)
       /\ \A i \in 1 .. Len(s) : s[i].sig = "GENERIC_ERROR"
BY ErrorsType DEF readStatus, readOptions, setConfig

\* A one-element sequence.
LEMMA Singleton ==
  ASSUME NEW S, NEW e \in S
  PROVE  <<e>> \in Seq(S) /\ Len(<<e>>) = 1 /\ <<e>>[1] = e
OBVIOUS

\* A sequence is one of whatever contains its elements.
LEMMA WithElements ==
  ASSUME NEW S, NEW T, NEW s \in Seq(T), \A i \in 1 .. Len(s) : s[i] \in S
  PROVE  s \in Seq(S)
OBVIOUS

\* The concatenation of two sequences.
LEMMA Concat ==
  ASSUME NEW S, NEW s \in Seq(S), NEW t \in Seq(S)
  PROVE  /\ s \o t \in Seq(S)
         /\ Len(s \o t) = Len(s) + Len(t)
         /\ \A i \in 1 .. Len(s \o t) :
              (s \o t)[i] = IF i <= Len(s) THEN s[i] ELSE t[i - Len(s)]
OBVIOUS

\* What applying a configuration and reading the status and the options post
\* together: errors.
LEMMA ConnectedErrors ==
  ASSUME camera_config \in Nat, NEW e1 \in setConfig(camera_config), NEW e2 \in readStatus,
         NEW e3 \in readOptions
  PROVE  /\ e1 \o e2 \o e3 \in Seq(Event)
         /\ \A i \in 1 .. Len(e1 \o e2 \o e3) : (e1 \o e2 \o e3)[i].sig = "GENERIC_ERROR"
<1>. DEFINE Errs == {e \in Event : e.sig = "GENERIC_ERROR"}
<1>1. e1 \in Seq(Errs) /\ e2 \in Seq(Errs) /\ e3 \in Seq(Errs)
  <2>1. \A x \in {e1, e2, e3} : x \in Seq(Event) /\ \A i \in 1 .. Len(x) : x[i].sig = "GENERIC_ERROR"
    BY HelpersType
  <2>2. \A x \in {e1, e2, e3} : x \in Seq(Event) /\ \A i \in 1 .. Len(x) : x[i] \in Errs
    BY <2>1
  <2>. HIDE DEF Errs
  <2>. QED BY <2>2, WithElements
<1>2. e1 \o e2 \o e3 \in Seq(Errs)
  <2>. HIDE DEF Errs
  <2>. QED BY <1>1, Concat
<1>3. \A i \in 1 .. Len(e1 \o e2 \o e3) : (e1 \o e2 \o e3)[i] \in Errs
  <2>. HIDE DEF Errs
  <2>. QED BY <1>2
<1>. QED BY <1>2, <1>3

\* An event without a number is an event.
LEMMA EvType ==
  ASSUME NEW sig \in CommandSignals \cup CameraSignals
  PROVE  Ev(sig) \in Event /\ Ev(sig).sig = sig
BY DEF Ev, Event

\* What captureWired() and download() post.
LEMMA OperationsType ==
  /\ \A s \in captureWired : s \in Seq(Event) /\ Len(s) = 1 /\ s[1].sig \in CaptureResults
  /\ \A s \in download :
       /\ s \in Seq(Event)
       /\ \A i \in 1 .. Len(s) : s[i].sig \in DownloadResults \cup {"GENERIC_ERROR"}
<1>1. ASSUME NEW s \in captureWired
      PROVE  s \in Seq(Event) /\ Len(s) = 1 /\ s[1].sig \in CaptureResults
  <2>1. PICK sig \in CaptureResults : s = <<Ev(sig)>>
    BY DEF captureWired, wiredCapture, CaptureResults
  <2>2. Ev(sig) \in Event /\ Ev(sig).sig = sig
    BY EvType DEF CameraSignals
  <2>. QED BY <2>1, <2>2, Singleton
<1>2. ASSUME NEW s \in download
      PROVE  /\ s \in Seq(Event)
             /\ \A i \in 1 .. Len(s) : s[i].sig \in DownloadResults \cup {"GENERIC_ERROR"}
  <2>. DEFINE Good == {e \in Event : e.sig \in DownloadResults \cup {"GENERIC_ERROR"}}
              first(failed) == IF failed THEN <<Ev("DOWNLOAD_ERROR")>> ELSE << >>
  <2>1. PICK failed \in DirFailures, r \in downloadFile : s = first(failed) \o <<r>>
    BY DEF download
  <2>2. Ev("DOWNLOAD_SUCCESS") \in Good /\ Ev("DOWNLOAD_ERROR") \in Good
    BY EvType DEF CameraSignals, DownloadResults
  <2>3. \A c \in DownloadErrorCodes : GenericError(c) \in Good
    BY DEF GenericError, Event, CameraSignals
  <2>4. r \in Good
    BY <2>2, <2>3 DEF downloadFile
  <2>5. <<r>> \in Seq(Good)
    BY <2>4, Singleton
  <2>6. first(failed) \in Seq(Good)
    <3>1. << >> \in Seq(Good)
      OBVIOUS
    <3>2. <<Ev("DOWNLOAD_ERROR")>> \in Seq(Good)
      BY <2>2, Singleton
    <3>. QED BY <3>1, <3>2
  <2>7. s \in Seq(Good)
    <3>. HIDE DEF Good, first
    <3>. QED BY <2>1, <2>5, <2>6, Concat
  <2>8. \A i \in 1 .. Len(s) : s[i] \in Good
    <3>. HIDE DEF Good
    <3>. QED BY <2>7
  <2>9. s \in Seq(Event)
    BY <2>7, <2>8
  <2>. QED BY <2>8, <2>9
<1>. QED BY <1>1, <1>2

\* The initial state is well typed.
LEMMA TypeInit == Init => TypeOK
<1>. SUFFICES ASSUME Init PROVE TypeOK
  OBVIOUS
<1>1. terminated \in BOOLEAN /\ camera!TypeOK
  BY Zenon DEF Init, camera!Init, camera!TypeOK
<1>2. eventList \in Seq(Event) /\ outbox \in Seq(Event) /\ deferred_events \in Seq(Event)
  BY DEF Init
<1>3. state \in States /\ camera_config \in Nat /\ posted \in Nat
  BY DEF Init, States
<1>. QED BY <1>1, <1>2, <1>3 DEF TypeOK

\* Every step keeps the types.
LEMMA TypeStep == TypeOK /\ [Next]_vars => TypeOK'
<1>. SUFFICES ASSUME TypeOK, [Next]_vars PROVE TypeOK'
  OBVIOUS
<1>. USE DEF TypeOK, camera!TypeOK
<1>h. ASSUME NEW states, NEW sigs, Handle(states, sigs)
      PROVE  /\ Head(eventList) \in Event /\ eventList' \in Seq(Event)
             /\ posted' \in Nat /\ terminated' \in BOOLEAN
  BY <1>h DEF Handle
<1>i. ASSUME NEW before \in Seq(Event), EnterIdle(before)
      PROVE  state' \in States /\ outbox' \in Seq(Event) /\ deferred_events' \in Seq(Event)
  <2>1. PICK answer \in Responses, errors \in readStatus :
          /\ state' = "Idle"
          /\ IF isResponsive(answer)
             THEN outbox' = before \o errors \o deferred_events /\ deferred_events' = << >>
             ELSE outbox' = before /\ UNCHANGED deferred_events
    BY <1>i, Zenon DEF EnterIdle
  <2>2. before \o errors \o deferred_events \in Seq(Event)
    BY HelpersType, Concat
  <2>3. << >> \in Seq(Event)
    OBVIOUS
  <2>. QED BY <2>1, <2>2, <2>3, Zenon DEF States, InConnected
<1>r. ASSUME EnterError
      PROVE  state' \in States /\ outbox' \in Seq(Event) /\ camera!TypeOK'
  <2>1. <<Ev("DISCONNECTED")>> \in Seq(Event) /\ << >> \in Seq(Event)
    BY EvType, Singleton DEF CameraSignals
  <2>. QED BY <1>r, <2>1, Zenon DEF EnterError, States, camera!disconnect, camera!freeCamera,
              camera!notConnected, camera!wrapperVars
<1>1. CASE PostCommand
  BY <1>1 DEF PostCommand, Event
<1>2. CASE PostOwn
  BY <1>2 DEF PostOwn
<1>3. CASE OnConnect
  <2>1. <<Ev("CONNECTED")>> \in Seq(Event) /\ <<Ev("CONNECTION_ERROR")>> \in Seq(Event)
    BY EvType, Singleton DEF CameraSignals, ConnectResults
  <2>2. state' \in States /\ outbox' \in Seq(Event)
    BY <1>3, <2>1, Zenon DEF OnConnect, EnterConnecting, States
  <2>3. camera!TypeOK'
    BY <1>3, Zenon DEF OnConnect, EnterConnecting, camera!connectReturns, camera!connectThrows,
       camera!alreadyConnected, camera!connectOK, camera!newFails, camera!initFails,
       camera!serialFails, camera!wrapperVars
  <2>. QED BY <1>3, <1>h, <2>2, <2>3 DEF OnConnect
<1>4. CASE OnConnectionError
  BY <1>4, <1>h, <1>r DEF OnConnectionError
<1>5. CASE OnConnected
  <2>1. PICK e1 \in setConfig(camera_config), e2 \in readStatus, e3 \in readOptions :
          EnterIdle(e1 \o e2 \o e3)
    BY <1>5 DEF OnConnected
  <2>2. e1 \o e2 \o e3 \in Seq(Event)
    BY HelpersType
  <2>. QED BY <1>5, <1>h, <1>i, <2>1, <2>2 DEF OnConnected
<1>6. CASE OnSetConfig
  <2>1. camera_config' \in Nat
    BY <1>6 DEF OnSetConfig
  <2>2. PICK e1 \in setConfig(camera_config'), e2 \in readStatus : outbox' = e1 \o e2
    BY <1>6 DEF OnSetConfig
  <2>3. outbox' \in Seq(Event)
    BY <2>1, <2>2, HelpersType
  <2>. QED BY <1>6, <1>h, <2>1, <2>3 DEF OnSetConfig
<1>7. CASE OnGetStatus
  BY <1>7, <1>h, HelpersType DEF OnGetStatus
<1>8. CASE OnGetOptions
  BY <1>8, <1>h, HelpersType DEF OnGetOptions
<1>9. CASE OnCaptureWired
  BY <1>9, <1>h, OperationsType DEF OnCaptureWired, EnterBusy, States, InConnected
<1>10. CASE OnDownload
  BY <1>10, <1>h, OperationsType DEF OnDownload, EnterBusy, States, InConnected
<1>11. CASE OnDisconnect
  BY <1>11, <1>h DEF OnDisconnect, States
<1>12. CASE OnCaptureSuccess
  <2>1. << >> \in Seq(Event)
    OBVIOUS
  <2>. QED BY <1>12, <1>h, <1>i, <2>1 DEF OnCaptureSuccess
<1>13. CASE OnCaptureError
  BY <1>13, <1>h, <1>r DEF OnCaptureError
<1>14. CASE OnDownloadEnd
  <2>1. << >> \in Seq(Event)
    OBVIOUS
  <2>. QED BY <1>14, <1>h, <1>i, <2>1 DEF OnDownloadEnd
<1>15. CASE OnGenericError
  BY <1>15, <1>h, <1>r DEF OnGenericError
<1>16. CASE Defer
  <2>1. (IF Len(deferred_events) = Capacity THEN Tail(deferred_events)
         ELSE deferred_events) \in Seq(Event)
    <3>1. Len(deferred_events) = Capacity => deferred_events # << >>
      OBVIOUS
    <3>. QED BY <3>1
  <2>. QED BY <1>16, <1>h, <2>1 DEF Defer
<1>17. CASE Ignore
  BY <1>17, <1>h DEF Ignore
<1>18. CASE Uncaught
  BY <1>18 DEF Uncaught
<1>19. CASE UNCHANGED vars
  BY <1>19 DEF vars
<1>. QED
  BY <1>1, <1>2, <1>3, <1>4, <1>5, <1>6, <1>7, <1>8, <1>9, <1>10, <1>11, <1>12, <1>13,
     <1>14, <1>15, <1>16, <1>17, <1>18, <1>19 DEF Next, Run

\* Every reachable state of the controller is well typed.
THEOREM TypeCorrect == Spec => []TypeOK
BY TypeInit, TypeStep, PTL DEF Spec
----------------------------------------------------------------------------
\* Only session commands are ever deferred.
DeferredCommands == \A i \in 1 .. Len(deferred_events) :
                      deferred_events[i].sig \in SessionCommands

\* The inductive invariant: the fences need to know that replaying deferred
\* commands brings no camera event back.
IInv == /\ TypeOK
        /\ ConnectFence
        /\ CaptureFence
        /\ CameraHeld
        /\ DeferredCommands

\* The classes of signals do not overlap.
LEMMA SignalClasses ==
  /\ CommandSignals \cap CameraSignals = {}
  /\ SessionCommands \subseteq CommandSignals
  /\ ConnectResults \subseteq CameraSignals /\ CaptureResults \subseteq CameraSignals
  /\ ConnectResults \cap CaptureResults = {}
  /\ DownloadResults \cap ConnectResults = {} /\ DownloadResults \cap CaptureResults = {}
  /\ DownloadResults \subseteq CameraSignals
  /\ "GENERIC_ERROR" \in CameraSignals \ (ConnectResults \cup CaptureResults \cup DownloadResults)
  /\ "DISCONNECTED" \in CameraSignals \ (ConnectResults \cup CaptureResults \cup DownloadResults)
BY DEF CommandSignals, CameraSignals, SessionCommands, ConnectResults, CaptureResults,
       DownloadResults

\* A handler takes the first pending event and adds its own posts at the end.
LEMMA Take ==
  ASSUME TypeOK, TypeOK', NEW states, NEW sigs, Handle(states, sigs)
  PROVE  /\ Pending = eventList /\ Pending \in Seq(Event) /\ Len(Pending) > 0
         /\ Pending[1] = Head(eventList) /\ Pending[1].sig \in sigs
         /\ Len(Pending') = Len(Pending) - 1 + Len(outbox')
         /\ \A i \in 1 .. Len(Pending') :
              Pending'[i] = IF i < Len(Pending) THEN Pending[i + 1]
                            ELSE outbox'[i - Len(Pending) + 1]
<1>. DEFINE tl == Tail(eventList)
            out == outbox'
<1>1. /\ eventList \in Seq(Event) /\ eventList # << >> /\ outbox = << >>
      /\ eventList' = tl /\ out \in Seq(Event) /\ Head(eventList).sig \in sigs
  BY DEF TypeOK, Handle
<1>2. eventList \o << >> = eventList
  BY <1>1
<1>3. Pending = eventList
  BY <1>1, <1>2 DEF Pending
<1>4. /\ Len(eventList) > 0 /\ Len(eventList) \in Nat /\ eventList[1] = Head(eventList)
      /\ tl \in Seq(Event) /\ Len(tl) = Len(eventList) - 1
      /\ \A i \in 1 .. Len(tl) : tl[i] = eventList[i + 1]
  BY <1>1
<1>5. Pending' = tl \o out
  BY <1>1 DEF Pending
<1>. HIDE DEF tl, out
<1>6. /\ Len(tl \o out) = Len(tl) + Len(out)
      /\ \A i \in 1 .. Len(tl \o out) :
           (tl \o out)[i] = IF i <= Len(tl) THEN tl[i] ELSE out[i - Len(tl)]
  BY <1>1, <1>4, Concat
<1>7. Len(out) \in Nat
  BY <1>1
<1>8. ASSUME NEW i \in 1 .. Len(tl \o out)
      PROVE  (tl \o out)[i] = IF i < Len(eventList) THEN eventList[i + 1]
                              ELSE out[i - Len(eventList) + 1]
  <2>1. i - Len(tl) = i - Len(eventList) + 1
    BY <1>4, <1>6, <1>7
  <2>. QED BY <1>4, <1>6, <1>7, <2>1
<1>9. Len(tl \o out) = Len(eventList) - 1 + Len(out)
  BY <1>4, <1>6, <1>7
<1>. QED BY <1>1, <1>3, <1>4, <1>5, <1>8, <1>9 DEF out

\* If it posts no signal of S, the signals of S only move up by one place.
LEMMA Shift ==
  ASSUME TypeOK, TypeOK', NEW states, NEW sigs, Handle(states, sigs), NEW S,
         \A i \in 1 .. Len(outbox') : outbox'[i].sig \notin S
  PROVE  \A i \in PendingAt(S)' : i + 1 \in PendingAt(S) /\ Pending'[i] = Pending[i + 1]
<1>. SUFFICES ASSUME NEW i \in PendingAt(S)'
              PROVE  i + 1 \in PendingAt(S) /\ Pending'[i] = Pending[i + 1]
  OBVIOUS
<1>1. i \in 1 .. Len(Pending') /\ Pending'[i].sig \in S
  BY DEF PendingAt
<1>2. Len(outbox') \in Nat /\ Len(Pending) \in Nat
  BY Take DEF TypeOK
<1>3. i < Len(Pending)
  <2>. SUFFICES ASSUME ~ (i < Len(Pending)) PROVE FALSE
    OBVIOUS
  <2>1. i - Len(Pending) + 1 \in 1 .. Len(outbox')
    BY <1>1, <1>2, Take
  <2>. QED BY <1>1, <2>1, Take
<1>. QED BY <1>1, <1>2, <1>3, Take DEF PendingAt
\* A handler's post moves from the outbox to the queue; what is pending, and
\* its order, stay the same.
LEMMA PostOwnPending ==
  ASSUME TypeOK, PostOwn
  PROVE  Pending' = Pending
<1>1. /\ eventList \in Seq(Event) /\ outbox \in Seq(Event) /\ outbox # << >>
      /\ eventList' = Append(eventList, Head(outbox)) /\ outbox' = Tail(outbox)
  BY DEF TypeOK, PostOwn
<1>2. Append(eventList, Head(outbox)) \o Tail(outbox) = eventList \o outbox
  BY <1>1
<1>. QED BY <1>1, <1>2 DEF Pending

\* A client's command is inserted behind the queue and ahead of the outbox: the
\* camera events keep their order.
LEMMA Insert ==
  ASSUME TypeOK, PostCommand, NEW S \in SUBSET CameraSignals
  PROVE  LET k == Len(eventList)
         IN  /\ \A i \in PendingAt(S) : IF i <= k
                  THEN i \in PendingAt(S)' /\ Pending'[i] = Pending[i]
                  ELSE i + 1 \in PendingAt(S)' /\ Pending'[i + 1] = Pending[i]
             /\ \A i \in PendingAt(S)' : IF i <= k
                  THEN i \in PendingAt(S)
                  ELSE i > k + 1 /\ i - 1 \in PendingAt(S)
<1>1. PICK sig \in Commands : eventList' = Append(eventList, [sig |-> sig, arg |-> posted'])
  BY DEF PostCommand
<1>. DEFINE k == Len(eventList)
            cmd == [sig |-> sig, arg |-> posted']
            q == Append(eventList, cmd)
<1>2. /\ cmd \in Event /\ cmd.sig \notin S
      /\ eventList \in Seq(Event) /\ outbox \in Seq(Event)
  BY SignalClasses DEF TypeOK, PostCommand, Event
<1>3. Pending = eventList \o outbox /\ Pending' = q \o outbox
  BY <1>1 DEF Pending, PostCommand
<1>. HIDE DEF cmd
<1>4. /\ q \in Seq(Event) /\ Len(q) = k + 1 /\ q[k + 1] = cmd
      /\ \A i \in 1 .. k : q[i] = eventList[i]
      /\ k \in Nat /\ Len(outbox) \in Nat
  BY <1>2
<1>. HIDE DEF q
<1>5. /\ Len(Pending) = k + Len(outbox)
      /\ \A i \in 1 .. Len(Pending) : Pending[i] = IF i <= k THEN eventList[i] ELSE outbox[i - k]
  BY <1>2, <1>3, Concat
<1>6. /\ Len(Pending') = k + 1 + Len(outbox)
      /\ \A i \in 1 .. Len(Pending') : Pending'[i] = IF i <= k + 1 THEN q[i] ELSE outbox[i - (k + 1)]
  BY <1>2, <1>3, <1>4, Concat
<1>. HIDE DEF k
<1>7. ASSUME NEW i \in PendingAt(S)
      PROVE  IF i <= k THEN i \in PendingAt(S)' /\ Pending'[i] = Pending[i]
             ELSE i + 1 \in PendingAt(S)' /\ Pending'[i + 1] = Pending[i]
  <2>1. i \in 1 .. Len(Pending) /\ Pending[i].sig \in S
    BY DEF PendingAt
  <2>2. CASE i <= k
    <3>1. i \in 1 .. Len(Pending') /\ i <= k + 1
      BY <1>4, <1>5, <1>6, <2>1, <2>2
    <3>2. Pending'[i] = q[i] /\ Pending[i] = eventList[i] /\ q[i] = eventList[i]
      BY <1>4, <1>5, <1>6, <2>1, <2>2, <3>1
    <3>. QED BY <2>1, <2>2, <3>1, <3>2 DEF PendingAt
  <2>3. CASE i > k
    <3>1. i + 1 \in 1 .. Len(Pending') /\ ~ (i + 1 <= k + 1) /\ (i + 1) - (k + 1) = i - k
      BY <1>4, <1>5, <1>6, <2>1, <2>3
    <3>a. Pending[i] = outbox[i - k]
      BY <1>4, <1>5, <2>1, <2>3
    <3>b. Pending'[i + 1] = outbox[(i + 1) - (k + 1)]
      BY <1>6, <3>1
    <3>2. Pending'[i + 1] = Pending[i]
      BY <3>1, <3>a, <3>b
    <3>. QED BY <1>4, <2>1, <2>3, <3>1, <3>2 DEF PendingAt
  <2>. QED BY <1>4, <2>1, <2>2, <2>3
<1>8. ASSUME NEW i \in PendingAt(S)'
      PROVE  IF i <= k THEN i \in PendingAt(S) ELSE i > k + 1 /\ i - 1 \in PendingAt(S)
  <2>1. i \in 1 .. Len(Pending') /\ Pending'[i].sig \in S
    BY DEF PendingAt
  <2>2. CASE i <= k
    BY <1>4, <1>5, <1>6, <2>1, <2>2 DEF PendingAt
  <2>3. i # k + 1
    BY <1>2, <1>4, <1>6, <2>1
  <2>4. CASE i > k + 1
    <3>1. i - 1 \in 1 .. Len(Pending) /\ ~ (i - 1 <= k) /\ (i - 1) - k = i - (k + 1)
      BY <1>4, <1>5, <1>6, <2>1, <2>4
    <3>2. Pending[i - 1] = Pending'[i]
      BY <1>4, <1>5, <1>6, <2>1, <2>4, <3>1
    <3>. QED BY <1>4, <2>1, <2>4, <3>1, <3>2 DEF PendingAt
  <2>. QED BY <1>4, <2>1, <2>2, <2>3, <2>4
<1>. QED BY <1>7, <1>8 DEF k

\* A handler that posts no result of connect() or of a capture brings none into
\* the queue, and takes the first pending event out of it.
LEMMA QuietTake ==
  ASSUME IInv, TypeOK', NEW states, NEW sigs, Handle(states, sigs),
         \A i \in 1 .. Len(outbox') : outbox'[i].sig \notin ConnectResults \cup CaptureResults
  PROVE  /\ PendingAt(ConnectResults) \subseteq {1} => PendingAt(ConnectResults)' = {}
         /\ PendingAt(CaptureResults) \subseteq {1} => PendingAt(CaptureResults)' = {}
         /\ \A i, j \in PendingAt(CaptureResults)' : i = j
<1>1. \A i \in PendingAt(ConnectResults)' : i + 1 \in PendingAt(ConnectResults)
  BY Shift DEF IInv
<1>2. \A i \in PendingAt(CaptureResults)' : i + 1 \in PendingAt(CaptureResults)
  BY Shift DEF IInv
<1>3. \A S : PendingAt(S)' \subseteq Nat \ {0}
  BY Take DEF PendingAt, IInv, TypeOK
<1>4. \A i, j \in PendingAt(CaptureResults) : i = j
  BY DEF IInv, CaptureFence
<1>. QED BY <1>1, <1>2, <1>3, <1>4
\* The results an operation of the camera may report.
Results == ConnectResults \cup CaptureResults \cup DownloadResults

\* Entering Idle posts errors and deferred session commands, nothing else.
LEMMA IdleEntry ==
  ASSUME IInv, NEW before \in Seq(Event), EnterIdle(before),
         \A i \in 1 .. Len(before) : before[i].sig = "GENERIC_ERROR"
  PROVE  /\ state' = "Idle"
         /\ \A i \in 1 .. Len(outbox') : outbox'[i].sig \notin Results
         /\ DeferredCommands'
<1>1. PICK answer \in Responses, errors \in readStatus :
        /\ state' = "Idle"
        /\ IF isResponsive(answer)
           THEN outbox' = before \o errors \o deferred_events /\ deferred_events' = << >>
           ELSE outbox' = before /\ UNCHANGED deferred_events
  BY Zenon DEF EnterIdle
<1>. DEFINE Quiet == {e \in Event : e.sig \notin Results}
<1>2. before \in Seq(Quiet) /\ errors \in Seq(Quiet)
  <2>1. \A e \in Event : e.sig = "GENERIC_ERROR" => e \in Quiet
    BY SignalClasses DEF Results
  <2>2. /\ errors \in Seq(Event)
        /\ \A i \in 1 .. Len(errors) : errors[i].sig = "GENERIC_ERROR"
    BY HelpersType
  <2>. HIDE DEF Quiet
  <2>3. (\A i \in 1 .. Len(before) : before[i] \in Quiet) /\ (\A i \in 1 .. Len(errors) : errors[i] \in Quiet)
    BY <2>1, <2>2
  <2>. QED BY <2>2, <2>3
<1>3. deferred_events \in Seq(Quiet)
  <2>1. \A e \in Event : e.sig \in SessionCommands => e \in Quiet
    BY SignalClasses DEF Results
  <2>2. deferred_events \in Seq(Event)
    BY DEF IInv, TypeOK
  <2>. HIDE DEF Quiet
  <2>3. \A i \in 1 .. Len(deferred_events) : deferred_events[i] \in Quiet
    BY <2>1, <2>2 DEF IInv, DeferredCommands
  <2>. QED BY <2>2, <2>3
<1>4. before \o errors \o deferred_events \in Seq(Quiet)
  <2>. HIDE DEF Quiet
  <2>. QED BY <1>2, <1>3, Concat
<1>5. outbox' \in Seq(Quiet)
  BY <1>1, <1>2, <1>4, Zenon
<1>6. \A i \in 1 .. Len(outbox') : outbox'[i] \in Quiet
  <2>. HIDE DEF Quiet
  <2>. QED BY <1>5
<1>7. DeferredCommands'
  <2>1. CASE deferred_events' = << >>
    BY <2>1 DEF DeferredCommands
  <2>2. CASE UNCHANGED deferred_events
    BY <2>2 DEF DeferredCommands, IInv
  <2>. QED BY <1>1, <2>1, <2>2, Zenon
<1>. QED BY <1>1, <1>6, <1>7

\* Entering Error releases the camera and posts at most DISCONNECTED.
LEMMA ErrorEntry ==
  ASSUME IInv, EnterError
  PROVE  /\ state' = "Error"
         /\ ~connected'
         /\ CameraHeld'
         /\ \A i \in 1 .. Len(outbox') : outbox'[i].sig \notin Results
<1>1. state' = "Error"
  BY DEF EnterError
<1>2. ~connected'
  BY Zenon DEF EnterError, camera!disconnect, camera!notConnected, camera!wrapperVars
<1>3. CameraHeld'
  BY <1>1, <1>2 DEF CameraHeld, InConnected
<1>4. outbox' = <<Ev("DISCONNECTED")>> \/ outbox' = << >>
  BY Zenon DEF EnterError
<1>5. "DISCONNECTED" \notin Results
  BY SignalClasses DEF Results
<1>6. Ev("DISCONNECTED").sig = "DISCONNECTED"
  BY DEF Ev
<1>7. \A i \in 1 .. Len(outbox') : outbox'[i].sig \notin Results
  <2>1. CASE outbox' = <<Ev("DISCONNECTED")>>
    <3>1. Len(outbox') = 1 /\ outbox'[1] = Ev("DISCONNECTED")
      BY <2>1
    <3>. QED BY <1>5, <1>6, <3>1
  <2>2. CASE outbox' = << >>
    BY <2>2
  <2>. QED BY <1>4, <2>1, <2>2
<1>. QED BY <1>1, <1>2, <1>3, <1>7, Zenon

\* What the wrapper holds does not change, nor does the side of the session.
LEMMA HeldKept ==
  ASSUME CameraHeld, UNCHANGED <<handle, connected>>,
         state' \in InConnected => state \in InConnected \/ connected,
         state' = "Error" => state = "Error"
  PROVE  CameraHeld'
<1>1. handle' = handle /\ (connected' <=> connected)
  OBVIOUS
<1>2. (state \in InConnected => connected) /\ (connected => handle = "live")
        /\ (state = "Error" => ~connected)
  BY DEF CameraHeld
<1>. QED BY <1>1, <1>2, Zenon DEF CameraHeld
\* The initial state satisfies the invariant.
LEMMA SafetyInit == Init => IInv
<1>. SUFFICES ASSUME Init PROVE IInv
  OBVIOUS
<1>1. TypeOK
  BY TypeInit
<1>2. eventList = << >> /\ outbox = << >> /\ deferred_events = << >> /\ state = "Disconnected"
  BY DEF Init
<1>3. << >> \o << >> = << >>
  OBVIOUS
<1>4. \A S : PendingAt(S) = {}
  BY <1>2, <1>3 DEF PendingAt, Pending
<1>5. ConnectFence /\ CaptureFence
  BY <1>2, <1>4 DEF ConnectFence, CaptureFence
<1>6. ~connected
  BY Zenon DEF Init, camera!Init
<1>7. CameraHeld
  BY <1>2, <1>6 DEF CameraHeld, InConnected
<1>8. DeferredCommands
  BY <1>2 DEF DeferredCommands
<1>. QED BY <1>1, <1>5, <1>7, <1>8 DEF IInv

\* A step that leaves state, wrapper, deferred commands and the order of what is
\* pending alone leaves the invariant alone.
LEMMA SamePending ==
  ASSUME IInv, TypeOK', Pending' = Pending, UNCHANGED <<state, deferred_events, handle, connected>>
  PROVE  IInv'
<1>1. \A S : PendingAt(S)' = PendingAt(S)
  BY DEF PendingAt
<1>2. /\ state' = state /\ deferred_events' = deferred_events /\ handle' = handle
      /\ connected' <=> connected
  OBVIOUS
<1>3. ConnectFence'
  <2>1. CASE state = "Connecting"
    <3>1. PICK i \in PendingAt(ConnectResults) :
             /\ \A j \in PendingAt(CameraSignals) : j <= i
             /\ \A j \in PendingAt(ConnectResults) : j = i
             /\ Pending[i].sig = "CONNECTED" <=> connected
      BY <2>1 DEF IInv, ConnectFence
    <3>2. Pending'[i].sig = "CONNECTED" <=> connected'
      BY <1>2, <3>1
    <3>. QED BY <1>1, <1>2, <2>1, <3>1, <3>2 DEF ConnectFence
  <2>2. CASE state # "Connecting"
    BY <1>1, <1>2, <2>2 DEF IInv, ConnectFence
  <2>. QED BY <2>1, <2>2
<1>4. CaptureFence'
  BY <1>1, <1>2 DEF IInv, CaptureFence
<1>5. CameraHeld'
  BY <1>2, Zenon DEF IInv, CameraHeld
<1>6. DeferredCommands'
  BY <1>2 DEF IInv, DeferredCommands
<1>. QED BY <1>3, <1>4, <1>5, <1>6 DEF IInv

\* A client's command disturbs no fence.
LEMMA SafetyCommand ==
  ASSUME IInv, TypeOK', PostCommand
  PROVE  IInv'
<1>1. /\ state' = state /\ deferred_events' = deferred_events /\ handle' = handle
      /\ connected' <=> connected
  BY DEF PostCommand
<1>. DEFINE k == Len(eventList)
<1>2. k \in Nat
  BY DEF IInv, TypeOK
<1>3. ASSUME NEW S \in SUBSET CameraSignals
      PROVE  /\ \A i \in PendingAt(S) : IF i <= k
                  THEN i \in PendingAt(S)' /\ Pending'[i] = Pending[i]
                  ELSE i + 1 \in PendingAt(S)' /\ Pending'[i + 1] = Pending[i]
             /\ \A i \in PendingAt(S)' : IF i <= k
                  THEN i \in PendingAt(S)
                  ELSE i > k + 1 /\ i - 1 \in PendingAt(S)
  BY Insert DEF IInv
<1>4. \A S : PendingAt(S) \subseteq Int /\ PendingAt(S)' \subseteq Int
  BY DEF PendingAt
<1>. HIDE DEF k
<1>5. ConnectFence'
  <2>1. CASE state = "Connecting"
    <3>1. PICK i \in PendingAt(ConnectResults) :
             /\ \A j \in PendingAt(CameraSignals) : j <= i
             /\ \A j \in PendingAt(ConnectResults) : j = i
             /\ Pending[i].sig = "CONNECTED" <=> connected
      BY <2>1 DEF IInv, ConnectFence
    <3>. DEFINE n == IF i <= k THEN i ELSE i + 1
    <3>2. n \in PendingAt(ConnectResults)' /\ Pending'[n] = Pending[i]
      BY <1>3, SignalClasses
    <3>3. \A j \in PendingAt(CameraSignals)' : j <= n
      <4>. SUFFICES ASSUME NEW j \in PendingAt(CameraSignals)' PROVE j <= n
        OBVIOUS
      <4>1. IF j <= k THEN j <= i ELSE j > k + 1 /\ j - 1 <= i
        BY <1>3, <3>1
      <4>. QED BY <1>2, <1>4, <4>1
    <3>4. \A j \in PendingAt(ConnectResults)' : j = n
      <4>. SUFFICES ASSUME NEW j \in PendingAt(ConnectResults)' PROVE j = n
        OBVIOUS
      <4>1. IF j <= k THEN j = i ELSE j > k + 1 /\ j - 1 = i
        BY <1>3, <3>1, SignalClasses
      <4>. QED BY <1>2, <1>4, <4>1
    <3>5. Pending'[n].sig = "CONNECTED" <=> connected'
      BY <1>1, <3>1, <3>2
    <3>. HIDE DEF n
    <3>. QED BY <1>1, <2>1, <3>2, <3>3, <3>4, <3>5, Zenon DEF ConnectFence
  <2>2. CASE state # "Connecting"
    <3>1. PendingAt(ConnectResults) = {}
      BY <2>2 DEF IInv, ConnectFence
    <3>2. PendingAt(ConnectResults)' = {}
      BY <1>3, <3>1, SignalClasses
    <3>. QED BY <1>1, <2>2, <3>2 DEF ConnectFence
  <2>. QED BY <2>1, <2>2
<1>6. CaptureFence'
  <2>1. /\ \A i, j \in PendingAt(CaptureResults) : i = j
        /\ state \in {"Idle", "Downloading"} => PendingAt(CaptureResults) = {}
    BY DEF IInv, CaptureFence
  <2>2. \A i \in PendingAt(CaptureResults)' : IF i <= k THEN i \in PendingAt(CaptureResults)
                                              ELSE i > k + 1 /\ i - 1 \in PendingAt(CaptureResults)
    BY <1>3, SignalClasses
  <2>3. \A i, j \in PendingAt(CaptureResults)' : i = j
    <3>. SUFFICES ASSUME NEW i \in PendingAt(CaptureResults)', NEW j \in PendingAt(CaptureResults)'
                  PROVE  i = j
      OBVIOUS
    <3>1. i \in Int /\ j \in Int
      BY <1>4
    <3>2. CASE i <= k /\ j <= k
      BY <2>1, <2>2, <3>2
    <3>3. CASE ~ (i <= k) /\ ~ (j <= k)
      <4>1. i - 1 = j - 1
        BY <2>1, <2>2, <3>3
      <4>. QED BY <3>1, <4>1
    <3>4. CASE i <= k /\ ~ (j <= k)
      <4>1. i = j - 1 /\ j > k + 1
        BY <2>1, <2>2, <3>4
      <4>. QED BY <1>2, <3>1, <3>4, <4>1
    <3>5. CASE ~ (i <= k) /\ j <= k
      <4>1. i - 1 = j /\ i > k + 1
        BY <2>1, <2>2, <3>5
      <4>. QED BY <1>2, <3>1, <3>5, <4>1
    <3>. QED BY <3>2, <3>3, <3>4, <3>5
  <2>4. PendingAt(CaptureResults) = {} => PendingAt(CaptureResults)' = {}
    BY <2>2
  <2>. QED BY <1>1, <2>1, <2>3, <2>4 DEF CaptureFence
<1>7. CameraHeld'
  BY <1>1, Zenon DEF IInv, CameraHeld
<1>8. DeferredCommands'
  BY <1>1 DEF IInv, DeferredCommands
<1>. QED BY <1>5, <1>6, <1>7, <1>8 DEF IInv
\* A handler outside Connecting that posts no result and does not lead to
\* Connecting keeps both fences, if the state it leads to may find the capture
\* results that remain.
LEMMA QuietHandler ==
  ASSUME IInv, TypeOK', NEW states, NEW sigs, Handle(states, sigs),
         \A i \in 1 .. Len(outbox') : outbox'[i].sig \notin ConnectResults \cup CaptureResults,
         state # "Connecting", state' # "Connecting",
         state' \in {"Idle", "Downloading"} => PendingAt(CaptureResults) \subseteq {1}
  PROVE  ConnectFence' /\ CaptureFence'
<1>1. PendingAt(ConnectResults) = {}
  BY DEF IInv, ConnectFence
<1>2. PendingAt(ConnectResults)' = {}
  BY <1>1, QuietTake
<1>3. \A i, j \in PendingAt(CaptureResults)' : i = j
  BY QuietTake
<1>4. state' \in {"Idle", "Downloading"} => PendingAt(CaptureResults)' = {}
  BY QuietTake
<1>. QED BY <1>2, <1>3, <1>4 DEF ConnectFence, CaptureFence

\* The first connect result a handler of Connecting takes is the only one, and
\* the last camera event.
LEMMA FenceReached ==
  ASSUME IInv, TypeOK', NEW sigs \in SUBSET ConnectResults, Handle({"Connecting"}, sigs)
  PROVE  /\ PendingAt(ConnectResults) \subseteq {1} /\ PendingAt(CaptureResults) \subseteq {1}
         /\ PendingAt(DownloadResults) \subseteq {1}
         /\ Head(eventList).sig = "CONNECTED" <=> connected
<1>1. PICK i \in PendingAt(ConnectResults) :
         /\ \A j \in PendingAt(CameraSignals) : j <= i
         /\ \A j \in PendingAt(ConnectResults) : j = i
         /\ Pending[i].sig = "CONNECTED" <=> connected
  BY DEF IInv, ConnectFence, Handle
<1>2. Pending \in Seq(Event) /\ Len(Pending) > 0 /\ Pending[1] = Head(eventList) /\ Pending[1].sig \in sigs
  BY Take DEF IInv
<1>3. 1 \in PendingAt(ConnectResults)
  BY <1>2 DEF PendingAt
<1>4. i = 1
  BY <1>1, <1>3
<1>5. /\ PendingAt(CaptureResults) \subseteq PendingAt(CameraSignals)
      /\ PendingAt(DownloadResults) \subseteq PendingAt(CameraSignals)
  BY SignalClasses DEF PendingAt
<1>6. PendingAt(CameraSignals) \subseteq Nat \ {0}
  BY <1>2 DEF PendingAt
<1>7. PendingAt(CameraSignals) \subseteq {1}
  BY <1>1, <1>4, <1>6
<1>. QED BY <1>1, <1>2, <1>4, <1>5, <1>7

\* Asking for a connection: the result is the last pending event.
LEMMA SafetyConnect ==
  ASSUME IInv, TypeOK', OnConnect
  PROVE  IInv'
<1>h. Handle({"Disconnected", "Error"}, {"CONNECT"})
  BY DEF OnConnect
<1>1. state' = "Connecting" /\ deferred_events' = deferred_events /\ state # "Connecting"
  BY DEF OnConnect, EnterConnecting, Handle
<1>2. PICK sig \in ConnectResults : outbox' = <<Ev(sig)>> /\ (sig = "CONNECTED" <=> connected')
  <2>1. CASE camera!connectReturns /\ outbox' = <<Ev("CONNECTED")>>
    <3>1. connected'
      BY <2>1 DEF camera!connectReturns, camera!alreadyConnected, camera!connectOK, camera!wrapperVars
    <3>. QED BY <2>1, <3>1 DEF ConnectResults
  <2>2. CASE camera!connectThrows /\ outbox' = <<Ev("CONNECTION_ERROR")>>
    <3>1. ~connected'
      BY <2>2 DEF camera!connectThrows, camera!newFails, camera!initFails, camera!serialFails
    <3>. QED BY <2>2, <3>1 DEF ConnectResults
  <2>. QED BY <2>1, <2>2, Zenon DEF OnConnect, EnterConnecting
<1>3. Len(outbox') = 1 /\ outbox'[1] = Ev(sig) /\ Ev(sig).sig = sig
  BY <1>2, EvType, Singleton DEF CameraSignals
<1>. DEFINE n == Len(Pending)
<1>4. /\ n \in Nat /\ n > 0 /\ Len(Pending') = n
      /\ \A i \in 1 .. n : Pending'[i] = IF i < n THEN Pending[i + 1] ELSE outbox'[i - n + 1]
  BY <1>h, <1>3, Take DEF IInv
<1>5. Pending'[n].sig = sig
  <2>1. n - n + 1 = 1
    BY <1>4
  <2>. QED BY <1>3, <1>4, <2>1
<1>6. \A i \in 1 .. n : i # n => i + 1 \in 1 .. n /\ Pending'[i] = Pending[i + 1]
  BY <1>4
<1>. HIDE DEF n
<1>7. ConnectFence'
  <2>1. n \in PendingAt(ConnectResults)'
    BY <1>2, <1>4, <1>5 DEF PendingAt
  <2>2. \A j \in PendingAt(CameraSignals)' : j <= n
    BY <1>4 DEF PendingAt
  <2>3. PendingAt(ConnectResults) = {}
    BY <1>1 DEF IInv, ConnectFence
  <2>4. \A j \in PendingAt(ConnectResults)' : j = n
    <3>. SUFFICES ASSUME NEW j \in PendingAt(ConnectResults)', j # n PROVE FALSE
      OBVIOUS
    <3>1. j \in 1 .. n /\ Pending'[j].sig \in ConnectResults
      BY <1>4 DEF PendingAt
    <3>2. j + 1 \in PendingAt(ConnectResults)
      BY <1>6, <3>1 DEF PendingAt, n
    <3>. QED BY <2>3, <3>2
  <2>5. Pending'[n].sig = "CONNECTED" <=> connected'
    BY <1>2, <1>5
  <2>. QED BY <1>1, <2>1, <2>2, <2>4, <2>5, Zenon DEF ConnectFence
<1>8. CaptureFence'
  <2>1. sig \notin CaptureResults
    BY SignalClasses
  <2>2. \A i \in 1 .. Len(outbox') : outbox'[i].sig \notin CaptureResults
    BY <1>3, <2>1
  <2>3. \A i \in PendingAt(CaptureResults)' : i + 1 \in PendingAt(CaptureResults)
    BY <1>h, <2>2, Shift DEF IInv
  <2>4. \A i, j \in PendingAt(CaptureResults) : i = j
    BY DEF IInv, CaptureFence
  <2>5. PendingAt(CaptureResults)' \subseteq Int
    BY DEF PendingAt
  <2>6. \A i, j \in PendingAt(CaptureResults)' : i = j
    <3>. SUFFICES ASSUME NEW i \in PendingAt(CaptureResults)', NEW j \in PendingAt(CaptureResults)'
                  PROVE  i = j
      OBVIOUS
    <3>1. i + 1 = j + 1
      BY <2>3, <2>4
    <3>. QED BY <2>5, <3>1
  <2>. QED BY <1>1, <2>6 DEF CaptureFence
<1>9. CameraHeld'
  <2>1. connected => handle = "live"
    BY DEF IInv, CameraHeld
  <2>2. connected' => handle' = "live"
    BY <2>1 DEF OnConnect, EnterConnecting, camera!connectReturns, camera!connectThrows,
       camera!alreadyConnected, camera!connectOK, camera!newFails, camera!initFails,
       camera!serialFails, camera!wrapperVars
  <2>. QED BY <1>1, <2>2 DEF CameraHeld, InConnected
<1>10. DeferredCommands'
  BY <1>1 DEF IInv, DeferredCommands
<1>. QED BY <1>7, <1>8, <1>9, <1>10 DEF IInv
\* Starting a capture: Idle had no capture result pending, so its own is alone.
LEMMA SafetyCapture ==
  ASSUME IInv, TypeOK', OnCaptureWired
  PROVE  IInv'
<1>h. Handle({"Idle"}, {"CAPTURE_WIRED"})
  BY DEF OnCaptureWired
<1>1. /\ state = "Idle" /\ state' = "CaptureWired" /\ deferred_events' = deferred_events
      /\ UNCHANGED <<handle, connected>>
  BY DEF OnCaptureWired, EnterBusy, Handle
<1>2. /\ Len(outbox') \in {0, 1}
      /\ \A i \in 1 .. Len(outbox') : outbox'[i].sig \in CaptureResults
  <2>1. PICK answer \in Responses, result \in captureWired :
          outbox' = IF isResponsive(answer) THEN result ELSE << >>
    BY Zenon DEF OnCaptureWired, EnterBusy
  <2>2. Len(result) = 1 /\ result[1].sig \in CaptureResults
    BY OperationsType
  <2>3. outbox' = result \/ outbox' = << >>
    BY <2>1, Zenon
  <2>4. CASE outbox' = result
    <3>1. Len(outbox') = 1 /\ outbox'[1].sig \in CaptureResults
      BY <2>2, <2>4
    <3>. QED BY <3>1
  <2>5. CASE outbox' = << >>
    BY <2>5
  <2>. QED BY <2>3, <2>4, <2>5
<1>3. PendingAt(ConnectResults) = {} /\ PendingAt(CaptureResults) = {}
  BY <1>1 DEF IInv, ConnectFence, CaptureFence
<1>4. ConnectFence'
  <2>1. \A i \in 1 .. Len(outbox') : outbox'[i].sig \notin ConnectResults
    BY <1>2, SignalClasses
  <2>2. \A i \in PendingAt(ConnectResults)' : i + 1 \in PendingAt(ConnectResults)
    BY <1>h, <2>1, Shift DEF IInv
  <2>. QED BY <1>1, <1>3, <2>2 DEF ConnectFence
<1>5. CaptureFence'
  <2>1. \A i \in PendingAt(CaptureResults)' : i = Len(Pending)
    <3>. SUFFICES ASSUME NEW i \in PendingAt(CaptureResults)' PROVE i = Len(Pending)
      OBVIOUS
    <3>1. i \in 1 .. Len(Pending') /\ Pending'[i].sig \in CaptureResults
      BY DEF PendingAt
    <3>2. /\ Len(Pending) \in Nat /\ Len(Pending') = Len(Pending) - 1 + Len(outbox')
          /\ i < Len(Pending) => Pending'[i] = Pending[i + 1]
      BY <1>h, <3>1, Take DEF IInv
    <3>3. ~ (i < Len(Pending))
      <4>. SUFFICES ASSUME i < Len(Pending) PROVE FALSE
        OBVIOUS
      <4>1. i + 1 \in PendingAt(CaptureResults)
        BY <3>1, <3>2 DEF PendingAt
      <4>. QED BY <1>3, <4>1
    <3>. QED BY <1>2, <3>1, <3>2, <3>3
  <2>. QED BY <1>1, <2>1 DEF CaptureFence
<1>6. CameraHeld'
  BY <1>1, HeldKept DEF IInv, InConnected
<1>7. DeferredCommands'
  BY <1>1 DEF IInv, DeferredCommands
<1>. QED BY <1>4, <1>5, <1>6, <1>7 DEF IInv

\* A handler that ends in Idle.
LEMMA SafetyIdle ==
  ASSUME IInv, TypeOK', NEW states, NEW sigs, Handle(states, sigs), NEW before \in Seq(Event),
         \A i \in 1 .. Len(before) : before[i].sig = "GENERIC_ERROR",
         EnterIdle(before), UNCHANGED <<handle, connected>>,
         state \in InConnected \/ connected,
         PendingAt(ConnectResults) \subseteq {1}, PendingAt(CaptureResults) \subseteq {1}
  PROVE  IInv'
<1>1. /\ state' = "Idle"
      /\ \A i \in 1 .. Len(outbox') : outbox'[i].sig \notin ConnectResults \cup CaptureResults
      /\ DeferredCommands'
  BY IdleEntry DEF Results
<1>2. PendingAt(ConnectResults)' = {} /\ PendingAt(CaptureResults)' = {}
  BY <1>1, QuietTake
<1>3. ConnectFence' /\ CaptureFence'
  BY <1>1, <1>2 DEF ConnectFence, CaptureFence
<1>4. CameraHeld'
  BY <1>1, HeldKept DEF IInv
<1>. QED BY <1>1, <1>3, <1>4 DEF IInv

\* A handler that ends in Error.
LEMMA SafetyError ==
  ASSUME IInv, TypeOK', NEW states, NEW sigs, Handle(states, sigs),
         EnterError, UNCHANGED deferred_events, PendingAt(ConnectResults) \subseteq {1}
  PROVE  IInv'
<1>1. /\ state' = "Error" /\ CameraHeld'
      /\ \A i \in 1 .. Len(outbox') : outbox'[i].sig \notin ConnectResults \cup CaptureResults
  BY ErrorEntry DEF Results
<1>2. PendingAt(ConnectResults)' = {} /\ (\A i, j \in PendingAt(CaptureResults)' : i = j)
  BY <1>1, QuietTake
<1>3. ConnectFence' /\ CaptureFence'
  BY <1>1, <1>2 DEF ConnectFence, CaptureFence
<1>4. DeferredCommands'
  BY DEF IInv, DeferredCommands
<1>. QED BY <1>1, <1>3, <1>4 DEF IInv

\* A handler that stays in its state, outside Connecting, and posts errors at most.
LEMMA SafetyStay ==
  ASSUME IInv, TypeOK', NEW states, NEW sigs, Handle(states, sigs), state # "Connecting",
         \A i \in 1 .. Len(outbox') : outbox'[i].sig = "GENERIC_ERROR",
         UNCHANGED <<state, handle, connected>>, DeferredCommands'
  PROVE  IInv'
<1>1. \A i \in 1 .. Len(outbox') : outbox'[i].sig \notin ConnectResults \cup CaptureResults
  BY SignalClasses
<1>2. state' = state
  OBVIOUS
<1>3. state' \in {"Idle", "Downloading"} => PendingAt(CaptureResults) \subseteq {1}
  BY <1>2 DEF IInv, CaptureFence
<1>4. ConnectFence' /\ CaptureFence'
  BY <1>1, <1>2, <1>3, QuietHandler
<1>5. CameraHeld'
  BY <1>2, HeldKept DEF IInv
<1>. QED BY <1>4, <1>5 DEF IInv
\* Every step keeps the invariant.
LEMMA SafetyStep == IInv /\ [Next]_vars => IInv'
<1>. SUFFICES ASSUME IInv, [Next]_vars PROVE IInv'
  OBVIOUS
<1>t. TypeOK'
  BY TypeStep DEF IInv
<1>n. state # "Connecting" => PendingAt(ConnectResults) = {}
  BY DEF IInv, ConnectFence
<1>c. state \in {"Idle", "Downloading"} => PendingAt(CaptureResults) = {}
  BY DEF IInv, CaptureFence
<1>e. << >> \in Seq(Event) /\ \A i \in 1 .. Len(<< >>) : << >>[i].sig = "GENERIC_ERROR"
  OBVIOUS
<1>d. UNCHANGED deferred_events => DeferredCommands'
  BY DEF IInv, DeferredCommands
<1>1. CASE PostCommand
  BY <1>1, <1>t, SafetyCommand
<1>2. CASE PostOwn
  <2>1. Pending' = Pending
    BY <1>2, PostOwnPending DEF IInv
  <2>. QED BY <1>2, <1>t, <2>1, SamePending DEF PostOwn
<1>3. CASE OnConnect
  BY <1>3, <1>t, SafetyConnect
<1>4. CASE OnConnectionError
  <2>1. Handle({"Connecting"}, {"CONNECTION_ERROR"}) /\ EnterError /\ UNCHANGED deferred_events
    BY <1>4 DEF OnConnectionError
  <2>2. PendingAt(ConnectResults) \subseteq {1}
    BY <1>t, <2>1, FenceReached DEF ConnectResults
  <2>. QED BY <1>t, <2>1, <2>2, SafetyError
<1>5. CASE OnConnected
  <2>1. Handle({"Connecting"}, {"CONNECTED"}) /\ UNCHANGED <<handle, connected>>
    BY <1>5 DEF OnConnected
  <2>2. PICK e1 \in setConfig(camera_config), e2 \in readStatus, e3 \in readOptions :
          EnterIdle(e1 \o e2 \o e3)
    BY <1>5 DEF OnConnected
  <2>. DEFINE before == e1 \o e2 \o e3
  <2>6. before \in Seq(Event) /\ \A i \in 1 .. Len(before) : before[i].sig = "GENERIC_ERROR"
    BY ConnectedErrors DEF IInv, TypeOK
  <2>7. Head(eventList).sig = "CONNECTED"
    BY <2>1 DEF Handle
  <2>8. PendingAt(ConnectResults) \subseteq {1} /\ PendingAt(CaptureResults) \subseteq {1} /\ connected
    BY <1>t, <2>1, <2>7, FenceReached DEF ConnectResults
  <2>9. EnterIdle(before)
    BY <2>2
  <2>. HIDE DEF before
  <2>. QED BY <1>t, <2>1, <2>6, <2>8, <2>9, SafetyIdle
<1>6. CASE OnSetConfig
  <2>1. /\ Handle({"Idle"}, {"SET_CONFIG"}) /\ UNCHANGED <<state, handle, connected>>
        /\ UNCHANGED deferred_events /\ camera_config' \in Nat
    BY <1>6 DEF OnSetConfig
  <2>2. PICK e1 \in setConfig(camera_config'), e2 \in readStatus : outbox' = e1 \o e2
    BY <1>6 DEF OnSetConfig
  <2>3. /\ e1 \in Seq(Event) /\ \A i \in 1 .. Len(e1) : e1[i].sig = "GENERIC_ERROR"
        /\ e2 \in Seq(Event) /\ \A i \in 1 .. Len(e2) : e2[i].sig = "GENERIC_ERROR"
    BY <2>1, HelpersType
  <2>4. \A i \in 1 .. Len(outbox') : outbox'[i].sig = "GENERIC_ERROR"
    BY <2>2, <2>3, Concat
  <2>. QED BY <1>t, <1>d, <2>1, <2>4, SafetyStay DEF Handle
<1>7. CASE OnGetStatus
  <2>1. /\ Handle({"Idle"}, {"GET_STATUS"}) /\ UNCHANGED <<state, handle, connected>>
        /\ UNCHANGED deferred_events /\ outbox' \in readStatus
    BY <1>7 DEF OnGetStatus
  <2>2. \A i \in 1 .. Len(outbox') : outbox'[i].sig = "GENERIC_ERROR"
    BY <2>1, HelpersType
  <2>. QED BY <1>t, <1>d, <2>1, <2>2, SafetyStay DEF Handle
<1>8. CASE OnGetOptions
  <2>1. /\ Handle({"Idle"}, {"GET_OPTIONS"}) /\ UNCHANGED <<state, handle, connected>>
        /\ UNCHANGED deferred_events /\ outbox' \in readOptions
    BY <1>8 DEF OnGetOptions
  <2>2. \A i \in 1 .. Len(outbox') : outbox'[i].sig = "GENERIC_ERROR"
    BY <2>1, HelpersType
  <2>. QED BY <1>t, <1>d, <2>1, <2>2, SafetyStay DEF Handle
<1>9. CASE OnCaptureWired
  BY <1>9, <1>t, SafetyCapture
<1>10. CASE OnDownload
  <2>1. /\ Handle({"Idle"}, {"DOWNLOAD"}) /\ state = "Idle" /\ state' = "Downloading"
        /\ UNCHANGED <<handle, connected>> /\ UNCHANGED deferred_events
    BY <1>10 DEF OnDownload, EnterBusy, Handle
  <2>2. PICK answer \in Responses, result \in download :
          outbox' = IF isResponsive(answer) THEN result ELSE << >>
    BY <1>10, Zenon DEF OnDownload, EnterBusy
  <2>3. outbox' = result \/ outbox' = << >>
    BY <2>2, Zenon
  <2>4. \A i \in 1 .. Len(result) : result[i].sig \in DownloadResults \cup {"GENERIC_ERROR"}
    BY OperationsType
  <2>5. \A i \in 1 .. Len(result) : result[i].sig \notin ConnectResults \cup CaptureResults
    BY <2>4, SignalClasses
  <2>6. \A i \in 1 .. Len(outbox') : outbox'[i].sig \notin ConnectResults \cup CaptureResults
    <3>1. CASE outbox' = result
      BY <2>5, <3>1
    <3>2. CASE outbox' = << >>
      BY <3>2
    <3>. QED BY <2>3, <3>1, <3>2
  <2>7. ConnectFence' /\ CaptureFence'
    BY <1>t, <1>c, <2>1, <2>6, QuietHandler
  <2>8. CameraHeld'
    BY <2>1, HeldKept DEF IInv, InConnected
  <2>. QED BY <1>t, <1>d, <2>1, <2>7, <2>8 DEF IInv
<1>11. CASE OnDisconnect
  <2>1. /\ Handle({"Idle"}, {"DISCONNECT"}) /\ state = "Idle" /\ state' = "Disconnected"
        /\ UNCHANGED <<handle, connected>> /\ UNCHANGED deferred_events /\ outbox' = << >>
    BY <1>11 DEF OnDisconnect, Handle
  <2>2. \A i \in 1 .. Len(outbox') : outbox'[i].sig \notin ConnectResults \cup CaptureResults
    BY <2>1
  <2>3. ConnectFence' /\ CaptureFence'
    BY <1>t, <2>1, <2>2, QuietHandler
  <2>4. CameraHeld'
    BY <2>1, HeldKept DEF IInv, InConnected
  <2>. QED BY <1>t, <1>d, <2>1, <2>3, <2>4 DEF IInv
<1>12. CASE OnCaptureSuccess
  <2>1. /\ Handle({"CaptureWired"}, {"CAPTURE_SUCCESS"}) /\ EnterIdle(<< >>)
        /\ UNCHANGED <<handle, connected>> /\ state = "CaptureWired"
    BY <1>12 DEF OnCaptureSuccess, Handle
  <2>2. Pending \in Seq(Event) /\ Len(Pending) > 0 /\ Pending[1].sig = "CAPTURE_SUCCESS"
    BY <1>t, <2>1, Take DEF IInv
  <2>3. 1 \in PendingAt(CaptureResults)
    BY <2>2 DEF PendingAt, CaptureResults
  <2>4. PendingAt(CaptureResults) \subseteq {1}
    BY <2>3 DEF IInv, CaptureFence
  <2>5. state \in InConnected /\ PendingAt(ConnectResults) \subseteq {1}
    BY <1>n, <2>1 DEF InConnected
  <2>. QED BY <1>t, <1>e, <2>1, <2>4, <2>5, SafetyIdle
<1>13. CASE OnCaptureError
  <2>1. /\ Handle({"CaptureWired"}, {"CAPTURE_ERROR"}) /\ EnterError /\ UNCHANGED deferred_events
        /\ state = "CaptureWired"
    BY <1>13 DEF OnCaptureError, Handle
  <2>. QED BY <1>t, <1>n, <2>1, SafetyError
<1>14. CASE OnDownloadEnd
  <2>1. /\ Handle({"Downloading"}, DownloadResults) /\ EnterIdle(<< >>)
        /\ UNCHANGED <<handle, connected>> /\ state = "Downloading"
    BY <1>14 DEF OnDownloadEnd, Handle
  <2>2. /\ state \in InConnected /\ PendingAt(ConnectResults) \subseteq {1}
        /\ PendingAt(CaptureResults) \subseteq {1}
    BY <1>n, <1>c, <2>1 DEF InConnected
  <2>. QED BY <1>t, <1>e, <2>1, <2>2, SafetyIdle
<1>15. CASE OnGenericError
  <2>1. /\ Handle(InConnected, {"GENERIC_ERROR"}) /\ EnterError /\ UNCHANGED deferred_events
        /\ state \in InConnected
    BY <1>15 DEF OnGenericError, Handle
  <2>2. state # "Connecting"
    BY <2>1 DEF InConnected
  <2>. QED BY <1>t, <1>n, <2>1, <2>2, SafetyError
<1>16. CASE Defer
  <2>1. /\ Handle({"CaptureWired", "Downloading"}, SessionCommands) /\ outbox' = << >>
        /\ UNCHANGED <<state, handle, connected>> /\ state # "Connecting"
        /\ Head(eventList).sig \in SessionCommands
    BY <1>16 DEF Defer, Handle
  <2>2. DeferredCommands'
    <3>. DEFINE kept == IF Len(deferred_events) = Capacity THEN Tail(deferred_events)
                        ELSE deferred_events
    <3>1. /\ deferred_events \in Seq(Event)
          /\ \A i \in 1 .. Len(deferred_events) : deferred_events[i].sig \in SessionCommands
          /\ Head(eventList) \in Event
      BY <2>1 DEF IInv, TypeOK, DeferredCommands, Handle
    <3>2. kept \in Seq(Event) /\ \A i \in 1 .. Len(kept) : kept[i].sig \in SessionCommands
      <4>1. CASE Len(deferred_events) = Capacity
        <5>1. deferred_events # << >>
          BY <3>1, <4>1
        <5>2. /\ Tail(deferred_events) \in Seq(Event)
              /\ Len(Tail(deferred_events)) = Len(deferred_events) - 1
              /\ \A i \in 1 .. Len(deferred_events) - 1 : Tail(deferred_events)[i] = deferred_events[i + 1]
          BY <3>1, <5>1
        <5>. QED BY <3>1, <4>1, <5>2
      <4>2. CASE Len(deferred_events) # Capacity
        BY <3>1, <4>2
      <4>. QED BY <4>1, <4>2
    <3>3. deferred_events' = Append(kept, Head(eventList))
      BY <1>16 DEF Defer
    <3>. HIDE DEF kept
    <3>4. /\ Len(deferred_events') = Len(kept) + 1
          /\ deferred_events'[Len(kept) + 1] = Head(eventList)
          /\ \A i \in 1 .. Len(kept) : deferred_events'[i] = kept[i]
      BY <3>1, <3>2, <3>3
    <3>5. Len(kept) \in Nat
      BY <3>2
    <3>. QED BY <2>1, <3>2, <3>4, <3>5 DEF DeferredCommands
  <2>3. \A i \in 1 .. Len(outbox') : outbox'[i].sig = "GENERIC_ERROR"
    BY <2>1
  <2>. QED BY <1>t, <2>1, <2>2, <2>3, SafetyStay
<1>17. CASE Ignore
  <2>1. /\ Handle(States, (CommandSignals \cup CameraSignals) \ Reacts(state)) /\ outbox' = << >>
        /\ UNCHANGED <<state, handle, connected>> /\ UNCHANGED deferred_events
    BY <1>17 DEF Ignore, Handle
  <2>2. \A S : \A i \in 1 .. Len(outbox') : outbox'[i].sig \notin S
    BY <2>1
  <2>3. CASE state = "Connecting"
    <3>1. PICK i \in PendingAt(ConnectResults) :
             /\ \A j \in PendingAt(CameraSignals) : j <= i
             /\ \A j \in PendingAt(ConnectResults) : j = i
             /\ Pending[i].sig = "CONNECTED" <=> connected
      BY <2>3 DEF IInv, ConnectFence
    <3>2. /\ Pending \in Seq(Event) /\ Len(Pending) > 0 /\ Pending[1].sig \notin ConnectResults
          /\ Len(Pending') = Len(Pending) - 1
          /\ \A j \in 1 .. Len(Pending) - 1 : Pending'[j] = Pending[j + 1]
      <4>1. Pending[1].sig \notin ConnectResults
        BY <1>t, <2>1, <2>3, Take DEF IInv, Reacts
      <4>2. Len(outbox') = 0
        BY <2>1
      <4>3. /\ Pending \in Seq(Event) /\ Len(Pending) > 0 /\ Len(Pending') = Len(Pending) - 1 + Len(outbox')
            /\ \A j \in 1 .. Len(Pending') : j < Len(Pending) => Pending'[j] = Pending[j + 1]
        BY <1>t, <2>1, Take DEF IInv
      <4>. QED BY <4>1, <4>2, <4>3
    <3>3. i \in 1 .. Len(Pending) /\ i # 1 /\ Pending[i].sig \in ConnectResults /\ Len(Pending) \in Nat
      BY <3>2 DEF PendingAt
    <3>4. i - 1 \in 1 .. Len(Pending) - 1 /\ (i - 1) + 1 = i
      BY <3>3
    <3>5. Pending'[i - 1] = Pending[i]
      BY <3>2, <3>4
    <3>6. i - 1 \in PendingAt(ConnectResults)'
      BY <3>2, <3>3, <3>4, <3>5 DEF PendingAt
    <3>7. \A S : \A j \in PendingAt(S)' : j + 1 \in PendingAt(S) /\ j \in Int
      <4>1. \A S : \A j \in PendingAt(S)' : j + 1 \in PendingAt(S)
        BY <1>t, <2>1, <2>2, Shift DEF IInv
      <4>2. \A S : PendingAt(S)' \subseteq Int
        BY DEF PendingAt
      <4>. QED BY <4>1, <4>2
    <3>8. \A j \in PendingAt(CameraSignals)' : j <= i - 1
      BY <3>1, <3>3, <3>7
    <3>9. \A j \in PendingAt(ConnectResults)' : j = i - 1
      BY <3>1, <3>3, <3>7
    <3>10. /\ state' = "Connecting"
           /\ Pending'[i - 1].sig = "CONNECTED" <=> connected'
      BY <2>1, <2>3, <3>1, <3>5
    <3>11. ConnectFence'
      BY <3>6, <3>8, <3>9, <3>10, Zenon DEF ConnectFence
    <3>12. \A j, k \in PendingAt(CaptureResults)' : j = k
      BY <1>t, <2>1, <2>2, QuietTake
    <3>13. CaptureFence'
      BY <3>10, <3>12 DEF CaptureFence
    <3>14. CameraHeld'
      BY <2>1, HeldKept DEF IInv
    <3>. QED BY <1>t, <1>d, <2>1, <3>11, <3>13, <3>14 DEF IInv
  <2>4. CASE state # "Connecting"
    <3>1. \A i \in 1 .. Len(outbox') : outbox'[i].sig = "GENERIC_ERROR"
      BY <2>1
    <3>. QED BY <1>t, <1>d, <2>1, <2>4, <3>1, SafetyStay
  <2>. QED BY <2>3, <2>4
<1>18. CASE Uncaught
  <2>1. Pending' = Pending
    BY <1>18 DEF Uncaught, Pending
  <2>. QED BY <1>18, <1>t, <2>1, SamePending DEF Uncaught
<1>19. CASE UNCHANGED vars
  <2>1. Pending' = Pending /\ UNCHANGED <<state, deferred_events, handle, connected>>
    BY <1>19 DEF vars, Pending
  <2>. QED BY <1>t, <2>1, SamePending
<1>. QED
  BY <1>1, <1>2, <1>3, <1>4, <1>5, <1>6, <1>7, <1>8, <1>9, <1>10, <1>11, <1>12, <1>13,
     <1>14, <1>15, <1>16, <1>17, <1>18, <1>19 DEF Next, Run

\* Sessions are fenced: in every reachable state one connect result is on its
\* way exactly while connecting, and nothing of an older session is behind it
\* (connect(), stateConnecting).
THEOREM ConnectionsAreFenced == Spec => []ConnectFence
<1>1. IInv => ConnectFence
  BY DEF IInv
<1>. QED BY <1>1, SafetyInit, SafetyStep, PTL DEF Spec

\* A capture result belongs to the capture that waits for it (captureWired(),
\* stateCaptureWired), also after an error and a reconnection.
THEOREM CapturesAreFenced == Spec => []CaptureFence
<1>1. IInv => CaptureFence
  BY DEF IInv
<1>. QED BY <1>1, SafetyInit, SafetyStep, PTL DEF Spec

\* No handler uses the camera without holding it: while in a substate of
\* Connected the wrapper is connected and its handle is live.
THEOREM CameraIsHeld == Spec => []CameraHeld
<1>1. IInv => CameraHeld
  BY DEF IInv
<1>. QED BY <1>1, SafetyInit, SafetyStep, PTL DEF Spec

\* The download results, as long as the directory can be created.
DownloadsFenced ==
  /\ \A i, j \in PendingAt(DownloadResults) : i = j
  /\ state \in {"Idle", "CaptureWired"} => PendingAt(DownloadResults) = {}

\* A handler that posts no download result keeps the fence of the downloads, if
\* the state it leads to may find the results that remain.
LEMMA DownloadQuiet ==
  ASSUME IInv, TypeOK', DownloadsFenced, NEW states, NEW sigs, Handle(states, sigs),
         \A i \in 1 .. Len(outbox') : outbox'[i].sig \notin DownloadResults,
         state' \in {"Idle", "CaptureWired"} => PendingAt(DownloadResults) \subseteq {1}
  PROVE  DownloadsFenced'
<1>1. \A i \in PendingAt(DownloadResults)' : i + 1 \in PendingAt(DownloadResults)
  BY Shift DEF IInv
<1>2. PendingAt(DownloadResults)' \subseteq Nat \ {0}
  BY Take DEF PendingAt, IInv, TypeOK
<1>3. \A i, j \in PendingAt(DownloadResults) : i = j
  BY DEF DownloadsFenced
<1>4. \A i, j \in PendingAt(DownloadResults)' : i = j
  BY <1>1, <1>2, <1>3
<1>5. state' \in {"Idle", "CaptureWired"} => PendingAt(DownloadResults)' = {}
  BY <1>1, <1>2
<1>. QED BY <1>4, <1>5 DEF DownloadsFenced

\* A client's command does not touch the download results.
LEMMA DownloadCommand ==
  ASSUME IInv, TypeOK', DownloadsFenced, PostCommand
  PROVE  DownloadsFenced'
<1>. DEFINE k == Len(eventList)
<1>1. state' = state
  BY DEF PostCommand
<1>2. k \in Nat
  BY DEF IInv, TypeOK
<1>3. \A i \in PendingAt(DownloadResults)' : IF i <= k THEN i \in PendingAt(DownloadResults)
                                             ELSE i > k + 1 /\ i - 1 \in PendingAt(DownloadResults)
  BY Insert, SignalClasses DEF IInv
<1>4. PendingAt(DownloadResults)' \subseteq Int
  BY DEF PendingAt
<1>. HIDE DEF k
<1>5. /\ \A i, j \in PendingAt(DownloadResults) : i = j
      /\ state \in {"Idle", "CaptureWired"} => PendingAt(DownloadResults) = {}
  BY DEF DownloadsFenced
<1>6. ASSUME NEW i \in PendingAt(DownloadResults)', NEW j \in PendingAt(DownloadResults)'
      PROVE  i = j
  <2>1. i \in Int /\ j \in Int
    BY <1>4
  <2>2. CASE i <= k /\ j <= k
    BY <1>3, <1>5, <2>2
  <2>3. CASE ~ (i <= k) /\ ~ (j <= k)
    <3>1. i - 1 = j - 1
      BY <1>3, <1>5, <2>3
    <3>. QED BY <2>1, <3>1
  <2>4. CASE i <= k /\ ~ (j <= k)
    <3>1. i = j - 1 /\ j > k + 1
      BY <1>3, <1>5, <2>4
    <3>. QED BY <1>2, <2>1, <2>4, <3>1
  <2>5. CASE ~ (i <= k) /\ j <= k
    <3>1. i - 1 = j /\ i > k + 1
      BY <1>3, <1>5, <2>5
    <3>. QED BY <1>2, <2>1, <2>5, <3>1
  <2>. QED BY <2>2, <2>3, <2>4, <2>5
<1>7. PendingAt(DownloadResults) = {} => PendingAt(DownloadResults)' = {}
  BY <1>3
<1>. QED BY <1>1, <1>5, <1>6, <1>7 DEF DownloadsFenced

\* The directory for the photos exists or can be created.
DirectoryOK == TRUE \notin DirFailures

\* Starting a download: Idle had no download result pending, so its own, of
\* which there is one at most when the directory exists, is alone.
LEMMA DownloadStart ==
  ASSUME IInv, TypeOK', DownloadsFenced, OnDownload, DirectoryOK
  PROVE  DownloadsFenced'
<1>1. /\ Handle({"Idle"}, {"DOWNLOAD"}) /\ state = "Idle" /\ state' = "Downloading"
  BY DEF OnDownload, EnterBusy, Handle
<1>2. Len(outbox') \in {0, 1}
  <2>1. PICK answer \in Responses, result \in download :
          outbox' = IF isResponsive(answer) THEN result ELSE << >>
    BY Zenon DEF OnDownload, EnterBusy
  <2>2. PICK failed \in DirFailures, r \in downloadFile :
          result = (IF failed THEN <<Ev("DOWNLOAD_ERROR")>> ELSE << >>) \o <<r>>
    BY DEF download
  <2>3. failed = FALSE
    BY DEF DirectoryOK
  <2>4. result = << >> \o <<r>>
    BY <2>2, <2>3, Zenon
  <2>5. Len(result) = 1
    BY <2>4
  <2>6. outbox' = result \/ outbox' = << >>
    BY <2>1, Zenon
  <2>. QED BY <2>5, <2>6
<1>3. PendingAt(DownloadResults) = {}
  BY <1>1 DEF DownloadsFenced
<1>4. ASSUME NEW i \in PendingAt(DownloadResults)' PROVE i = Len(Pending)
  <2>1. i \in 1 .. Len(Pending') /\ Pending'[i].sig \in DownloadResults
    BY DEF PendingAt
  <2>2. /\ Len(Pending) \in Nat /\ Len(Pending') = Len(Pending) - 1 + Len(outbox')
        /\ i < Len(Pending) => Pending'[i] = Pending[i + 1]
    BY <1>1, <2>1, Take DEF IInv
  <2>3. ~ (i < Len(Pending))
    <3>. SUFFICES ASSUME i < Len(Pending) PROVE FALSE
      OBVIOUS
    <3>1. i + 1 \in PendingAt(DownloadResults)
      BY <2>1, <2>2 DEF PendingAt
    <3>. QED BY <1>3, <3>1
  <2>. DEFINE l == Len(Pending)
              m == Len(outbox')
              n == Len(Pending')
  <2>4. i \in 1 .. n /\ l \in Nat /\ n = l - 1 + m /\ m \in {0, 1} /\ ~ (i < l)
    BY <1>2, <2>1, <2>2, <2>3
  <2>. HIDE DEF l, m, n
  <2>5. i = l
    BY <2>4
  <2>. QED BY <2>5 DEF l
<1>. QED BY <1>1, <1>4 DEF DownloadsFenced

\* Every step keeps the fence of the downloads.
LEMMA DownloadStep ==
  ASSUME IInv, IInv', DownloadsFenced, [Next]_vars, DirectoryOK
  PROVE  DownloadsFenced'
<1>t. TypeOK'
  BY DEF IInv
<1>p. state \in {"Idle", "CaptureWired"} => PendingAt(DownloadResults) \subseteq {1}
  BY DEF DownloadsFenced
<1>e. << >> \in Seq(Event) /\ \A i \in 1 .. Len(<< >>) : << >>[i].sig = "GENERIC_ERROR"
  OBVIOUS
<1>g. "GENERIC_ERROR" \notin DownloadResults
  BY SignalClasses
<1>s. ASSUME Pending' = Pending, state' = state PROVE DownloadsFenced'
  BY <1>s DEF DownloadsFenced, PendingAt
<1>i. ASSUME NEW states, NEW sigs, Handle(states, sigs), NEW before \in Seq(Event),
             \A i \in 1 .. Len(before) : before[i].sig = "GENERIC_ERROR", EnterIdle(before),
             PendingAt(DownloadResults) \subseteq {1}
      PROVE  DownloadsFenced'
  <2>1. \A i \in 1 .. Len(outbox') : outbox'[i].sig \notin DownloadResults
    BY <1>i, IdleEntry DEF Results
  <2>. QED BY <1>t, <1>i, <2>1, DownloadQuiet
<1>r. ASSUME NEW states, NEW sigs, Handle(states, sigs), EnterError
      PROVE  DownloadsFenced'
  <2>1. state' = "Error" /\ \A i \in 1 .. Len(outbox') : outbox'[i].sig \notin DownloadResults
    BY <1>r, ErrorEntry DEF Results
  <2>. QED BY <1>t, <1>r, <2>1, DownloadQuiet
<1>k. ASSUME NEW states, NEW sigs, Handle(states, sigs), state' = state,
             \A i \in 1 .. Len(outbox') : outbox'[i].sig = "GENERIC_ERROR"
      PROVE  DownloadsFenced'
  BY <1>t, <1>p, <1>g, <1>k, DownloadQuiet
<1>1. CASE PostCommand
  BY <1>1, <1>t, DownloadCommand
<1>2. CASE PostOwn
  BY <1>2, <1>s, PostOwnPending DEF IInv, PostOwn
<1>3. CASE OnConnect
  <2>1. Handle({"Disconnected", "Error"}, {"CONNECT"}) /\ state' = "Connecting"
    BY <1>3 DEF OnConnect, EnterConnecting
  <2>2. PICK sig \in ConnectResults : outbox' = <<Ev(sig)>>
    BY <1>3, Zenon DEF OnConnect, EnterConnecting, ConnectResults
  <2>3. Len(outbox') = 1 /\ outbox'[1].sig = sig
    BY <2>2 DEF Ev
  <2>4. \A i \in 1 .. Len(outbox') : outbox'[i].sig \notin DownloadResults
    BY <2>3, SignalClasses
  <2>. QED BY <1>t, <2>1, <2>4, DownloadQuiet
<1>4. CASE OnConnectionError
  BY <1>4, <1>r DEF OnConnectionError
<1>5. CASE OnConnected
  <2>1. Handle({"Connecting"}, {"CONNECTED"})
    BY <1>5 DEF OnConnected
  <2>2. PICK e1 \in setConfig(camera_config), e2 \in readStatus, e3 \in readOptions :
          EnterIdle(e1 \o e2 \o e3)
    BY <1>5 DEF OnConnected
  <2>. DEFINE before == e1 \o e2 \o e3
  <2>3. before \in Seq(Event) /\ \A i \in 1 .. Len(before) : before[i].sig = "GENERIC_ERROR"
    BY ConnectedErrors DEF IInv, TypeOK
  <2>4. PendingAt(DownloadResults) \subseteq {1}
    BY <1>t, <2>1, FenceReached DEF ConnectResults
  <2>5. EnterIdle(before)
    BY <2>2
  <2>. HIDE DEF before
  <2>. QED BY <1>i, <2>1, <2>3, <2>4, <2>5
<1>6. CASE OnSetConfig
  <2>1. Handle({"Idle"}, {"SET_CONFIG"}) /\ state' = state /\ camera_config' \in Nat
    BY <1>6 DEF OnSetConfig
  <2>2. PICK e1 \in setConfig(camera_config'), e2 \in readStatus : outbox' = e1 \o e2
    BY <1>6 DEF OnSetConfig
  <2>3. /\ e1 \in Seq(Event) /\ \A i \in 1 .. Len(e1) : e1[i].sig = "GENERIC_ERROR"
        /\ e2 \in Seq(Event) /\ \A i \in 1 .. Len(e2) : e2[i].sig = "GENERIC_ERROR"
    BY <2>1, HelpersType
  <2>4. \A i \in 1 .. Len(outbox') : outbox'[i].sig = "GENERIC_ERROR"
    BY <2>2, <2>3, Concat
  <2>. QED BY <1>k, <2>1, <2>4
<1>7. CASE OnGetStatus
  <2>1. \A i \in 1 .. Len(outbox') : outbox'[i].sig = "GENERIC_ERROR"
    BY <1>7, HelpersType DEF OnGetStatus
  <2>. QED BY <1>7, <1>k, <2>1 DEF OnGetStatus
<1>8. CASE OnGetOptions
  <2>1. \A i \in 1 .. Len(outbox') : outbox'[i].sig = "GENERIC_ERROR"
    BY <1>8, HelpersType DEF OnGetOptions
  <2>. QED BY <1>8, <1>k, <2>1 DEF OnGetOptions
<1>9. CASE OnCaptureWired
  <2>1. Handle({"Idle"}, {"CAPTURE_WIRED"}) /\ state = "Idle"
    BY <1>9 DEF OnCaptureWired, Handle
  <2>2. PICK answer \in Responses, result \in captureWired :
          outbox' = IF isResponsive(answer) THEN result ELSE << >>
    BY <1>9, Zenon DEF OnCaptureWired, EnterBusy
  <2>3. outbox' = result \/ outbox' = << >>
    BY <2>2, Zenon
  <2>4. Len(result) = 1 /\ result[1].sig \notin DownloadResults
    BY OperationsType, SignalClasses
  <2>5. \A i \in 1 .. Len(outbox') : outbox'[i].sig \notin DownloadResults
    <3>1. CASE outbox' = result
      <4>1. Len(outbox') = 1 /\ outbox'[1].sig \notin DownloadResults
        BY <2>4, <3>1
      <4>. QED BY <4>1
    <3>2. CASE outbox' = << >>
      BY <3>2
    <3>. QED BY <2>3, <3>1, <3>2
  <2>. QED BY <1>t, <1>p, <2>1, <2>5, DownloadQuiet
<1>10. CASE OnDownload
  BY <1>10, <1>t, DownloadStart
<1>11. CASE OnDisconnect
  <2>1. /\ Handle({"Idle"}, {"DISCONNECT"}) /\ state' = "Disconnected" /\ outbox' = << >>
    BY <1>11 DEF OnDisconnect, Handle
  <2>2. \A i \in 1 .. Len(outbox') : outbox'[i].sig \notin DownloadResults
    BY <2>1
  <2>. QED BY <1>t, <2>1, <2>2, DownloadQuiet
<1>12. CASE OnCaptureSuccess
  <2>1. /\ Handle({"CaptureWired"}, {"CAPTURE_SUCCESS"}) /\ EnterIdle(<< >>)
        /\ state = "CaptureWired"
    BY <1>12 DEF OnCaptureSuccess, Handle
  <2>. QED BY <1>e, <1>i, <1>p, <2>1
<1>13. CASE OnCaptureError
  BY <1>13, <1>r DEF OnCaptureError
<1>14. CASE OnDownloadEnd
  <2>1. Handle({"Downloading"}, DownloadResults) /\ EnterIdle(<< >>)
    BY <1>14 DEF OnDownloadEnd
  <2>2. Pending \in Seq(Event) /\ Len(Pending) > 0 /\ Pending[1].sig \in DownloadResults
    BY <1>t, <2>1, Take DEF IInv
  <2>3. 1 \in PendingAt(DownloadResults)
    BY <2>2 DEF PendingAt
  <2>4. PendingAt(DownloadResults) \subseteq {1}
    BY <2>3 DEF DownloadsFenced
  <2>. QED BY <1>e, <1>i, <2>1, <2>4
<1>15. CASE OnGenericError
  BY <1>15, <1>r DEF OnGenericError
<1>16. CASE Defer
  <2>1. /\ Handle({"CaptureWired", "Downloading"}, SessionCommands) /\ outbox' = << >>
        /\ state' = state
    BY <1>16 DEF Defer, Handle
  <2>2. \A i \in 1 .. Len(outbox') : outbox'[i].sig = "GENERIC_ERROR"
    BY <2>1
  <2>. QED BY <1>k, <2>1, <2>2
<1>17. CASE Ignore
  <2>1. /\ Handle(States, (CommandSignals \cup CameraSignals) \ Reacts(state)) /\ outbox' = << >>
        /\ state' = state
    BY <1>17 DEF Ignore, Handle
  <2>2. \A i \in 1 .. Len(outbox') : outbox'[i].sig = "GENERIC_ERROR"
    BY <2>1
  <2>. QED BY <1>k, <2>1, <2>2
<1>18. CASE Uncaught
  BY <1>18, <1>s DEF Uncaught, Pending
<1>19. CASE UNCHANGED vars
  BY <1>19, <1>s DEF vars, Pending
<1>. QED
  BY <1>1, <1>2, <1>3, <1>4, <1>5, <1>6, <1>7, <1>8, <1>9, <1>10, <1>11, <1>12, <1>13,
     <1>14, <1>15, <1>16, <1>17, <1>18, <1>19 DEF Next, Run

\* A download result that stateDownloading takes is the result of the download
\* it waits for, whenever the directory for the photos can be created.
THEOREM DownloadsAreFenced == Spec => []DownloadFence
<1>. DEFINE Inv == IInv /\ DownloadFence
<1>1. Init => Inv
  <2>. SUFFICES ASSUME Init PROVE Inv
    OBVIOUS
  <2>1. eventList = << >> /\ outbox = << >> /\ state = "Disconnected"
    BY DEF Init
  <2>2. Pending = << >>
    BY <2>1 DEF Pending
  <2>3. PendingAt(DownloadResults) = {}
    BY <2>2 DEF PendingAt
  <2>. QED BY <2>3, SafetyInit DEF DownloadFence
<1>2. Inv /\ [Next]_vars => Inv'
  <2>. SUFFICES ASSUME Inv, [Next]_vars PROVE Inv'
    OBVIOUS
  <2>1. IInv'
    BY SafetyStep
  <2>2. CASE TRUE \in DirFailures
    BY <2>1, <2>2 DEF DownloadFence
  <2>3. CASE TRUE \notin DirFailures
    <3>1. DownloadsFenced
      BY <2>3 DEF DownloadFence, DownloadsFenced
    <3>2. DownloadsFenced'
      BY <2>1, <2>3, <3>1, DownloadStep DEF DirectoryOK
    <3>. QED BY <2>1, <2>3, <3>2 DEF DownloadFence, DownloadsFenced
  <2>. QED BY <2>2, <2>3
<1>3. Inv => DownloadFence
  OBVIOUS
<1>. QED BY <1>1, <1>2, <1>3, PTL DEF Spec
----------------------------------------------------------------------------
\* The phase of the abstract session, state by state.
LEMMA Phases ==
  /\ state = "Disconnected" => phase = "off"
  /\ state = "Connecting" => phase = "connecting"
  /\ state = "Idle" => phase = "ready"
  /\ state \in {"CaptureWired", "Downloading"} => phase = "busy"
  /\ state = "Error" => phase = "failed"
BY DEF phase

\* A step that changes neither the state nor the connection is a stutter.
LEMMA SessionStutter ==
  ASSUME UNCHANGED <<state, connected>>
  PROVE  UNCHANGED Session!sessionVars
<1>1. state' = state /\ connected' = connected
  OBVIOUS
<1>2. phase' = phase
  BY <1>1 DEF phase
<1>. QED BY <1>1, <1>2 DEF Session!sessionVars

\* Every step of the controller is a step of the session, or a stutter.
LEMMA SessionStep ==
  IInv /\ [Next]_vars => [Session!Next]_(Session!sessionVars)
<1>. SUFFICES ASSUME IInv, [Next]_vars
              PROVE  Session!Next \/ UNCHANGED Session!sessionVars
  OBVIOUS
<1>t. TypeOK'
  BY TypeStep DEF IInv
<1>h. state \in InConnected => connected
  BY DEF IInv, CameraHeld
<1>p. /\ state' = "Disconnected" => phase' = "off"
      /\ state' = "Connecting" => phase' = "connecting"
      /\ state' = "Idle" => phase' = "ready"
      /\ state' \in {"CaptureWired", "Downloading"} => phase' = "busy"
      /\ state' = "Error" => phase' = "failed"
  BY DEF phase
<1>1. CASE OnConnect
  <2>1. state \in {"Disconnected", "Error"} /\ state' = "Connecting"
    BY <1>1 DEF OnConnect, Handle, EnterConnecting
  <2>2. phase \in {"off", "failed"} /\ phase' = "connecting"
    BY <1>p, <2>1, Phases
  <2>3. connected => connected'
    BY <1>1 DEF OnConnect, EnterConnecting, camera!connectReturns, camera!connectThrows,
       camera!alreadyConnected, camera!connectOK, camera!newFails, camera!initFails,
       camera!serialFails, camera!wrapperVars
  <2>4. connected' \in BOOLEAN
    BY <1>t DEF TypeOK, camera!TypeOK
  <2>. QED BY <2>2, <2>3, <2>4 DEF Session!Next, Session!Request
<1>2. CASE OnConnectionError
  <2>1. /\ Handle({"Connecting"}, {"CONNECTION_ERROR"}) /\ EnterError /\ state' = "Error"
        /\ state = "Connecting" /\ Head(eventList).sig = "CONNECTION_ERROR"
    BY <1>2 DEF OnConnectionError, Handle, EnterError
  <2>2. ~connected
    BY <1>t, <2>1, FenceReached DEF ConnectResults
  <2>3. connected' = connected
    BY <2>1, <2>2, Zenon DEF EnterError, camera!disconnect, camera!notConnected, camera!wrapperVars
  <2>. QED BY <1>p, <2>1, <2>2, <2>3, Phases DEF Session!Next, Session!Refuse
<1>3. CASE OnConnected
  <2>1. /\ Handle({"Connecting"}, {"CONNECTED"}) /\ state = "Connecting" /\ state' = "Idle"
        /\ Head(eventList).sig = "CONNECTED" /\ connected' = connected
    BY <1>3, Zenon DEF OnConnected, Handle, EnterIdle
  <2>2. connected
    BY <1>t, <2>1, FenceReached DEF ConnectResults
  <2>. QED BY <1>p, <2>1, <2>2, Phases DEF Session!Next, Session!Establish
<1>4. CASE OnCaptureWired \/ OnDownload
  <2>1. state = "Idle" /\ state' \in {"CaptureWired", "Downloading"} /\ connected' = connected
    BY <1>4, Zenon DEF OnCaptureWired, OnDownload, Handle, EnterBusy
  <2>. QED BY <1>p, <1>h, <2>1, Phases DEF InConnected, Session!Next, Session!Start
<1>5. CASE OnDisconnect
  <2>1. state = "Idle" /\ state' = "Disconnected" /\ connected' = connected
    BY <1>5, Zenon DEF OnDisconnect, Handle
  <2>. QED BY <1>p, <1>h, <2>1, Phases DEF InConnected, Session!Next, Session!Leave
<1>6. CASE OnCaptureSuccess \/ OnDownloadEnd
  <2>1. state \in {"CaptureWired", "Downloading"} /\ state' = "Idle" /\ connected' = connected
    BY <1>6, Zenon DEF OnCaptureSuccess, OnDownloadEnd, Handle, EnterIdle
  <2>. QED BY <1>p, <1>h, <2>1, Phases DEF InConnected, Session!Next, Session!Finish
<1>7. CASE OnCaptureError \/ OnGenericError
  <2>1. state \in InConnected /\ EnterError /\ state' = "Error"
    BY <1>7, Zenon DEF OnCaptureError, OnGenericError, Handle, EnterError, InConnected
  <2>2. connected' = FALSE
    BY <1>h, <2>1, Zenon DEF EnterError, camera!disconnect, camera!notConnected
  <2>3. phase \in {"ready", "busy"} /\ phase' = "failed"
    BY <1>p, <2>1, Phases DEF InConnected
  <2>. QED BY <1>h, <2>1, <2>2, <2>3 DEF Session!Next, Session!Fail
<1>8. CASE PostCommand \/ PostOwn \/ OnSetConfig \/ OnGetStatus \/ OnGetOptions \/ Defer
             \/ Ignore \/ Uncaught \/ UNCHANGED vars
  <2>1. UNCHANGED <<state, connected>>
    BY <1>8, Zenon DEF PostCommand, PostOwn, OnSetConfig, OnGetStatus, OnGetOptions, Defer,
       Ignore, Uncaught, vars
  <2>. QED BY <2>1, SessionStutter
<1>. QED BY <1>1, <1>2, <1>3, <1>4, <1>5, <1>6, <1>7, <1>8 DEF Next, Run

\* The controller implements the camera session: established and refused say
\* what this attempt's connect() found, and a failure releases the camera.
THEOREM SessionImplemented == Spec => ImplementsSession
<1>1. Init => Session!Init
  <2>. SUFFICES ASSUME Init PROVE Session!Init
    OBVIOUS
  <2>1. state = "Disconnected" /\ connected = FALSE
    BY Zenon DEF Init, camera!Init
  <2>2. phase = "off"
    BY <2>1, Phases
  <2>. QED BY <2>1, <2>2 DEF Session!Init
<1>. QED BY <1>1, SafetyInit, SafetyStep, SessionStep, PTL DEF Spec, ImplementsSession, Session!Spec
----------------------------------------------------------------------------
\* The safety part of CaptureEnds, DownloadEnds and DeferredReplayed: a state
\* that waits for an event has it coming.
EndsCapture == {e \in Event : e.sig \in CaptureResults}
EndsDownload == {e \in Event : \/ e.sig \in DownloadResults
                               \/ e.sig = "GENERIC_ERROR" /\ criticalError(e.arg)}

Coming(S) == \E i \in 1 .. Len(Pending) : Pending[i] \in S

\* Every error of downloadFile() is critical.
DownloadErrorsCritical == \A c \in DownloadErrorCodes : criticalError(c)

NothingAwaitedInVain ==
  /\ state = "CaptureWired" => Coming(EndsCapture)
  /\ state = "Downloading" /\ DownloadErrorsCritical => Coming(EndsDownload)
  /\ state = "Idle" => deferred_events = << >>

\* For a camera that answers when isResponsive() asks it.
Awaited == FALSE \notin Responses => NothingAwaitedInVain

LEMMA Endings ==
  /\ EndsCapture \subseteq {e \in Event : e.sig \in CameraSignals}
  /\ EndsDownload \subseteq {e \in Event : e.sig \in CameraSignals}
BY SignalClasses DEF EndsCapture, EndsDownload

\* A client's command goes between the pending events and replaces none.
LEMMA CommandComing ==
  ASSUME TypeOK, PostCommand, NEW S \in SUBSET {e \in Event : e.sig \in CameraSignals}, Coming(S)
  PROVE  Coming(S)'
<1>1. PICK i \in 1 .. Len(Pending) : Pending[i] \in S
  BY DEF Coming
<1>2. i \in PendingAt(CameraSignals)
  BY <1>1 DEF PendingAt
<1>3. \/ i \in PendingAt(CameraSignals)' /\ Pending'[i] = Pending[i]
      \/ i + 1 \in PendingAt(CameraSignals)' /\ Pending'[i + 1] = Pending[i]
  BY <1>2, Insert
<1>4. PICK j \in PendingAt(CameraSignals)' : Pending'[j] = Pending[i]
  BY <1>3
<1>5. j \in 1 .. Len(Pending')
  BY DEF PendingAt
<1>. QED BY <1>1, <1>4, <1>5 DEF Coming

\* A handler that takes another event leaves the one that is awaited pending.
LEMMA TakeComing ==
  ASSUME TypeOK, TypeOK', NEW states, NEW sigs, Handle(states, sigs), NEW S, Coming(S),
         Head(eventList) \notin S
  PROVE  Coming(S)'
<1>1. PICK i \in 1 .. Len(Pending) : Pending[i] \in S
  BY DEF Coming
<1>2. /\ Len(Pending) \in Nat /\ Len(outbox') \in Nat /\ Pending[1] = Head(eventList)
      /\ Len(Pending') = Len(Pending) - 1 + Len(outbox')
  BY Take DEF TypeOK
<1>3. i # 1
  BY <1>1, <1>2
<1>. DEFINE j == i - 1
<1>4. j \in 1 .. Len(Pending') /\ j < Len(Pending) /\ j + 1 = i
  BY <1>2, <1>3
<1>. HIDE DEF j
<1>5. Pending'[j] = Pending[j + 1]
  BY <1>4, Take
<1>. QED BY <1>1, <1>4, <1>5 DEF Coming

\* What a handler posts is pending.
LEMMA PostedComing ==
  ASSUME TypeOK, TypeOK', NEW states, NEW sigs, Handle(states, sigs), NEW S,
         NEW k \in 1 .. Len(outbox'), outbox'[k] \in S
  PROVE  Coming(S)'
<1>1. /\ Len(Pending) \in Nat /\ Len(outbox') \in Nat /\ Len(Pending) > 0
      /\ Len(Pending') = Len(Pending) - 1 + Len(outbox')
  BY Take DEF TypeOK
<1>. DEFINE j == Len(Pending) - 1 + k
<1>2. j \in 1 .. Len(Pending') /\ ~ (j < Len(Pending)) /\ j - Len(Pending) + 1 = k
  BY <1>1
<1>. HIDE DEF j
<1>3. Pending'[j] = outbox'[j - Len(Pending) + 1]
  BY <1>2, Take
<1>. QED BY <1>2, <1>3 DEF Coming

\* The last event download() posts ends the download.
LEMMA DownloadReports ==
  ASSUME DownloadErrorsCritical, NEW s \in download
  PROVE  \E k \in 1 .. Len(s) : s[k] \in EndsDownload
<1>. DEFINE first(failed) == IF failed THEN <<Ev("DOWNLOAD_ERROR")>> ELSE << >>
<1>1. PICK failed \in DirFailures, r \in downloadFile : s = first(failed) \o <<r>>
  BY DEF download
<1>2. r \in EndsDownload
  <2>1. Ev("DOWNLOAD_SUCCESS") \in EndsDownload /\ Ev("DOWNLOAD_ERROR") \in EndsDownload
    BY EvType DEF EndsDownload, CameraSignals, DownloadResults
  <2>2. \A c \in DownloadErrorCodes : GenericError(c) \in EndsDownload
    <3>1. TAKE c \in DownloadErrorCodes
    <3>2. c \in Int /\ criticalError(c)
      BY CodesAssumption DEF DownloadErrorsCritical
    <3>3. GenericError(c) \in Event /\ GenericError(c).sig = "GENERIC_ERROR" /\ GenericError(c).arg = c
      BY <3>2 DEF GenericError, Event, CameraSignals
    <3>. QED BY <3>2, <3>3 DEF EndsDownload
  <2>. QED BY <2>1, <2>2 DEF downloadFile
<1>. DEFINE a == first(failed)
            d == Ev("DOWNLOAD_ERROR")
            S == {d, r}
<1>3. a = <<d>> \/ a = << >>
  BY Zenon
<1>. HIDE DEF a, d, first
<1>4. <<d>> \in Seq(S) /\ Len(<<d>>) = 1 /\ << >> \in Seq(S) /\ Len(<< >>) = 0
  BY Singleton
<1>5. a \in Seq(S) /\ <<r>> \in Seq(S) /\ Len(a) \in {0, 1}
  BY <1>3, <1>4, Singleton
<1>. HIDE DEF S
<1>6. s = a \o <<r>>
  BY <1>1 DEF a
<1>7. Len(<<r>>) = 1 /\ <<r>>[1] = r
  OBVIOUS
<1>8. Len(s) = Len(a) + 1 /\ s[Len(a) + 1] = r
  BY <1>4, <1>5, <1>6, <1>7, Concat
<1>9. Len(a) + 1 \in 1 .. Len(s)
  BY <1>4, <1>8
<1>. QED BY <1>2, <1>8, <1>9

\* The camera answers, and the substates of Connected hold it.
LEMMA Responsive ==
  ASSUME FALSE \notin Responses, NEW answer \in Responses, connected
  PROVE  isResponsive(answer)
<1>1. answer = TRUE
  BY ChoicesAssumption
<1>. QED BY <1>1 DEF isResponsive

\* Entering Idle replays all deferred commands.
LEMMA IdleReplays ==
  ASSUME FALSE \notin Responses, connected, NEW before, EnterIdle(before)
  PROVE  NothingAwaitedInVain'
<1>1. PICK answer \in Responses, errors \in readStatus :
        /\ state' = "Idle"
        /\ IF isResponsive(answer)
           THEN outbox' = before \o errors \o deferred_events /\ deferred_events' = << >>
           ELSE outbox' = before /\ UNCHANGED deferred_events
  BY Zenon DEF EnterIdle
<1>2. state' = "Idle" /\ deferred_events' = << >>
  BY <1>1, Responsive, Zenon
<1>. QED BY <1>2 DEF NothingAwaitedInVain

\* Entering CaptureWired or Downloading posts what the operation reports.
LEMMA BusyReports ==
  ASSUME FALSE \notin Responses, connected, NEW target, NEW operation, EnterBusy(target, operation)
  PROVE  state' = target /\ outbox' \in operation
<1>1. PICK answer \in Responses, result \in operation :
        state' = target /\ outbox' = IF isResponsive(answer) THEN result ELSE << >>
  BY Zenon DEF EnterBusy
<1>2. outbox' = result
  BY <1>1, Responsive, Zenon
<1>. QED BY <1>1, <1>2

\* Every step of a controller whose camera answers keeps what is awaited coming.
LEMMA AwaitedStep ==
  ASSUME IInv, IInv', NothingAwaitedInVain, [Next]_vars, FALSE \notin Responses
  PROVE  NothingAwaitedInVain'
<1>t. TypeOK /\ TypeOK'
  BY DEF IInv
<1>h. state \in InConnected => connected
  BY DEF IInv, CameraHeld
<1>s. ASSUME Pending' = Pending, UNCHANGED <<state, deferred_events>> PROVE NothingAwaitedInVain'
  BY <1>s DEF NothingAwaitedInVain, Coming
<1>o. ASSUME state' \notin InConnected PROVE NothingAwaitedInVain'
  BY <1>o DEF NothingAwaitedInVain, InConnected
<1>k. ASSUME state = "Idle", UNCHANGED <<state, deferred_events>> PROVE NothingAwaitedInVain'
  BY <1>k DEF NothingAwaitedInVain
<1>b. ASSUME NEW states, NEW sigs, Handle(states, sigs), state' = state,
             state = "Idle" => UNCHANGED deferred_events,
             state = "CaptureWired" => Head(eventList) \notin EndsCapture,
             state = "Downloading" => Head(eventList) \notin EndsDownload
      PROVE  NothingAwaitedInVain'
  <2>1. state = "CaptureWired" => Coming(EndsCapture)'
    BY <1>t, <1>b, TakeComing DEF NothingAwaitedInVain
  <2>2. state = "Downloading" /\ DownloadErrorsCritical => Coming(EndsDownload)'
    BY <1>t, <1>b, TakeComing DEF NothingAwaitedInVain
  <2>3. state = "Idle" => deferred_events' = << >>
    BY <1>b DEF NothingAwaitedInVain
  <2>. QED BY <1>b, <2>1, <2>2, <2>3 DEF NothingAwaitedInVain
<1>1. CASE PostCommand
  <2>1. UNCHANGED <<state, deferred_events>>
    BY <1>1 DEF PostCommand
  <2>2. Coming(EndsCapture) => Coming(EndsCapture)'
    BY <1>1, <1>t, CommandComing, Endings
  <2>3. Coming(EndsDownload) => Coming(EndsDownload)'
    BY <1>1, <1>t, CommandComing, Endings
  <2>. QED BY <2>1, <2>2, <2>3 DEF NothingAwaitedInVain
<1>2. CASE PostOwn
  BY <1>2, <1>s, <1>t, PostOwnPending DEF PostOwn
<1>3. CASE OnConnect
  BY <1>3, <1>o DEF OnConnect, EnterConnecting, InConnected
<1>4. CASE OnConnectionError \/ OnCaptureError \/ OnGenericError
  <2>1. EnterError
    BY <1>4 DEF OnConnectionError, OnCaptureError, OnGenericError
  <2>. QED BY <1>o, <2>1, ErrorEntry DEF InConnected
<1>5. CASE OnConnected
  <2>1. Handle({"Connecting"}, {"CONNECTED"}) /\ Head(eventList).sig = "CONNECTED"
    BY <1>5 DEF OnConnected, Handle
  <2>2. connected
    BY <1>t, <2>1, FenceReached DEF ConnectResults
  <2>3. PICK before : EnterIdle(before)
    BY <1>5, Zenon DEF OnConnected
  <2>. QED BY <2>2, <2>3, IdleReplays
<1>6. CASE OnSetConfig \/ OnGetStatus \/ OnGetOptions
  <2>1. state = "Idle" /\ UNCHANGED <<state, deferred_events>>
    BY <1>6 DEF OnSetConfig, OnGetStatus, OnGetOptions, Handle
  <2>. QED BY <1>k, <2>1
<1>7. CASE OnCaptureWired
  <2>1. Handle({"Idle"}, {"CAPTURE_WIRED"}) /\ state = "Idle" /\ EnterBusy("CaptureWired", captureWired)
    BY <1>7 DEF OnCaptureWired, Handle
  <2>2. state' = "CaptureWired" /\ outbox' \in captureWired
    BY <1>h, <2>1, BusyReports DEF InConnected
  <2>3. outbox' \in Seq(Event) /\ Len(outbox') = 1 /\ outbox'[1].sig \in CaptureResults
    BY <2>2, OperationsType
  <2>4. 1 \in 1 .. Len(outbox') /\ outbox'[1] \in EndsCapture
    BY <2>3 DEF EndsCapture
  <2>5. Coming(EndsCapture)'
    BY <1>t, <2>1, <2>4, PostedComing
  <2>. QED BY <2>2, <2>5 DEF NothingAwaitedInVain
<1>8. CASE OnDownload
  <2>1. Handle({"Idle"}, {"DOWNLOAD"}) /\ state = "Idle" /\ EnterBusy("Downloading", download)
    BY <1>8 DEF OnDownload, Handle
  <2>2. state' = "Downloading" /\ outbox' \in download
    BY <1>h, <2>1, BusyReports DEF InConnected
  <2>3. ASSUME DownloadErrorsCritical PROVE Coming(EndsDownload)'
    <3>1. PICK k \in 1 .. Len(outbox') : outbox'[k] \in EndsDownload
      BY <2>2, <2>3, DownloadReports
    <3>. QED BY <1>t, <2>1, <3>1, PostedComing
  <2>. QED BY <2>2, <2>3 DEF NothingAwaitedInVain
<1>9. CASE OnDisconnect
  BY <1>9, <1>o DEF OnDisconnect, InConnected
<1>10. CASE OnCaptureSuccess \/ OnDownloadEnd
  <2>1. state \in InConnected /\ EnterIdle(<< >>)
    BY <1>10 DEF OnCaptureSuccess, OnDownloadEnd, Handle, InConnected
  <2>. QED BY <1>h, <2>1, IdleReplays
<1>11. CASE Defer
  <2>1. /\ Handle({"CaptureWired", "Downloading"}, SessionCommands) /\ state' = state
        /\ state # "Idle" /\ Head(eventList).sig \in SessionCommands
    BY <1>11 DEF Defer, Handle
  <2>2. Head(eventList).sig \notin CameraSignals
    BY <2>1, SignalClasses
  <2>. QED BY <1>b, <2>1, <2>2, Endings
<1>12. CASE Ignore
  <2>1. /\ Handle(States, (CommandSignals \cup CameraSignals) \ Reacts(state))
        /\ UNCHANGED <<state, deferred_events>> /\ Head(eventList).sig \notin Reacts(state)
        /\ ~ (/\ state \in InConnected /\ Head(eventList).sig = "GENERIC_ERROR"
              /\ criticalError(Head(eventList).arg))
    BY <1>12 DEF Ignore, Handle
  <2>2. state = "CaptureWired" => Head(eventList) \notin EndsCapture
    BY <2>1 DEF EndsCapture, Reacts
  <2>3. state = "Downloading" => Head(eventList) \notin EndsDownload
    BY <2>1 DEF EndsDownload, Reacts, InConnected
  <2>. QED BY <1>b, <2>1, <2>2, <2>3
<1>13. CASE Uncaught
  BY <1>13, <1>s DEF Uncaught, Pending
<1>14. CASE UNCHANGED vars
  BY <1>14, <1>s DEF vars, Pending
<1>. QED
  BY <1>1, <1>2, <1>3, <1>4, <1>5, <1>6, <1>7, <1>8, <1>9, <1>10, <1>11, <1>12, <1>13, <1>14
  DEF Next, Run

\* With a camera that answers when isResponsive() asks it, no state waits for
\* what nobody will send: in CaptureWired the result of the capture is pending,
\* in Downloading a result or (when the errors of downloadFile() are critical)
\* the error that ends the session, and Idle keeps no command deferred.
THEOREM NobodyWaitsInVain == Spec => []Awaited
<1>1. Init => IInv /\ Awaited
  BY SafetyInit DEF Init, Awaited, NothingAwaitedInVain
<1>2. IInv /\ Awaited /\ [Next]_vars => IInv' /\ Awaited'
  <2>. SUFFICES ASSUME IInv, Awaited, [Next]_vars PROVE IInv' /\ Awaited'
    OBVIOUS
  <2>1. IInv'
    BY SafetyStep
  <2>2. FALSE \notin Responses => NothingAwaitedInVain'
    BY <2>1, AwaitedStep DEF Awaited
  <2>. QED BY <2>1, <2>2 DEF Awaited
<1>. QED BY <1>1, <1>2, PTL DEF Spec
=============================================================================
