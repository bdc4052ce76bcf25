--------------------------- MODULE CameraSettings ---------------------------
(***************************************************************************)
(* The settings of the camera as three parties see them: the camera, where  *)
(* each is a text chosen from a list that depends on lens and exposure      *)
(* mode; the controller, which keeps the last configuration it was given    *)
(* and applies it again to every new session (setConfig(), readStatus(),    *)
(* readOptions() of CameraManager.cpp, on the getters and setters of        *)
(* CameraWrapper.cpp and CameraWidget.cpp); and a client, which knows what  *)
(* was published on TOPIC_CAMERA_STATUS.  The photographer's hands are on   *)
(* the camera meanwhile.                                                    *)
(*                                                                          *)
(* A handler is a sequence of camera calls, `todo'; each call is a step.    *)
(* Which events lead to these handlers is CameraController's concern.       *)
(***************************************************************************)
EXTENDS StringConversion, Functions, FiniteSets

CONSTANT Kits  \* the cameras, one of which is connected

Widgets == {"f-number", "shutterspeed", "iso", "capturemode"}

Texts == [unit : {"s", "f/", "", "mode", "Bulb", "?"}, digits : Nat]

\* offers: the lists of choices a widget may have; locks: widgets that the mode
\* dial makes read-only; typed: numbers a client sends without looking at a
\* list; faulty: widgets on which camera calls may fail; maxCommands and
\* maxTouches: bounds on the sessions and commands, and on what is done to the
\* camera by hand.
ASSUME KitsAssumption ==
  \A k \in Kits : /\ k.offers \in [Widgets -> SUBSET Seq(Texts)]
                  /\ \A w \in Widgets : k.offers[w] # {} /\ << >> \notin k.offers[w]
                  /\ k.locks \subseteq Widgets
                  /\ k.typed \in [Widgets -> SUBSET Int]
                  /\ k.faulty \subseteq Widgets
                  /\ k.maxCommands \in Nat /\ k.maxTouches \in Nat

VARIABLES kit, choices, value, locked,     \* the camera
          camera_config, todo, reading,    \* the controller
          terminated,                      \* std::terminate was called
          options, shown,                  \* what was published last
          commands, touches,
          excused,   \* history: settings whose last setter failed, was given a
                     \*   number that is not in the list, or was undone by hand
          unseen,    \* history: settings changed by hand, or whose reading
                     \*   failed, since they were read
          fresh      \* history: settings whose list was read since it changed

camera == <<kit, choices, value, locked>>
history == <<excused, unseen, fresh>>
vars == <<camera, camera_config, todo, reading, terminated, options, shown,
          commands, touches, history>>
----------------------------------------------------------------------------
\* The values of a CameraConfig that is not given: -1, and "" for trigger_mode.
NotGiven == [w \in Widgets |-> IF w = "capturemode" THEN 0 ELSE -1]

\* The tests in setConfig().
Given(w, v) == CASE w = "shutterspeed" -> v >= 0
                 [] w = "capturemode" -> v # 0
                 [] OTHER -> v > 0

\* std::stoi throws std::invalid_argument, which nothing catches.
Parses(w, t) == w = "iso" => t.unit = ""

\* What the getter makes of a text, and the setter of a number.  A trigger mode
\* is the number of a text; "" is 0.
ToInt(w, t) == CASE w = "f-number" -> apertureToInt(t)
                 [] w = "shutterspeed" -> shutterSpeedToInt(t)
                 [] OTHER -> t.digits

ToText(w, v) == CASE w = "f-number" -> apertureToString(v)
                  [] w = "shutterspeed" -> shutterSpeedToString(v)
                  [] w = "iso" -> Text("", v)
                  [] w = "capturemode" -> Text("mode", v)

Listed(w) == {ToInt(w, choices[w][i]) : i \in DOMAIN choices[w]}

\* The lists of a camera whose texts are read as an int; and of one whose numbers,
\* written back, are again among its choices and read the same.
Numeric(k) == \A w \in Widgets : \A list \in k.offers[w] : \A t \in Range(list) :
                ToInt(w, t) \in Int
Exact(k) == \A w \in Widgets : \A list \in k.offers[w] : \A t \in Range(list) :
              LET v == ToInt(w, t)
              IN  Given(w, v) => ToText(w, v) \in Range(list) /\ ToInt(w, ToText(w, v)) = v

\* All ways to take for each widget w an element of S[w].
OneOfEach(S) == {[w \in Widgets |-> CASE w = "f-number" -> a [] w = "shutterspeed" -> b
                                      [] w = "iso" -> c [] w = "capturemode" -> d] :
                   a \in S["f-number"], b \in S["shutterspeed"], c \in S["iso"],
                   d \in S["capturemode"]}

Values(c) == OneOfEach([w \in Widgets |-> Range(c[w])])

TypeOK == /\ kit \in Kits
          /\ \A w \in Widgets : choices[w] \in kit.offers[w] /\ value[w] \in Range(choices[w])
          /\ locked \subseteq kit.locks
          /\ camera_config \in [Widgets -> Int]
          /\ reading \in [Widgets -> Int]
          /\ shown \in [Widgets -> Int]
          /\ options \in [Widgets -> Seq(Int)]
          /\ terminated \in BOOLEAN
          /\ commands \in 0 .. kit.maxCommands /\ touches \in 0 .. kit.maxTouches
          /\ excused \subseteq Widgets /\ unseen \subseteq Widgets /\ fresh \subseteq Widgets

Init == /\ kit \in Kits
        /\ choices \in OneOfEach(kit.offers)
        /\ value \in Values(choices)
        /\ locked = {}
        /\ camera_config = NotGiven /\ reading = NotGiven /\ shown = NotGiven
        /\ todo = << >>
        /\ terminated = FALSE
        /\ options = [w \in Widgets |-> << >>]
        /\ commands = 0 /\ touches = 0
        /\ excused = {} /\ unseen = Widgets /\ fresh = {}
----------------------------------------------------------------------------
Calls(op, ws) == [i \in 1 .. Len(ws) |-> [op |-> op, w |-> ws[i]]]

setConfig(config) ==
  LET Try(w) == IF Given(w, config[w]) THEN Calls("set", <<w>>) ELSE << >>
  IN  Try("f-number") \o Try("shutterspeed") \o Try("iso") \o Try("capturemode")

StatusOrder == <<"shutterspeed", "f-number", "iso", "capturemode">>

readStatus == Calls("get", StatusOrder) \o Calls("publish", <<"capturemode">>)
readOptions == Calls("list", StatusOrder)

\* The thread takes an event whose handler makes the calls.
Begin(calls) == /\ ~terminated
                /\ todo = << >>
                /\ commands < kit.maxCommands
                /\ commands' = commands + 1
                /\ todo' = calls
                /\ UNCHANGED <<reading, terminated, options, shown, touches>>

\* The first command to be served is the one that opened a session.
InSession == commands > 0

\* A variant with a fault: the configuration is not applied to a new session.
OnConnectedBare ==
  /\ Begin(readStatus \o readOptions)
  /\ choices' \in OneOfEach(kit.offers)
  /\ value' \in Values(choices')
  /\ excused' = {} /\ unseen' = {} /\ fresh' = {}
  /\ UNCHANGED <<kit, locked, camera_config>>

\* EV_CAMERA_CONNECTED, after which Idle is entered; the entry is cut short if
\* the camera is not responsive.  While there was no session the camera may have
\* been switched off and on, set by hand and given another lens.
OnConnected ==
  /\ \E entry \in {readStatus} \cup (IF kit.faulty # {} THEN {<< >>} ELSE {}) :
       Begin(setConfig(camera_config) \o readStatus \o readOptions \o entry)
  /\ choices' \in OneOfEach(kit.offers)
  /\ value' \in Values(choices')
  /\ excused' = {} /\ unseen' = {} /\ fresh' = {}
  /\ UNCHANGED <<kit, locked, camera_config>>

\* What a client may ask for: per setting nothing, a value of the list it was
\* shown last, or a number it made up.
Configs == OneOfEach([w \in Widgets |-> {NotGiven[w]} \cup Range(options[w]) \cup kit.typed[w]])

\* A variant with a fault: no status is published for a new configuration.
OnSetConfigSilent == \E config \in Configs :
  /\ InSession
  /\ Begin(setConfig(config))
  /\ camera_config' = config
  /\ UNCHANGED <<camera, history>>

OnSetConfig == \E config \in Configs :
  /\ InSession
  /\ Begin(setConfig(config) \o readStatus)
  /\ camera_config' = config
  /\ UNCHANGED <<camera, history>>

\* EV_CAMERA_GET_STATUS, and every entry of Idle.
OnGetStatus == InSession /\ Begin(readStatus) /\ UNCHANGED <<camera, camera_config, history>>

OnGetOptions == InSession /\ Begin(readOptions) /\ UNCHANGED <<camera, camera_config, history>>
----------------------------------------------------------------------------
\* The thread makes the next call.
Call(op) == /\ ~terminated
            /\ todo # << >>
            /\ Head(todo).op = op
            /\ UNCHANGED <<kit, choices, locked, camera_config, commands, touches>>

W == Head(todo).w
Wanted == camera_config[W]

Then(calls) == todo' = calls /\ UNCHANGED terminated

\* A GPhotoError of the widget's constructor, of getValue() or of apply().
GPhotoFails == W \in kit.faulty

\* setAperture() and its like: the camera takes a text that is one of its
\* choices; for another one it chooses by itself, or refuses.
setReturns ==
  /\ Call("set")
  /\ W \notin locked
  /\ value' \in IF ToText(W, Wanted) \in Range(choices[W])
                THEN {[value EXCEPT ![W] = ToText(W, Wanted)]}
                ELSE {[value EXCEPT ![W] = t] : t \in Range(choices[W])}
  /\ excused' = IF Wanted \in Listed(W) THEN excused \ {W} ELSE excused \cup {W}
  /\ Then(Tail(todo))
  /\ UNCHANGED <<reading, options, shown, unseen, fresh>>

\* The error is posted and the next setting is tried.
setThrows ==
  /\ Call("set")
  /\ GPhotoFails \/ ToText(W, Wanted) \notin Range(choices[W])
  /\ excused' = excused \cup {W}
  /\ Then(Tail(todo))
  /\ UNCHANGED <<value, reading, options, shown, unseen, fresh>>

getReturns ==
  /\ Call("get")
  /\ Parses(W, value[W])
  /\ reading' = [reading EXCEPT ![W] = ToInt(W, value[W])]
  /\ unseen' = unseen \ {W}
  /\ Then(Tail(todo))
  /\ UNCHANGED <<value, options, shown, excused, fresh>>

\* readStatus() ends with the first error; nothing is published.
getThrows ==
  /\ Call("get")
  /\ GPhotoFails
  /\ reading' = NotGiven
  /\ unseen' = Widgets
  /\ LET n == CHOOSE i \in DOMAIN todo : /\ todo[i].op = "publish"
                                         /\ \A j \in 1 .. i - 1 : todo[j].op # "publish"
     IN  Then(SubSeq(todo, n + 1, Len(todo)))
  /\ UNCHANGED <<value, options, shown, excused, fresh>>

\* EV_CAMERA_VAL_CONFIG.
publish ==
  /\ Call("publish")
  /\ shown' = reading
  /\ reading' = NotGiven
  /\ Then(Tail(todo))
  /\ UNCHANGED <<value, options, history>>

\* A variant with a fault: the apertures are published as every list.
listReturnsMixed ==
  /\ Call("list")
  /\ options' = [options EXCEPT ![W] = [i \in DOMAIN choices["f-number"] |->
                                          ToInt("f-number", choices["f-number"][i])]]
  /\ fresh' = fresh \cup {W}
  /\ Then(Tail(todo))
  /\ UNCHANGED <<value, reading, shown, excused, unseen>>

\* listApertures() and its like, and the event with the list.  A choice that
\* cannot be read makes the whole list empty.
listReturns ==
  /\ Call("list")
  /\ \A i \in DOMAIN choices[W] : Parses(W, choices[W][i])
  /\ \E list \in {[i \in DOMAIN choices[W] |-> ToInt(W, choices[W][i])]}
                   \cup (IF GPhotoFails THEN {<< >>} ELSE {}) :
       options' = [options EXCEPT ![W] = list]
  /\ fresh' = fresh \cup {W}
  /\ Then(Tail(todo))
  /\ UNCHANGED <<value, reading, shown, excused, unseen>>

listThrows ==
  /\ Call("list")
  /\ GPhotoFails
  /\ Then(Tail(todo))
  /\ UNCHANGED <<value, reading, options, shown, history>>

\* WidgetReadOnlyError of apply() or std::invalid_argument of std::stoi.
Uncaught ==
  /\ \/ Call("set") /\ W \in locked
     \/ Call("get") /\ ~Parses(W, value[W])
     \/ Call("list") /\ \E i \in DOMAIN choices[W] : ~Parses(W, choices[W][i])
  /\ terminated' = TRUE
  /\ UNCHANGED <<value, todo, reading, options, shown, history>>
----------------------------------------------------------------------------
\* The photographer does something to the setting w.
Touch(w) == /\ touches < kit.maxTouches
            /\ touches' = touches + 1
            /\ excused' = excused \cup {w}
            /\ unseen' = unseen \cup {w}
            /\ UNCHANGED <<kit, camera_config, todo, reading, terminated, options, shown, commands>>

\* A dial is turned.
Turn(w) == /\ Touch(w)
           /\ \E t \in Range(choices[w]) \ {value[w]} : value' = [value EXCEPT ![w] = t]
           /\ UNCHANGED <<choices, locked, fresh>>

\* Another lens or another exposure mode: other choices.
Swap(w) == /\ Touch(w)
           /\ \E list \in kit.offers[w] \ {choices[w]} :
                /\ choices' = [choices EXCEPT ![w] = list]
                /\ \E t \in Range(list) : value' = [value EXCEPT ![w] = t]
           /\ fresh' = fresh \ {w}
           /\ UNCHANGED locked

\* An exposure mode in which the camera decides: the setting is read-only.
Lock(w) == /\ Touch(w)
           /\ w \in kit.locks
           /\ locked' = IF w \in locked THEN locked \ {w} ELSE locked \cup {w}
           /\ UNCHANGED <<choices, value, fresh>>

Run == \/ OnConnected \/ OnSetConfig \/ OnGetStatus \/ OnGetOptions
       \/ setReturns \/ setThrows \/ getReturns \/ getThrows \/ publish
       \/ listReturns \/ listThrows \/ Uncaught

Photographer == \E w \in Widgets : Turn(w) \/ Swap(w) \/ Lock(w)

Next == Run \/ Photographer

Spec == Init /\ [][Next]_vars
----------------------------------------------------------------------------
\* The thread has handled what it was told.
Quiet == InSession /\ todo = << >> /\ ~terminated

\* A setting that a client took from the list is in force, in this session and
\* in every later one, unless an error was posted or a hand was faster: the
\* setting read back is the number that was set (setConfig(), the conversions).
Restored == Quiet => \A w \in Widgets \ excused :
                       Given(w, camera_config[w]) => ToInt(w, value[w]) = camera_config[w]

\* What was published last is what the camera holds, unless a hand or an error
\* came in between (readStatus() after everything that changes a setting).
StatusTrue == Quiet => \A w \in Widgets \ unseen : shown[w] = ToInt(w, value[w])

\* A list that is up to date names only values the camera will take: converted
\* back they are among its choices (listApertures(), setAperture() and so on).
ListedAccepted == \A w \in fresh : \A v \in Range(options[w]) :
                    Given(w, v) => ToText(w, v) \in Range(choices[w])

Distance(a, b) == IF a < b THEN b - a ELSE a - b
Increasing(s) == \A i, j \in DOMAIN s : i < j => s[i] < s[j]

\* For a list in increasing order findNearest() finds a nearest value: probed,
\* when the list is published, at each value, next to it and around the middle
\* between two.
NearestFound == [][\A w \in Widgets : LET s == options'[w] IN
  options[w] # s /\ s # << >> /\ Increasing(s) =>
    \A v \in UNION {{s[i] - 1, s[i], s[i] + 1, (s[i] + s[j]) \div 2, (s[i] + s[j] + 1) \div 2}
                      : i \in DOMAIN s, j \in DOMAIN s} :
      LET n == findNearest(s, v)
      IN  n \in Range(s) /\ \A i \in DOMAIN s : Distance(n, v) <= Distance(s[i], v)]_options
=============================================================================
