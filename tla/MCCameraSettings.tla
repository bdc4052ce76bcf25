-------------------------- MODULE MCCameraSettings --------------------------
(* The cameras of the runs of CameraSettings.  The lists are those of the    *)
(* Nikon D3000 (d3000_configs.txt), cut into short pieces.                   *)
EXTENDS CameraSettings

\* In units of 10^-4 s and of 10^-2.
Seconds == <<2, 3, 4, 5, 6, 8, 10, 12, 15, 20, 25, 31, 40, 50, 62, 80, 100, 125, 166, 200,
             250, 333, 400, 500, 666, 769, 1000, 1250, 1666, 2000, 2500, 3333, 4000, 5000,
             6250, 7692, 10000, 13000, 16000, 20000, 25000, 30000, 40000, 50000, 60000,
             80000, 100000, 130000, 150000, 200000, 250000, 300000>>
FNumbers == <<180, 200, 220, 250, 280, 320, 350, 400, 450, 500, 560, 630, 710, 800, 900,
              1000, 1100, 1300, 1400, 1600, 1800, 2000, 2200>>

ShutterTexts == [i \in DOMAIN Seconds |-> Text("s", Seconds[i])] \o <<Bulb>>
FNumberTexts == [i \in DOMAIN FNumbers |-> Text("f/", FNumbers[i])]
ISO(n) == Text("", n)
Mode(n) == Text("mode", n)

Pieces(s, n) == {SubSeq(s, i, i + n - 1) : i \in 1 .. Len(s) - n + 1}

Fixed == [w \in Widgets |-> CASE w = "f-number" -> {<<Text("f/", 560)>>}
                              [] w = "shutterspeed" -> {<<Text("s", 125)>>}
                              [] w = "iso" -> {<<ISO(100)>>}
                              [] w = "capturemode" -> {<<Mode(1)>>}]
NothingTyped == [w \in Widgets |-> {}]

\* A camera on which nothing fails and one setting can be chosen.
Sound(w, list) == [offers |-> [Fixed EXCEPT ![w] = {list}], locks |-> {},
                   typed |-> NothingTyped, faulty |-> {}, maxCommands |-> 3, maxTouches |-> 0]

\* Two lenses, a setting that may be read-only, calls that fail, numbers that
\* are in no list.
Faulty == [offers |-> [Fixed EXCEPT !["f-number"] = {<<Text("f/", 180), Text("f/", 350)>>,
                                                     <<Text("f/", 350)>>},
                                    !["shutterspeed"] = {<<Text("s", 300000), Bulb>>}],
           locks |-> {"f-number"}, typed |-> [NothingTyped EXCEPT !["f-number"] = {355}],
           faulty |-> {"f-number"}, maxCommands |-> 3, maxTouches |-> 1]

\* No lens, and a sensitivity the camera may choose itself.
Wordy == [offers |-> [Fixed EXCEPT !["f-number"] = {<<Word>>},
                                   !["iso"] = {<<ISO(100), ISO(200)>>, <<Word, ISO(100)>>}],
          locks |-> {}, typed |-> NothingTyped, faulty |-> {},
          maxCommands |-> 3, maxTouches |-> 1]

D3000 == {Sound("shutterspeed", p) : p \in Pieces(ShutterTexts, 2)}
           \cup {Sound("f-number", p) : p \in Pieces(FNumberTexts, 5)}
           \cup {Sound("iso", <<ISO(100), ISO(200), ISO(400), ISO(800), ISO(1600), ISO(3200)>>)}
           \cup {Sound("capturemode", <<Mode(1), Mode(2)>>)}

MCKits == D3000 \cup {Faulty, Wordy}

\* What the theorems about lists suppose of a camera.
ASSUME MCKitsAssumption == \A k \in MCKits : Numeric(k) /\ Exact(k)

\* A zoom lens whose maximum aperture is f/4.2 at some focal length.
ZoomKits == {Sound("f-number", <<Text("f/", 400), Text("f/", 420), Text("f/", 450)>>)}
=============================================================================
