---------------------------- MODULE CameraSession ----------------------------
(***************************************************************************)
(* What CameraController promises whoever watches it: a session with the    *)
(* camera is asked for, is then established or refused according to what    *)
(* the connection attempt of THIS request found, serves one operation at a  *)
(* time, and ends by failing, which releases the camera, or by being left,  *)
(* which does not.  `link' says that the wrapper holds a connected camera.  *)
(***************************************************************************)

VARIABLES phase, link

sessionVars == <<phase, link>>

Init == phase = "off" /\ link = FALSE

Request == /\ phase \in {"off", "failed"}
           /\ phase' = "connecting"
           /\ link' \in BOOLEAN
           /\ link => link'

Establish == /\ phase = "connecting" /\ link
             /\ phase' = "ready"
             /\ UNCHANGED link

Refuse == /\ phase = "connecting" /\ ~link
          /\ phase' = "failed"
          /\ UNCHANGED link

Start == /\ phase = "ready" /\ link
         /\ phase' = "busy"
         /\ UNCHANGED link

Finish == /\ phase = "busy" /\ link
          /\ phase' = "ready"
          /\ UNCHANGED link

Fail == /\ phase \in {"ready", "busy"} /\ link
        /\ phase' = "failed"
        /\ link' = FALSE

Leave == /\ phase = "ready" /\ link
         /\ phase' = "off"
         /\ UNCHANGED link

Next == Request \/ Establish \/ Refuse \/ Start \/ Finish \/ Fail \/ Leave

Spec == Init /\ [][Next]_sessionVars
=============================================================================
