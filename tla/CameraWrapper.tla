---------------------------- MODULE CameraWrapper ----------------------------
(***************************************************************************)
(* camera/CameraWrapper.cpp: the owner of the libgphoto2 camera handle.     *)
(* `handle' abstracts the Camera* member: "null", "live" (initialised by    *)
(* gp_camera_init) or "dangling" (freed, but the pointer was kept).  Each   *)
(* outcome of connect() is an action of its own; the outcomes of the        *)
(* gphoto2 calls inside it are the environment's choice.                    *)
(***************************************************************************)

VARIABLES handle, connected

wrapperVars == <<handle, connected>>

TypeOK == /\ handle \in {"null", "live", "dangling"}
          /\ connected \in BOOLEAN

Init == handle = "null" /\ connected = FALSE

\* connect() on a connected wrapper returns the cached serial at once.
alreadyConnected == connected /\ UNCHANGED wrapperVars

\* gp_camera_new succeeds, gp_camera_init succeeds, the serial is read.
connectOK == /\ ~connected
             /\ handle' = "live"
             /\ connected' = TRUE

\* gp_camera_new fails; whether it clears the pointer is libgphoto2's choice.
newFails == /\ ~connected
            /\ handle' \in {handle, "null"}
            /\ UNCHANGED connected

\* gp_camera_init fails: the camera is freed and the pointer is kept.
initFails == /\ ~connected
             /\ handle' = "dangling"
             /\ UNCHANGED connected

\* getSerialNumber() throws after gp_camera_init succeeded: the camera stays
\* initialised and `connected' stays false.
serialFails == /\ ~connected
               /\ handle' = "live"
               /\ UNCHANGED connected

\* connect() returns the serial / throws GPhotoError.
connectReturns == alreadyConnected \/ connectOK
connectThrows == newFails \/ initFails \/ serialFails

freeCamera == handle' = "null"

\* disconnect() returns true ...
disconnect == /\ connected
              /\ freeCamera
              /\ connected' = FALSE

\* ... or false.
notConnected == ~connected /\ UNCHANGED wrapperVars
=============================================================================
