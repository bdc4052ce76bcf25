------------------------- MODULE MCCameraController -------------------------
(* The constants of the runs of CameraController.                            *)
EXTENDS CameraController

\* GP_ERROR_TIMEOUT, which is critical, and GP_ERROR_CAMERA_BUSY, which is not.
Timeout == -10
CameraBusy == -110

MCErrorCodes == {Timeout, CameraBusy}
CriticalCodes == {Timeout}

\* Commands that open sessions and occupy them.
BusyCommands == {"CONNECT", "CAPTURE_WIRED", "DOWNLOAD", "GET_STATUS"}

Faulty == {TRUE, FALSE}
OnlyTrue == {TRUE}
OnlyFalse == {FALSE}

MCSettings == {0, 1}
=============================================================================
