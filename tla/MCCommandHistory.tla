-------------------------- MODULE MCCommandHistory --------------------------
(* The constants of the run of CommandHistory: sessions that are opened,      *)
(* left, fail and are opened again, and commands that are deferred meanwhile. *)
EXTENDS CommandHistory

MCCommands == {"CONNECT", "DISCONNECT", "CAPTURE_WIRED", "DOWNLOAD", "GET_STATUS"}

\* GP_ERROR_TIMEOUT, which is critical, and GP_ERROR_CAMERA_BUSY, which is not.
MCErrorCodes == {-10, -110}

Faulty == {TRUE, FALSE}
MCSettings == {0}
=============================================================================
