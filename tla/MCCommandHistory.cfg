SPECIFICATION HistorySpec
CONSTANTS
  Commands <- MCCommands
  MaxCommands = 5
  Capacity = 2
  ErrorCodes <- MCErrorCodes
  DownloadErrorCodes <- MCErrorCodes
  Settings <- MCSettings
  NumOptions = 1
  Responses <- Faulty
  DirFailures <- Faulty
  OtherExceptions = TRUE
INVARIANTS
  TypeOK
  ConnectFence
  CaptureFence
  CameraHeld
  ExactlyOnce
  BatchOrder
PROPERTIES
  ImplementsSession
CHECK_DEADLOCK FALSE
