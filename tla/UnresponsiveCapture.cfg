SPECIFICATION FairSpec
CONSTANTS
  Commands <- BusyCommands
  MaxCommands = 2
  Capacity = 2
  ErrorCodes <- MCErrorCodes
  DownloadErrorCodes <- CriticalCodes
  Settings <- MCSettings
  NumOptions = 1
  Responses <- Faulty
  DirFailures <- OnlyFalse
  OtherExceptions = FALSE
PROPERTY
  CaptureEnds
CHECK_DEADLOCK FALSE
