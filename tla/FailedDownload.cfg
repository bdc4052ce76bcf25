SPECIFICATION FairSpec
CONSTANTS
  Commands <- BusyCommands
  MaxCommands = 2
  Capacity = 2
  ErrorCodes <- MCErrorCodes
  DownloadErrorCodes <- MCErrorCodes
  Settings <- MCSettings
  NumOptions = 1
  Responses <- OnlyTrue
  DirFailures <- OnlyFalse
  OtherExceptions = FALSE
PROPERTY
  DownloadEnds
CHECK_DEADLOCK FALSE
