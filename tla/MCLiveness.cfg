SPECIFICATION FairSpec
CONSTANTS
  Commands <- CommandSignals
  MaxCommands = 4
  Capacity = 2
  ErrorCodes <- MCErrorCodes
  DownloadErrorCodes <- CriticalCodes
  Settings <- MCSettings
  NumOptions = 1
  Responses <- OnlyTrue
  DirFailures <- OnlyFalse
  OtherExceptions = TRUE
INVARIANTS
  DownloadFence
PROPERTIES
  ConnectingEnds
  CaptureEnds
  DownloadEnds
  DeferredReplayed
CHECK_DEADLOCK FALSE
