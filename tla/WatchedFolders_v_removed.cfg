SPECIFICATION WatchedSpec
CONSTANTS
  File = {f1, f2}
  MagnetFile = {f2}
  MaxRetries = 2
  MaxScheduled = 2
  MaxFolderCalls = 2
PROPERTY TakenIsWatched
CHECK_DEADLOCK FALSE
