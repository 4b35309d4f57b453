SPECIFICATION WatchedFairSpec
CONSTANTS
  File = {f1}
  MagnetFile = {}
  MaxRetries = 2
  MaxScheduled = 2
  MaxFolderCalls = 2
PROPERTY NoFileIsLeft
CHECK_DEADLOCK FALSE
