SPECIFICATION Spec
CONSTANTS
  NumFiles = 2
  Versions <- MCVersions
  Includes <- MCIncludes
  Modes = {"watch", "poll"}
  Moves = TRUE
  MaxRetries = 0
  MaxEdits = 3
  MaxCrashes = 2
INVARIANT WatchesFollowFiles
INVARIANT NoReloadStorm
PROPERTY ConfigReaches
CHECK_DEADLOCK FALSE
