SPECIFICATION FollowingSpec
CONSTANTS
  b = b
  top = top
  sub = sub
  inner = inner
  Base = {b}
  File = {top, inner}
  Folder = {sub}
  Parent <- ParentOf
  SamePrefix <- NoPrefix
  MaxDirs = 2
  MaxSources = 2
  MaxActions = 2
  MaxEvents = 2
  EarlyRescan = FALSE
  Threads = 2
  Depth = 2
  MaxStops = 2
  MaxOut = 2
  SelectOnRunning = FALSE
  SelectOnStopped = TRUE
  SelectOnExited = TRUE
  SelectFollow = FALSE
  AutoRunExit = FALSE
  NULL = NULL
INVARIANTS StateOfSelected NotBusyInStep ShownNotOutdated ListFollowsDisk  OpenLeftToGeany
