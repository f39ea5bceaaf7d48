SPECIFICATION WorkbenchSpec
CONSTANTS
  b = b
  top = top
  sub = sub
  inner = inner
  Base = {b}
  File = {top, inner}
  Folder = {sub}
  Parent <- ParentOf
  SamePrefix <- NoPrefix
  MaxDirs = 1
  MaxSources = 2
  MaxActions = 2
  MaxEvents = 1
  EarlyRescan = FALSE
CHECK_DEADLOCK FALSE
INVARIANTS RemovedFromWorkspace
