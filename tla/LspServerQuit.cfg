CONSTANTS
  c = c
  cpp = cpp
  NULL = NULL
  Filetype <- TwoFiletypes
  Addr = {a1, a2, a3, a4}
  Launch = {p1, p2}
  RefLang <- CppUsesC
  HasCmd <- OneFiletype
  DeadAfter = 1
  MaxStops = 0
SPECIFICATION FairSpec
PROPERTIES
  QuitTerminates
CHECK_DEADLOCK FALSE
