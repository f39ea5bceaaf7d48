CONSTANTS
  c = c
  cpp = cpp
  NULL = NULL
  Filetype <- TwoFiletypes
  Addr = {a1, a2, a3}
  Launch = {p1, p2}
  RefLang <- NoReferences
  HasCmd <- TwoFiletypes
  DeadAfter = 2
  MaxStops = 1
SPECIFICATION Spec
SYMMETRY Symmetry
INVARIANTS
  NoOrphanProcess
  SlotsUsable
  TableLeadsToLiveServer
  ReturnedIsReady
  ShutdownSilencesFeatures
PROPERTIES
  GivesUp
  ImplementsService
CHECK_DEADLOCK FALSE
