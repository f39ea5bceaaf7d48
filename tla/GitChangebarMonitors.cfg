SPECIFICATION Spec
CONSTANTS
  a = a
  other = other
  Doc = {a, other}
  HasPath = {a, other}
  InRepo = {a}
  NULL = NULL
  MaxVersion = 2
  MaxEdits = 1
  MaxQueue = 2
  Background = FALSE
  CommitAnytime = FALSE
CHECK_DEADLOCK FALSE
INVARIANTS MarkersInSync
