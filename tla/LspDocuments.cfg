SPECIFICATION DocumentsSpec
CONSTANTS
  Doc = {d1, d2}
  cc = cc
  dd = dd
  None = None
  p1 = p1
  p2 = p2
  r1 = r1
  Filetype <- Types
  NoneFt = None
  HasCmd <- Served
  Path <- Paths
  Mapping <- Patterns
  Root <- Roots
  NULL = NULL
  Char = {a}
  MaxLen = 1
  MRUSize = 2
  Incremental <- Inc
  EarlyFiletype = FALSE
  Remap = FALSE
  Tab = {d1, d2}
  Nothing = Nothing
  Hasty = FALSE
  MaxChanges = 2
  MaxSent = 2
  MaxPending = 2
SYMMETRY Symmetry
INVARIANTS FoldersCoverOpen  ListIsLatest EditsUpToDate
PROPERTIES OpenedOnInitialized
