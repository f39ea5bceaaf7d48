SPECIFICATION Spec
CONSTANTS
  Doc = {d1, d2}
  cc = cc
  dd = dd
  None = None
  p1 = p1
  p2 = p2
  r1 = r1
  Filetype <- Types
  NoneFt = None
  HasCmd <- Served
  Path <- Paths
  Mapping <- NoMapping
  Root <- Roots
  NULL = NULL
  Char = {a, b}
  MaxLen = 2
  MRUSize = 1
  Incremental <- Inc
  EarlyFiletype = FALSE
  Remap = FALSE
INVARIANTS NothingDangling ServerInStep NoMisuse
SYMMETRY Symmetry
