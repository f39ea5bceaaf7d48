SPECIFICATION EditorSpec
CONSTANTS
  doc1 = doc1
  doc2 = doc2
  Doc = {doc1, doc2}
  HasPath = {doc1, doc2}
  InRepo = {doc1, doc2}
  NULL = NULL
  MaxVersion = 2
  MaxEdits = 1
  MaxQueue = 2
  Background = FALSE
  CommitAnytime = FALSE
  Lines = 2
  Placed <- Same
  MaxRows = 2
  MaxBreaks = 2
  EditsInFlight = FALSE
  SplitsLines = FALSE
SYMMETRY Symmetry
INVARIANTS MarkersInSync UndoneFromOwnBlob  
