SPECIFICATION FairSpec
CONSTANTS
  Line = {l1}
  NULL = NULL
  Admitted <- OnlyRestart
PROPERTY StopsDebugProcess
