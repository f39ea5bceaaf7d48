SPECIFICATION FairSpec
CONSTANTS
  Line = {l1, l2}
  NULL = NULL
  Admitted <- AnyButOutlived
INVARIANTS PendingInStore GdbInStep ShownIsStored
PROPERTIES StopEnds ChangeMade
