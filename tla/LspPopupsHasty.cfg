SPECIFICATION PopupSpec
CONSTANTS
  Tab = {d1, d2}
  Nothing = Nothing
  Hasty = TRUE
  MaxChanges = 2
  MaxSent = 2
  MaxPending = 2
INVARIANTS EditsUpToDate
