CONSTANTS
  Proc = {p}
  Object = {o}
  NULL = NULL
  MaxMade = 2
SPECIFICATION DelegatesSpec
INVARIANT ListedOnlyIfDeleted
CHECK_DEADLOCK FALSE
