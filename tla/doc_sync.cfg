SPECIFICATION SyncSpec
CONSTANTS
  MaxChanges = 4
  MaxReconnects = 2
CHECK_DEADLOCK FALSE
INVARIANT ClientIsRestored
