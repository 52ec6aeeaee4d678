CONSTANTS
  None = None
  Function <- Switches
SPECIFICATION CodeSpec
INVARIANT UsesFresh
CHECK_DEADLOCK FALSE
