CONSTANTS
  None = None
  Function <- Endless
SPECIFICATION CodeSpec
INVARIANT UsesFresh
CHECK_DEADLOCK FALSE
