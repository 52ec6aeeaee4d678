CONSTANTS
  t1 = t1
  t2 = t2
  t3 = t3
  Thread = {t1, t2, t3}
  Settings <- PromptSignals
  Handle = {}
  None = None
SPECIFICATION FairSpec
PROPERTY RoundEnds
CHECK_DEADLOCK FALSE
