SPECIFICATION FairSpec
CONSTANTS
  a = a
  b = b
  none = none
  Ids = {a, b}
  None = none
  Texts = {a}
  Chunks = 2
  Prompt = TRUE
  MaxReprocess = 2
  MaxCrashes = 2
CHECK_DEADLOCK FALSE
INVARIANTS
  QueuedIsHeld
  ReadyIsSearchable
PROPERTIES
  QueuedIsProcessed
