SPECIFICATION FairSpec
CONSTANTS
  c = c
  f1 = f1
  f2 = f2
  r1 = r1
  r2 = r2
  none = none
  Creator = c
  FollowUps = {f1, f2}
  Requests = {r1}
  NoChild = none
CHECK_DEADLOCK FALSE
INVARIANTS
  OneWorkingAgent
  SettledIsQuiet
PROPERTIES
  ExitIsNoticed
