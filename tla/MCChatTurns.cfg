SPECIFICATION Spec
CONSTANTS
  m1 = m1
  m2 = m2
  m3 = m3
  chat = chat
  read = read
  patch = patch
  Turns = {m1, m2, m3}
  Sessions = {chat}
  SessionOf <- MCSessionOf
  RoutesOf <- MCRoutesOf
  MaxIterations = 4
  StreakLimit = 2
  CacheLimit = 2
  DupLimit = 4
  EarlyRounds = 2
  StuckRounds = 3
  Autonomous = FALSE
  Calls = {read, patch}
  CachedReads = {read}
  Exempt = {patch}
  Writes = {patch}
  Evidence = {patch}
SYMMETRY LaterTurns
CHECK_DEADLOCK FALSE
INVARIANTS
  OneTurnWorks
  NoThoughtsOnlyLoop
