SPECIFICATION Spec
CONSTANTS
  s1 = s1
  s2 = s2
  w1 = w1
  w2 = w2
  Sessions = {s1, s2}
  Worktrees = {w1, w2}
  MaxRestarts = 0
CHECK_DEADLOCK FALSE
INVARIANT NoSharedWorktree
