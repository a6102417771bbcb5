\* The coding graph alone: does the second execution answer for the first one's changes?
SPECIFICATION FairSpec
CONSTANTS
  r1 = r1
  r2 = r2
  w = w
  g = g
  t = t
  i = i
  x = x
  p = p
  Call <- AllCalls
  Kind <- KindOf
  Artifact = {p}
  Paths <- PathsOf
  Requests <- Short
  Hidden = {w}
  MaxTurns = 3
  MaxToolCalls = 3
  Patience = 2
  Limit <- Limits
  Options <- Graph
INVARIANT NothingForgotten
CHECK_DEADLOCK FALSE
