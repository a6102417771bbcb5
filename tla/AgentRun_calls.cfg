\* Every caller: gates, validation, budgets, batches, abort, one revision.
SPECIFICATION FairSpec
CONSTANTS
  r1 = r1
  r2 = r2
  w = w
  g = g
  t = t
  i = i
  x = x
  p = p
  Call <- AllCalls
  Kind <- KindOf
  Artifact = {p}
  Paths <- PathsOf
  Requests <- Short
  Hidden = {w}
  MaxTurns = 3
  MaxToolCalls = 3
  Patience = 2
  Limit <- Limits
  Options <- Callers
INVARIANTS TypeOK ClaimIsBacked BudgetsHold
PROPERTIES RunEnds RefinesAccount
CHECK_DEADLOCK FALSE
