\* Two calls of claimDue under way at one time; nothing fails, nobody edits.
SPECIFICATION Spec
CONSTANTS
  recurring = recurring
  once = once
  Schedule = {recurring, once}
  Period <- OnceAndRecurring
  Invocation = {k1, k2}
  Horizon = 3
  FirstRuns = {0, 1}
  MaxEdits = 0
  MaxFaults = 0
  Unusable = {}
  OverlappingClaims = TRUE
INVARIANTS OncePerPeriod
CHECK_DEADLOCK FALSE
