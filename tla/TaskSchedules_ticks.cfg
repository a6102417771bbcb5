\* One server: ticks that overlap only after their claim, operator requests,
\* rejected queries, crashes.
SPECIFICATION FairSpec
CONSTANTS
  recurring = recurring
  once = once
  Schedule = {recurring, once}
  Period <- OnceAndRecurring
  Invocation = {k1, k2}
  Horizon = 3
  FirstRuns = {0, 1}
  MaxEdits = 1
  MaxFaults = 1
  Unusable = {once}
  OverlappingClaims = FALSE
INVARIANTS TypeOK OncePerPeriod RunCountExplained
PROPERTIES EveryDueRunIsAnswered
CHECK_DEADLOCK FALSE
