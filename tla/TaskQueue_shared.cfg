\* Two servers at one time, no query rejected and no live heartbeat lost:
\* safety between servers, and liveness under fairness.
SPECIFICATION FairSpec
CONSTANTS
  Task <- OneTask
  Process = {p1, p2}
  Slot <- TwoSlots
  MaxLocalWorkers = 1
  Outcomes <- OneResult
  ConcurrentServers = TRUE
  LossyHeartbeats = FALSE
  DbErrors = FALSE
  CancelsAt <- Anywhere
  None = None
INVARIANTS OwnedRowsAreHeld
PROPERTIES InterruptedOnlyIfAbandoned EveryTaskSettles
