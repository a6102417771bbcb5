\* One server at a time, no fault: an acknowledged cancellation.
CONSTANTS
  Task <- OneTask
  Process = {p1, p2}
  Slot <- TwoSlots
  MaxLocalWorkers = 1
  Outcomes <- OneResult
  ConcurrentServers = FALSE
  LossyHeartbeats = FALSE
  DbErrors = FALSE
  CancelsAt <- Anywhere
  None = None
SPECIFICATION Spec
INVARIANT CancelIsDurable
