\* A run that was resumed, and the review of what it edits.
SPECIFICATION Spec
CONSTANTS
  Part = {"ws"}
CONSTANTS
  p1 = p1
  p2 = p2
  v1 = v1
  v2 = v2
  gate = gate
  f = f
  r1 = r1
  r2 = r2
  c1 = c1
  c2 = c2
  reader1 = reader1
  reader2 = reader2
  writer = writer
  other = other
  ctl = ctl
  a1 = a1
  a2 = a2
  a3 = a3
  Path = {p1, p2}
  Content = {v1, v2}
  Absent = absent
  AtHead <- HeadFiles
  Gate = {gate}
  Needs <- GatesOf
  Tracked = {p1, p2}
  HasCopyTool = FALSE
  Targets <- CallsFor
  UserEdits <- EditsOfUser
  MaxCalls = 2
  MaxEdits = 1
  MaxFaults = 1
  File = {f}
  MaxEvents = 2
  MaxTools = 2
  MaxResumes = 1
  MaxThrown = 0
  Run = {r1, r2}
  Gated = {c1, c2}
  RunOf <- CallsOf
  AutoApprove = FALSE
  Reader = {reader1, reader2}
  Writer = {writer}
  Other = {other}
  MaxSlots = 1
  MaxAsks = 2
  Controller = {ctl}
  LiveAction = {a1, a2, a3}
  ControllerOf <- ActionsTo
  MaxConcurrency = 1
  MaxStops = 2
  MaxRestarts = 1
  ssh1 = ssh1
  ssh2 = ssh2
  Tunnel = {ssh1, ssh2}
  MaxPodStops = 1
  MaxOutages = 1
  MaxReconnects = 1
  place1 = place1
  place2 = place2
  Source = {p1, p2}
  Version = {v1, v2}
  Gone = gone
  Place = {place1, place2}
  Defines <- SymbolsOf
  Editor = {r1, r2}
  MaxChanges = 2
  MaxBreaks = 1
  Asker = {c1}
  Ttl = 1
  Policies = {"local-only"}
  Placements <- PlacementsOf
  Powered = {{"local"}}
  Installed = {}
INVARIANT ResumedIsReviewed
CHECK_DEADLOCK FALSE
