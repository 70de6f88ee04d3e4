\* A sidecar that Amtrak has stopped answering while a train is due.
SPECIFICATION Spec
CONSTANTS
  a = a
  s1 = s1
  Trains = {a}
  Stations = {s1}
  Stops <- OneCall
  Before <- Lookahead
  HotWindow <- Hot
  After = 1
  Poll = 2
  Base = 6
  Cooldown = 3
  MaxFetches = 1
  Ttl = 4
  MaxStale = 3
  Liveness = 6
  BackoffMin = 2
  BackoffMax = 4
  MaxAge = 5
  CycleTime = 1
  Faults = {"miss"}
  MaxTime = 14
INVARIANTS BlockedGoesStale
CHECK_DEADLOCK FALSE
