\* Each part on the way of a track into the feeds, with its faults.
SPECIFICATION TracksSpec
CONSTANTS
  Budget = 2
  Window = 4
  Reuse = 2
  Pause = 2
  Timeout = 1
  SavesFail = FALSE
  MaxTime = 8
  None = None
  a = a
  b = b
  s1 = s1
  s2 = s2
  HintTrains <- Numbers
  HintStations = {s1}
  Debounce = 1
  MinGap = 3
  MaxPerFlush = 1
  WritesFail = TRUE
  Trains = {a, b}
  Stations = {s1, s2}
  Stops <- Calls
  Before <- Lookahead
  HotWindow <- Hot
  After = 1
  Poll = 2
  Base = 8
  Cooldown = 3
  MaxFetches = 1
  Ttl = 4
  MaxStale = 3
  Liveness = 6
  BackoffMin = 2
  BackoffMax = 4
  BrowserAge = 5
  CycleTime = 1
  Faults = {"list", "miss", "browser"}
  FetcherTime = 10
  Runs = {1, 2}
  Scheduled <- Days
  BoardTracks = {"A", "B"}
  Listed = {"A"}
  MaxDelay = 1
  Lead = 2
  Grace = 1
  RowAge = 1
  WindowBefore = 1
  WindowAfter = 3
  BoardsTime = 10
  Queue <- TrainDays
  StationOf <- CallsAt
  Pages <- Shown
  TrackNumbers = {1, 2}
  Interval = 2
  Duration = 6
  MaxCycles = 2
  Minute = 2
  SurveyBefore = 4
  SurveyHot = 2
  Globals <- Configured
  MinBefore = 2
  MaxBefore = 14
  HotLead = 6
  ObservedCount = 1
  MaxFiles = 3
INVARIANTS TypesOK BudgetKept HintReleased HotAttempted RightRun StaysUp MergedExact WindowCovers
PROPERTIES PauseKept CooldownKept
CHECK_DEADLOCK FALSE
