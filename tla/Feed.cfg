\* Each part that makes, stores or delivers a generation, with its faults.
SPECIFICATION FeedSpec
CONSTANTS
  None = None
  Bodies = {b1, b2}
  Start = 1709164800
  TickSecs = 86400
  MaxTicks = 2
  MaxIssued = 2
  MaxKept = 2
  Years <- LeapYears
  b1 = b1
  b2 = b2
  A = A
  B = B
  C = C
  a1 = a1
  a2 = a2
  r1 = r1
  r2 = r2
  t1 = t1
  t2 = t2
  t3 = t3
  x = x
  aa = aa
  rail = rail
  coach = coach
  d1 = d1
  d2 = d2
  za = za
  zp = zp
  zn = zn
  Stops = {A, B, C}
  Alias <- Spelling
  Trips <- Timetable
  Routes <- Lines
  Agencies = {a1, a2}
  SelectableTypes = {rail}
  Covered = {A}
  Tracks = {1}
  Unknown = {x}
  Batches <- Fetched
  Pages <- Listings
  Details = {d1, d2}
  MaxDetailPages = 1
  Schedules <- Places
  Poll = 1
  CycleTime = 1
  MaxStale = 3
  DetailTtl = 2
  DetailStale = 2
  Ttl = 2
  Interval = 1
  AdvisoryFaults = {"list", "detail"}
  AdvisoryTime = 8
  Snapshots <- Offered
  Size <- Lengths
  Rest = 1
  BudgetBytes = 8
  MaxGenerations = 2
  LinkFails = {"static", "official"}
  MaxGen = 3
  MaxRefused = 1
  Docs = {d1, d2}
  Tables <- TableOrder
  NoTable = noTable
  Flawed <- FlawedZips
  Unusable <- UnusableZips
  MaxEntries = 2
  StoreGens = 4
  StoreTime = 4
  StoreFaults = 2
  RetainSuperseded = 2
INVARIANTS TypesOK NewestIsLast CopyCurrent BuiltValidates StampKeeps SelectorExact AdvisoriesCurrent DetailsStay BudgetMet InternExact CacheTruthful ReaderWindow
PROPERTIES RememberedServed
CHECK_DEADLOCK FALSE
