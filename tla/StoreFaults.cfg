\* Failed publications, kills and power losses anywhere, under a count cap, a
\* byte budget of one generation and a filesystem that may be full.
SPECIFICATION FairSpec
CONSTANTS
  MaxGen = 4
  MaxTime = 1
  MaxFaults = 3
  MaxGenerations = 2
  RetainSuperseded = 1
  BudgetBytes = 1
  ScarceSpace = TRUE
  FaultPoints <- Anywhere
  LazyWriteback = FALSE
INVARIANTS TypeOK ReadersIntact CurrentDurable VolumeBounded
PROPERTIES FeedSetSpec AlwaysIdleAgain
