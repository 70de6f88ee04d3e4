\* The retention window when a publication can be cut short.
SPECIFICATION Spec
CONSTANTS
  MaxGen = 3
  MaxTime = 3
  MaxFaults = 1
  MaxGenerations = 4
  RetainSuperseded = 2
  BudgetBytes = 0
  ScarceSpace = FALSE
  FaultPoints <- Anywhere
  LazyWriteback = FALSE
INVARIANTS ReaderWindow
