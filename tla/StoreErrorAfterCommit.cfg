\* A publication whose closing retention pass fails.
SPECIFICATION Spec
CONSTANTS
  MaxGen = 2
  MaxTime = 0
  MaxFaults = 1
  MaxGenerations = 2
  RetainSuperseded = 1
  BudgetBytes = 0
  ScarceSpace = FALSE
  FaultPoints <- Anywhere
  LazyWriteback = FALSE
INVARIANTS ErrorKeepsCurrent
