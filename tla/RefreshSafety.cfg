\* The three tasks, crashes and failures, in every order.
SPECIFICATION Spec
CONSTANTS
  l1 = l1
  l2 = l2
  Labels <- OneLabel
  Covered <- Everywhere
  MaxSchedule = 1
  MaxFaults = 2
  MaxAccepted = 4
  Worlds <- BeforeCommit
  Preempted = TRUE
INVARIANTS TypeOK ActivePaired NewestKept
PROPERTIES PublishedForward
