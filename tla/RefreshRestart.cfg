\* A restart between observing a label and rebuilding the schedule.
SPECIFICATION FairSpec
CONSTANTS
  l1 = l1
  l2 = l2
  Labels <- OneLabel
  Covered <- Everywhere
  MaxSchedule = 0
  MaxFaults = 1
  MaxAccepted = 9
  Worlds <- CrashOnly
  Preempted = FALSE
PROPERTIES LabelPublished
