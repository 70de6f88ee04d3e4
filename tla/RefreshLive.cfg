\* Labels and schedules are published, by the wake-up or by the daily poll.
SPECIFICATION FairSpec
CONSTANTS
  l1 = l1
  l2 = l2
  Labels <- TwoLabels
  Covered <- NewStation
  MaxSchedule = 1
  MaxFaults = 1
  MaxAccepted = 9
  Worlds <- AwakeOrPolled
  Preempted = FALSE
PROPERTIES CatchesUp LabelPublished
