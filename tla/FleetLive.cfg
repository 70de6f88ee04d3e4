\* Three containers that restart and fail in every order.
SPECIFICATION FairSpec
CONSTANTS
  MaxSchedule = 1
  MaxPolls = 1
  MaxFaults = 1
  Faults <- ClockForward
INVARIANTS TypeOK WholeCohort MarkerComplete
PROPERTIES BarrierSpec CohortCatchesUp
CHECK_DEADLOCK FALSE
