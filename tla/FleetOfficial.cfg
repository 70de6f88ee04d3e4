\* The official ZIP that is published after a restart.
SPECIFICATION Spec
CONSTANTS
  MaxSchedule = 0
  MaxPolls = 1
  MaxFaults = 1
  Faults = {"crash"}
INVARIANTS OfficialServed
CHECK_DEADLOCK FALSE
