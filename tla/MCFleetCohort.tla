--------------------------- MODULE MCFleetCohort ---------------------------
(* FleetCohort on a volume that sees a few polls.                          *)
EXTENDS FleetCohort

ClockForward == FaultKinds \ {"clock"}
=============================================================================
