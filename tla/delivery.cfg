SPECIFICATION Spec
CONSTANTS
  PlanVersions = {p1}
  Deviations = {d1}
  NoPlan = NoPlan
  NoCheckpoint = NoCheckpoint
  NoReport = NoReport
  Idle = Idle
  StartModes = {"yolo"}
  MaxRounds = 2
  ClearMayFail = FALSE
  Commands = {"lifecycle", "plan", "implement", "transition", "gate", "review", "halt", "resume", "deviation", "triage", "commit", "next", "restart"}
CHECK_DEADLOCK FALSE
INVARIANTS VerifiedPastTheGate FinishedWaitsForNobody 
PROPERTIES DeviationsKeptInLoop
