SPECIFICATION Spec
CONSTANTS
  PlanVersions = {p1, p2}
  Deviations = {d1}
  NoPlan = NoPlan
  NoCheckpoint = NoCheckpoint
  NoReport = NoReport
  Idle = Idle
  StartModes = {"plan", "yolo"}
  MaxRounds = 2
  ClearMayFail = TRUE
  Commands = {"implement", "transition", "gate", "review", "gate-report", "edit-plan", "crash", "triage"}
CHECK_DEADLOCK FALSE
INVARIANTS EvidenceIsOfThisVisit
PROPERTIES DigestFrozenInLoop ContractRefinement
