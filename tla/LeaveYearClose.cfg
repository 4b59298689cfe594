SPECIFICATION FairSpec
CONSTANTS
  Employees = {1, 2}
  Opening <- MCOpening
  Cap = 2
  Workers = {w1, w2}
  MaxRetries = 1
  FaultKinds = {"rollback", "item", "crash", "late_crash", "time_limit", "raise", "unread", "network"}
  MaxEvents = 3
  MaxQueue = 1
INVARIANTS
  TypeOK
  CarryRespectsCap
  SuccessLeavesNoOneOut
PROPERTIES
  EventuallyCompletes
  OutcomeReachesPage
CHECK_DEADLOCK FALSE
