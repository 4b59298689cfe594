SPECIFICATION Spec
CONSTANTS
  NoJob = NoJob
  Jobs = {j1}
  Dispatchers = {d1, d2}
  Recoverers = {r1}
  Retriers = {u1}
  WorkerSlots = 2
  MaxAttempts = 3
  MaxRetries = 2
  CrashPoints = {"running", "retry", "ack"}
  FaultKinds = {"unreachable", "time_limit", "lost_message", "claim_error"}
  MaxFaults = 2
  MaxMessages = 3
SYMMETRY Interchangeable
INVARIANTS
  TypeOK
  RetryBudgetSuffices
  AttemptsAreDistinct
  ExclusiveExecution
  SuccessIsFinal
  NotStranded
CHECK_DEADLOCK FALSE
