SPECIFICATION FairSpec
CONSTANTS
  NoJob = NoJob
  Jobs = {j1}
  Dispatchers = {d1, d2}
  Recoverers = {r1}
  Retriers = {}
  WorkerSlots = 2
  MaxAttempts = 2
  MaxRetries = 1
  CrashPoints = {"running", "retry", "ack"}
  FaultKinds = {"unreachable", "time_limit", "lost_message", "claim_error"}
  MaxFaults = 2
  MaxMessages = 6
PROPERTY
  EventuallySettled
CHECK_DEADLOCK FALSE
