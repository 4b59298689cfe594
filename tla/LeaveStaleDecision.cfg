SPECIFICATION Spec
CONSTANTS
  r1 = r1
  r2 = r2
  r3 = r3
  manager = manager
  head = head
  NoRequest = NoRequest
  System = System
  Employee = Employee
  Requests <- TwoRequests
  Dates <- MCDates
  Units <- MCUnits
  Entitlement <- MCUpfront
  Approvers = {manager, head}
  HrAdmins = {hr}
  LeaveRoutes <- TwoSteps
  CancelRoutes <- OneStep
  CancelModes = {}
  TimedRequests = {}
  Submitters = {s1}
  Sessions = {d1, d2}
  Timers = {}
  Viewers = {}
  MaxWorkflows = 1
INVARIANT
  StaleDecisionRejected
CHECK_DEADLOCK FALSE
