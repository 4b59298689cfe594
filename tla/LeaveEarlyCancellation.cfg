SPECIFICATION Spec
CONSTANTS
  r1 = r1
  r2 = r2
  r3 = r3
  manager = manager
  head = head
  NoRequest = NoRequest
  System = System
  Employee = Employee
  Requests <- TwoRequests
  Dates <- MCDates
  Units <- MCUnits
  Entitlement <- MCUpfront
  Approvers = {manager, head}
  HrAdmins = {}
  LeaveRoutes <- TwoSteps
  CancelRoutes <- TwoSteps
  CancelModes = {"direct", "reapproval"}
  TimedRequests = {r1}
  Submitters = {s1}
  Sessions = {d1}
  Timers = {t1}
  Viewers = {}
  MaxWorkflows = 3
INVARIANT
  CancellationRestoresBalance
CHECK_DEADLOCK FALSE
