SPECIFICATION Spec
CONSTANTS
  r1 = r1
  r2 = r2
  r3 = r3
  manager = manager
  head = head
  NoRequest = NoRequest
  System = System
  Employee = Employee
  Requests <- TwoRequests
  Dates <- MCCommonDates
  Units <- MCUnits
  Entitlement <- MCUpfront
  Approvers = {manager, head}
  HrAdmins = {hr}
  LeaveRoutes <- OneStep
  CancelRoutes <- OneStep
  CancelModes = {}
  TimedRequests = {}
  Submitters = {s1, s2}
  Sessions = {d1}
  Timers = {}
  Viewers = {}
  MaxWorkflows = 1
INVARIANT
  NoOverlap
CHECK_DEADLOCK FALSE
