SPECIFICATION Spec
CONSTANTS
  r1 = r1
  r2 = r2
  r3 = r3
  manager = manager
  head = head
  NoRequest = NoRequest
  System = System
  Employee = Employee
  Requests <- ThreeRequests
  Dates <- MCDates
  Units <- MCUnits
  Entitlement <- MCMonthly
  Approvers = {manager, head}
  HrAdmins = {hr}
  LeaveRoutes <- AnySteps
  CancelRoutes <- OneStep
  CancelModes = {}
  TimedRequests = {r1}
  Submitters = {s1, s2}
  Sessions = {d1}
  Timers = {t1}
  Viewers = {v1}
  MaxWorkflows = 1
INVARIANTS
  TypeOK
  BalanceMatchesRequests
  NeverOverdrawn
  RequestFollowsWorkflow
PROPERTY
  AutoOnlyAfterDeadline
CHECK_DEADLOCK FALSE
