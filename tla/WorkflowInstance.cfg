SPECIFICATION Spec
CONSTANTS
  Instances = {w1, w2}
  manager = manager
  hr = hr
  Actors = {manager, hr}
  Routes <- MCRoutes
INVARIANTS
  TypeOK
  PendingChainShape
  OutcomeMatchesSteps
  LogAccountsForDecisions
PROPERTIES
  OutcomeIsFinal
  ImplementsApprovalChain
CHECK_DEADLOCK FALSE
