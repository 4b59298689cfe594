SPECIFICATION Spec
CONSTANTS
  Handlers = {h1, h2}
  Users = {u1, u2}
  NoUser = NoUser
  Exceptions = {e1}
  EditStatuses = {"inputs_locked", "locked"}
  MaxCalculations = 2
  MaxLoad = 3
SYMMETRY Interchangeable
INVARIANTS
  TypeOK
  MakerChecker
  LockedReviewIsClean
  FourEyes
CHECK_DEADLOCK FALSE
