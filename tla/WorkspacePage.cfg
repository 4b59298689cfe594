SPECIFICATION FairPageSpec
CONSTANTS
  Calls = {1, 2}
  Keys = {1, 2}
  Rows = {1, 2}
  NoKey = NoKey
  Payloads = {p1, p2}
  NoPayload = NoPayload
  Queries = {q1, q2}
  InitialQuery = q2
  DefaultQuery = q1
  Elsewhere = Elsewhere
  MaxLoads = 3
  Panels = {"apply", "decide", "regularize"}
  StorageAvailable = TRUE
  MaxSteps = 3
  Outcomes = {"applied", "refused", "unavailable"}
INVARIANTS
  PageTypeOK
  OncePerKey
  NoDuplicateWrite
  ShowsWhatWasSaved
  IdleShowsLastRequest
  LeaveUrlFollowsData
PROPERTIES
  KeyKeptUntilConfirmed
  EverythingSettles
CHECK_DEADLOCK FALSE
