\* Versions, deletion, failed uploads, plan changes and link rotation around a request.
CONSTANTS
  None = None
  Workers = {w1, w2}
  Documents = {d1}
  Requests = {r1}
  Users = {ann}
  Admins = {ann}
  Brazilian = {ann}
  Modes = {"evidence"}
  Plans = {"free", "business"}
  FreeLimit = 1
  FileLimit = 1
  Volatile = {ann}
  MaxVersion = 2
  MaxLink = 2
  MaxKey = 3
  LostCommits = FALSE
SPECIFICATION Spec
SYMMETRY WorkerSymmetry
\* The bounded identifiers run out; CallsEnd looks for real deadlocks.
CHECK_DEADLOCK FALSE
INVARIANTS OpenRequestHasDocument StorageMatchesRows InvitationsFollowCommit
