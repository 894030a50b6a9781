\* Every handler, two requests: the locks of two calls in flight, and the free allowance at its limit.
CONSTANTS
  None = None
  Workers = {w1, w2}
  Documents = {d1}
  Requests = {r1, r2}
  Users = {ann}
  Admins = {ann}
  Brazilian = {ann}
  Modes = {"evidence"}
  Plans = {"free"}
  FreeLimit = 1
  FileLimit = 1
  Volatile = {}
  MaxVersion = 1
  MaxLink = 1
  MaxKey = 3
  LostCommits = FALSE
SPECIFICATION FairSpec
\* The bounded identifiers run out; CallsEnd looks for real deadlocks.
INVARIANTS FreeAllowanceIsExact
PROPERTIES CallsEnd
CHECK_DEADLOCK FALSE
