\* Two signers of one request and two workers.
CONSTANTS
  None = None
  Workers = {w1, w2}
  Documents = {d1}
  Requests = {r1}
  Users = {ann, bob}
  Admins = {ann}
  Brazilian = {bob}
  Modes = {"evidence", "serproid"}
  Plans = {"free"}
  FreeLimit = 2
  FileLimit = 1
  Volatile = {bob}
  MaxVersion = 1
  MaxLink = 1
  MaxKey = 4
  LostCommits = TRUE
SPECIFICATION Spec
SYMMETRY WorkerSymmetry
INVARIANTS TypeOK ChecksStillHold CompletionIsExact ArtifactsAccumulate LedgerMatchesRows
PROPERTIES SignedUnderAuthority ImplementsLifecycle
\* The bounded identifiers run out; CallsEnd looks for real deadlocks.
CHECK_DEADLOCK FALSE
