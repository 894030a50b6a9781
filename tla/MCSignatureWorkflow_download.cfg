\* The download of a document two signers have signed.
CONSTANTS
  None = None
  Workers = {w1, w2}
  Documents = {d1}
  Requests = {r1}
  Users = {ann, bob}
  Admins = {ann}
  Brazilian = {bob}
  Modes = {"evidence", "serproid"}
  Plans = {"free"}
  FreeLimit = 2
  FileLimit = 1
  Volatile = {bob}
  MaxVersion = 1
  MaxLink = 1
  MaxKey = 4
  LostCommits = FALSE
SPECIFICATION Spec
SYMMETRY WorkerSymmetry
INVARIANTS DownloadShowsEveryStamp
\* The bounded identifiers run out; CallsEnd looks for real deadlocks.
CHECK_DEADLOCK FALSE
