\* Two clients and ECMeta, which may close, hang up and delete at any time.
\* The system stops when all clients are gone.
CONSTANTS
  Conns = {c1, c2}
  Socks = {11, 12}
  Blocks = {b1, b2}
  BlockLen = 2
  Stored = {b1}
  Rows = {0, 1}
  Fds = {1, 2}
  Window = 2
  ReadSizes = {1, 2}
  JobStep = 3
  PipeCap = 5
  MaxJobs = 5
  MishapJobs = 1
  Stale = Stale
SPECIFICATION FairSpec
CHECK_DEADLOCK FALSE
INVARIANTS ServedInOrder JobsHaveTheirClient HoldsItsFile RowsHaveOwners
PROPERTY ReadsAnswered
