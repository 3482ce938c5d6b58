\* Three groups of six pieces over three buffers: the ring is filled twice per
\* block, the task count is a multiple of the ring.  Close tokens may be
\* consumed late; behaviours end at the task that overtakes one.
CONSTANTS
  NumBufs = 3
  Tasks = 6
  NumGroups = 3
  FollowLate = FALSE
SPECIFICATION FairSpec
INVARIANTS
  TypeOK
  TaskNeverRefused
  ReportedIsComplete
  BufferExclusive
PROPERTIES
  JobsStayInCurrentBlock
  RecoveryCompletes
  ImplementsSession
