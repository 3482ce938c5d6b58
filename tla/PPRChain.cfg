\* A master with one slave or two, blocks that end anywhere in the ring.
CONSTANTS
  MaxServers = 3
  NumBufs = 2
  MaxTasks = 2
  LongChainTasks = 1
  MaxPieces = 3
  PromptClose = TRUE
SPECIFICATION FairSpec
INVARIANTS
  PiecesRebuilt
  ReportedIsOver
PROPERTY
  TasksReported
