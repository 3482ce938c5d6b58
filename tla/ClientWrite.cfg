\* Writes that fill both buffers and writes that do not, a coder of any speed.
CONSTANTS
  NumBufs = 2
  MaxWrites = 3
  MaxSize = 3
SPECIFICATION FairSpec
INVARIANTS
  ParityMatchesData
  DataInOrder
  CleanBetweenWrites
PROPERTY
  WritesReturn
