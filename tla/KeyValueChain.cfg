\* A chain of three names, and a chain of the next worker.
CONSTANTS
  NumWorkers = 2
  Keys = {"a", "b", "c", "d"}
  Chain <- FourNames
  WorkerOf <- TwoChains
  PieceSize = 4
  AllocSize = 2
  MaxCreates = 3
SPECIFICATION Spec
INVARIANT ChainsLinked
PROPERTY DirectorySpec
