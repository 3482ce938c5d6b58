\* Two data blocks and a parity: all alive, or one data block dead; reads that
\* fill the ring and the window and reads that do not.
CONSTANTS
  StripeK = 2
  StripeM = 1
  NumBufs = 2
  MaxInFlight = 2
  MaxReads = 3
  MaxSize = 3
SPECIFICATION FairSpec
INVARIANTS
  ReadsReturnTheFile
  CleanBetweenReads
PROPERTY
  ReadsReturn
