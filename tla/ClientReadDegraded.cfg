\* One degraded read with either data block dead.
CONSTANTS
  StripeK = 2
  StripeM = 1
  NumBufs = 2
  MaxInFlight = 2
  MaxReads = 1
  MaxSize = 1
SPECIFICATION Spec
INVARIANT DegradedReadsReturnTheFile
