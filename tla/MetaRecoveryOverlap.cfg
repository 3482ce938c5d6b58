\* As MetaRecovery.cfg, with one failed server.
CONSTANTS
  StripeK = 2
  StripeM = 1
  OFactor = 2
  MaxGroups = 3
  MaxFailures = 1
SPECIFICATION Spec
CHECK_DEADLOCK FALSE
INVARIANT OnlyFailedBlocksRecovered
