\* Two columns of a (2,1) code: six servers and four ESets, as in ECMeta/README.md.
CONSTANTS
  StripeK = 2
  StripeM = 1
  OFactor = 2
  MaxGroups = 3
  MaxFailures = 2
SPECIFICATION FairSpec
CHECK_DEADLOCK FALSE
INVARIANTS
  SetsKnowTheirFailures
  GroupMeetsFreeHead
  ReplyIsExpected
  RecoveredMeansRepaired
PROPERTY
  HeadsReleased
