\* Two clients with files of their own; servers fail, slots are taken again and
\* missing files are deleted at any time.
CONSTANTS
  s1 = s1
  s2 = s2
  a = a
  b = b
  Sessions = {s1, s2}
  FilesOf <- OneFileEach
  NumSlots = 2
  StripeK = 1
  StripeM = 1
  MaxCmds <- Three
SPECIFICATION FairSpec
INVARIANTS
  GroupHasOneOwner
  CountsOutstanding
  RepliesReachTheirSender
PROPERTY
  CommandsAnswered
CHECK_DEADLOCK FALSE
