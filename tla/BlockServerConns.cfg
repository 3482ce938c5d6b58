\* Two block servers that start, stop and come back.
CONSTANTS
  Servers = {s1, s2}
  HeartBeatEvery = 1
  MarkAfter = 2
  Jobs = 1
  EndlessJobs = FALSE
  MaxUnderWay = 1
  MaxStopped = 1
  Nobody = Nobody
SPECIFICATION FairSpec
INVARIANT ListsAgree
PROPERTIES NoFalseFailure DeadIsReported
CHECK_DEADLOCK FALSE
