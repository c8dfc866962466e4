SPECIFICATION FairSpec
CONSTANTS
  None = None
  Nodes = {"m", "n"}
  Jobs = {"once"}
  Once = {"once"}
  DueAt <- DueAtOne
  Period <- EveryTick
  Mine <- AllJobs
  NeedsLeader = TRUE
  ConfigJobs <- AllJobs
  Outcomes = {"Completed"}
  Orders = {}
  Lease = 2
  ChanCap = 1
  MaxTime = 3
  MaxLives = 2
  MaxErrors = 1
  MaxCalls = 0
  Failing = {"boot"}
INVARIANTS ClaimExclusive
PROPERTIES DueJobTaken
