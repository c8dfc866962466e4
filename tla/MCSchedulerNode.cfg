SPECIFICATION FairSpec
CONSTANTS
  None = None
  Nodes = {"n"}
  Jobs = {"once", "rep"}
  Once = {"once"}
  DueAt <- DueAtOne
  Period <- EveryTick
  Mine <- AllJobs
  NeedsLeader = FALSE
  ConfigJobs <- AllJobs
  Outcomes = {"Completed"}
  Orders <- OrdersOnRep
  Lease = 1
  ChanCap = 1
  MaxTime = 2
  MaxLives = 2
  MaxErrors = 1
  MaxCalls = 2
  Failing = {"later"}
INVARIANTS NoLeakedJobLease DispatchedInHand
PROPERTIES FollowsLifecycle LoopReturns
