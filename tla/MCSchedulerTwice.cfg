SPECIFICATION Spec
CONSTANTS
  None = None
  Nodes = {"m", "n"}
  Jobs = {"once"}
  Once = {"once"}
  DueAt <- DueAtOne
  Period <- EveryTick
  Mine <- AllJobs
  NeedsLeader = FALSE
  ConfigJobs <- AllJobs
  Outcomes = {"Completed"}
  Orders = {}
  Lease = 2
  ChanCap = 1
  MaxTime = 2
  MaxLives = 1
  MaxErrors = 0
  MaxCalls = 0
  Failing = {"later"}
INVARIANTS OnceAtMostOnce
