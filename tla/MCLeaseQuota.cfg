SPECIFICATION FairSpec
CONSTANTS
  None = None
  Callers = {"a", "b"}
  Keys = {"channel0", "channel1", "user0"}
  Holders = {"a", "b"}
  Instances = {"p", "q"}
  Mortal = {"p"}
  HolderOf <- OwnHolder
  InstanceOf <- ProcessOf
  NumStages = 2
  LastStage <- QuotaLastStage
  SlotsOf <- QuotaSlots
  Attempts <- QuotaAttempts
  Ttl = 2
  MaxTime = 3
  MaxFaults = 1
INVARIANTS MutualExclusion NoLeakedLease
PROPERTIES LiveRowUntouched CallReturns
