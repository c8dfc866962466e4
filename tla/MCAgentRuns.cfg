SPECIFICATION FairSpec
CONSTANTS
  None = None
  Chat = Chat
  Runs = {r1, r2}
  Workers = {w1, w2}
  Clients = {c1, c2}
  Outcomes = {"Completed"}
  KindsOf <- Roles
  Canceller = c1
  MaxFaults = 1
INVARIANTS RunOnce BottomUp NothingDropped
PROPERTIES NeverRevived QueuedRunEnds EndReported
