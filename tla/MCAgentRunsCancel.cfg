SPECIFICATION Spec
CONSTANTS
  None = None
  Chat = Chat
  Runs = {r1, r2}
  Workers = {w1}
  Clients = {c1}
  Outcomes = {"Completed"}
  KindsOf <- Roles
  Canceller = c1
  MaxFaults = 0
PROPERTIES CancelledStays
