SPECIFICATION TurnSpec
CONSTANTS
  None = None
  Requests <- MCRequests
  Contracted <- MCContracted
  MaxToolRounds = 1
  MaxCalls = 2
  SteerCap = 2
  MaxSteers = 2
  MaxResumes = 1
INVARIANTS AbortHasReason GuardsFit
PROPERTIES TurnEnds IsConversation
\* Every request of the chat has ended.
CHECK_DEADLOCK FALSE
