SPECIFICATION CliSpec
CONSTANTS
  None = None
  Sessions = {"a"}
  Lanes = {"lane1", "lane2"}
  LaneOfKey <- MCLaneOfKey
  LaneCap = 1
  Adapters = {"telegram"}
  MaxLines = 1
PROPERTIES ExitReached
\* The process stays where it is, or has ended.
CHECK_DEADLOCK FALSE
