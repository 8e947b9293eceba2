SPECIFICATION Spec
CONSTANTS
  Second = 2
  Overrun = 1
  Defaults <- MCDefaults
  Parsed <- MCParsed
  Capacity = 2
  Margin = 1
  Roles = {"subscriber"}
  ArgLists <- NoArguments
  Builds = {"release"}
  U64 = 8
  Restarts = {FALSE}
  MaxRequests = 2
  MaxDelivered = 3
  MaxNumber = 3
INVARIANT LossRateInRange
CHECK_DEADLOCK FALSE
