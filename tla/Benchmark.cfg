SPECIFICATION Spec
CONSTANTS
  Second = 2
  Overrun = 1
  Defaults <- MCDefaults
  Parsed <- MCParsed
  Capacity = 3
  Margin = 1
  Roles = {"caller", "server", "subscriber", "publisher"}
  ArgLists <- MCArgLists
  Builds = {"checked", "release"}
  U64 = 8
  Restarts = {FALSE, TRUE}
  MaxRequests = 2
  MaxDelivered = 4
  MaxNumber = 2
INVARIANTS
  TypeOK ParsedAsDeclared SamplesAreWritten DropsOnlyWhenLate
  Accounted ServerLosesNothing CountsAtMostOneAhead LossNotHidden
  DescentsCounted LatenciesAreReal PercentilesOrdered
PROPERTIES
  NoBurst 
CHECK_DEADLOCK FALSE
