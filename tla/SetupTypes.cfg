SPECIFICATION Spec
CONSTANTS
  app = app  user = user  guest = guest  host = host  part1 = part1  part2 = part2
  Tasks = {app, user}
  Participants = {part1, part2}
  PartOf <- Placed
  Jobs <- OldConsumer
  Lower <- LowerCase
  EmptyMessage = "EmptyMessage"
  MaxFailures = 0
CHECK_DEADLOCK FALSE
INVARIANT MatchedTypesAgree
