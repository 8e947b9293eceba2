SPECIFICATION FairSpec
CONSTANTS
  app = app  user = user  guest = guest  host = host  part1 = part1  part2 = part2
  Tasks = {app, user, guest, host}
  Participants = {part1, part2}
  PartOf <- Placed
  Jobs <- Colliding
  Lower <- LowerCase
  EmptyMessage = "EmptyMessage"
  MaxFailures = 1
CHECK_DEADLOCK FALSE
INVARIANTS TypeOK AnswersReturn DeclaredIsConnected NamesApart
PROPERTIES SetupEnds AnnouncedIsServed
