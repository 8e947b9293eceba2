SPECIFICATION FairSpec
CONSTANTS
  Publishers = {p1}
  Subscribers = {s1}
  MaxSamples = 4
  MaxLosses = 1
  Depth = 2
  TakeMax = 2
INVARIANTS TypeOK CalledInOrder NoStrandedSample ShortStreamsArrive
PROPERTIES FreshestArrives
CHECK_DEADLOCK FALSE
