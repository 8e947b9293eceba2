SPECIFICATION Spec
CONSTANTS
  Publishers = {p1}
  Subscribers = {s1}
  MaxSamples = 3
  MaxLosses = 0
  Depth = 1
  TakeMax = 100
INVARIANTS EverySampleArrives
CHECK_DEADLOCK FALSE
