SPECIFICATION FairSpec
CONSTANTS
  q1 = q1  q2 = q2  c1 = c1  c2 = c2  r1 = r1  r2 = r2  p1 = p1  p2 = p2
  Processes = {q1}
  Consumers = {c1}
  Callers = {r1}
  Providers = {p1}
  ProcessOf <- OneConsumer
  ConsumerOf <- OneCaller
  IdWrap = 2
  MaxCalls = 3
  Depth = 2
  TakeMax = 2
  MaxFaults = 1
  MaxRestarts = 1
  NoListener = NoListener
  NoResponse = NoResponse
INVARIANTS ForeignNeedsSameId NoStrandedResponse
PROPERTIES ResponseReachesCall RequestsAreServed
