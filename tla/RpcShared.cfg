SPECIFICATION FairSpec
CONSTANTS
  q1 = q1  q2 = q2  c1 = c1  c2 = c2  r1 = r1  r2 = r2  p1 = p1  p2 = p2
  Processes = {q1}
  Consumers = {c1}
  Callers = {r1, r2}
  Providers = {p1}
  ProcessOf <- OneConsumer
  ConsumerOf <- SharedConsumer
  IdWrap = 4
  MaxCalls = 1
  Depth = 2
  TakeMax = 2
  MaxFaults = 1
  MaxRestarts = 0
  NoListener = NoListener
  NoResponse = NoResponse
INVARIANTS OwnResponse NoStrandedResponse
PROPERTIES ImplementsRpc
