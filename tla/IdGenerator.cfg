SPECIFICATION Spec
CONSTANTS
  Threads = {t1, t2, t3}
  IdWrap = 3
  Start = 1
  MaxIds = 6
INVARIANTS TypeOK UniqueUntilOverflow Distance
CHECK_DEADLOCK FALSE
