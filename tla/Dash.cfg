SPECIFICATION DashFairSpec
CONSTANTS
  Thread = {t1, t2}
  Poll = {p1, p2}
  LogCap = 1
  MaxReq = 2
  MaxToggle = 1
INVARIANTS  CountersAhead
PROPERTIES CatchesUp
