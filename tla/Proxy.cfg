SPECIFICATION FairSpec
CONSTANTS
  Thread = {t1, t2}
  MaxReq = 3
  PerHost = 1
INVARIANTS Discreet CountedRight
PROPERTIES NothingLeaks
CHECK_DEADLOCK FALSE
