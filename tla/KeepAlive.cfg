SPECIFICATION Spec
CONSTANTS
  Thread = {t1}
  MaxReq = 2
  PerHost = 1
INVARIANTS KeepAlive
CHECK_DEADLOCK FALSE
