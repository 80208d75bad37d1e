SPECIFICATION RateSpec
CONSTANTS
  IP = {a, b}
  PyIP = {b}
  PyThread = {t1, t2}
  RatePerMin = 2
  Minute = 1
  MaxTime = 3
  NoBucket = NoBucket
  NoIP = NoIP
INVARIANTS RateTypeOK BurstBound JustDenial
