SPECIFICATION FairSpec
CONSTANTS
  Major = 1
  Minor = 2
INVARIANTS PinBehind
PROPERTIES Heals
CHECK_DEADLOCK FALSE
