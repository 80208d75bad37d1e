SPECIFICATION FairSpec
CONSTANTS
  MaxItems = 3
  Buf = 1
INVARIANTS NoSilentEnd
PROPERTIES UpSpec DownSpec NeverStuck
CHECK_DEADLOCK FALSE
