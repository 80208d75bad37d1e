SPECIFICATION FairSpec
CONSTANTS
  Thread = {t1, t2}
  Link = {l1, l2}
  MaxPasses = 2
  Fault = {"lock", "read", "open", "write", "replace", "unlock"}
  NoLink = NoLink
INVARIANTS TypeOK LockSafe BurnSafe NoWastedBurn
PROPERTIES Answered
