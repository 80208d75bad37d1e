SPECIFICATION FairSpec
CONSTANTS
  Thread = {t1, t2}
  Cred <- OneLink
  Minted <- OneLink
  TcpSealed <- NoForms
  Exp <- LinkExp
  MaxTime = 1
  MaxPasses = 2
  SingleUse = TRUE
  Fault = {"read", "open", "short", "rename"}
  NoThread = NoThread
  NoKey = NoKey
INVARIANTS NoWastedBurn
PROPERTIES Answered
