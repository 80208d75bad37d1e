SPECIFICATION Spec
CONSTANTS
  Thread = {t1, t2, t3}
  Cred <- AllForms
  Minted <- MintedForms
  TcpSealed <- TcpForms
  Exp <- FormExp
  MaxTime = 2
  MaxPasses = 2
  SingleUse = TRUE
  Fault = {}
  NoThread = NoThread
  NoKey = NoKey
INVARIANTS TypeOK AtMostOnce NoLostBurn
PROPERTIES StoreSpec
