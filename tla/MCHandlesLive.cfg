SPECIFICATION FairSpec
CONSTANTS
  Threads = {t1, t2}
  NoThread = NoThread
  Txns = {x1}
  NoTxn = NoTxn
  CloseLk = CloseLk
PROPERTY CallsReturn
