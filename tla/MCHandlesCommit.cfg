SPECIFICATION Spec
CONSTANTS
  Threads = {t1, t2, t3}
  NoThread = NoThread
  Txns = {x1}
  NoTxn = NoTxn
  CloseLk = CloseLk
INVARIANT CommitReleases
