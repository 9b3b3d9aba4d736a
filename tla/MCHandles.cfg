SPECIFICATION Spec
CONSTANTS
  Threads = {t1, t2, t3}
  NoThread = NoThread
  Txns = {x1, x2}
  NoTxn = NoTxn
  CloseLk = CloseLk
SYMMETRY Symmetry
INVARIANTS TypeOK NoUseAfterFree FreeIsExclusive CloseMeansReleased RefusedAfterClose CommitOkOnce NoLeak
PROPERTY FateIsFinal
