SPECIFICATION Spec
CONSTANTS
  Iters = {i1, i2}
  Blocks = {b1, b2}
SYMMETRY MCSymmetry
INVARIANTS TypeOK LentBytesResident InnerAlive StreamsPinned NothingLeft FateOnce
CHECK_DEADLOCK FALSE
