SPECIFICATION Spec
CONSTANTS
  Base = 3
  LenBytes = 2
  CountLen = 1
  SetOverhead = 7
  DeleteOverhead = 6
  MaxRecord = 14
  MaxKeyLen = 1
  MaxValueLen = 1
  Payloads <- MCPayloads
  MaxOps = 3
  Frames <- MCFrames
INVARIANTS TypeOK NeverOversized BuiltFromPrefix LimitIsExact
PROPERTY IsAtomicWrite
