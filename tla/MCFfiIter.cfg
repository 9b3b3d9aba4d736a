SPECIFICATION Spec
CONSTANTS
  MaxKey = 3
  TxnMaxKey = 2
  Values = {1, 2}
  Starts <- MCStarts
  Ends <- MCEnds
  MaxEntries = 2
  MaxBytes = 2
INVARIANTS TypeOK BatchAddressable
PROPERTIES WalkContinues EndMeansExhausted
