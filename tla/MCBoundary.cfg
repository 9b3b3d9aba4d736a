SPECIFICATION Spec
CONSTANTS
  Base = 2
  Strings <- MCStrings
  HeaderLen = 1
  MaxKeyLen = 3
  MaxEntries = 2
  IntHalf = 8
INVARIANTS TypeOK EverythingReleased NeverMisused ErrorIsTheCause RangeIsDocumented KeysArrive
