SPECIFICATION Spec
CONSTANTS
  MaxUsize = 1
  NumValues = {0, 1, 2}
  EnumValues = {0, 1, 2, 3, 4, 5}
  Keys = {x, y}
  Txns = {t1, t2}
  MaxLog = 3
  MaxOps = 2
SYMMETRY MCSymmetry
INVARIANTS TypeOK SettingsArrive OnlyCommittedWrites NoLostUpdate SerializableHistory
CHECK_DEADLOCK FALSE
