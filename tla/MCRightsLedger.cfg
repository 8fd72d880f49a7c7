SPECIFICATION Spec
CONSTANTS
  i1 = i1
  i2 = i2
  i3 = i3
  small = small
  large = large
  empty = empty
  nobody = nobody
  NoEffect = NoEffect
  Ids <- MCIds
  Effects <- MCEffects
  Units <- MCUnits
  Malformed = {nobody}
  Total = 3
  U64Max = 3
INVARIANTS Conservation SettlementNeverOverflows
PROPERTIES LiabilityPersists
CHECK_DEADLOCK FALSE
