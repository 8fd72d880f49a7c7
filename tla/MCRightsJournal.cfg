SPECIFICATION Spec
CONSTANTS
  i1 = i1
  i2 = i2
  small = small
  huge = huge
  NoEffect = NoEffect
  Ids <- MCIds
  Effects <- MCEffects
  Units <- MCUnits
  Malformed = {}
  Total = 2
  U64Max = 2
  EffectBytes <- MCEffectBytes
  HeaderLen = 120
  MaxFrameBytes = 50
  MaxRecords = 7
  MaxTotalBytes = 400
  ReserveRecords = 2
  ReserveBytes = 60
  BatchMaxRecords = 3
  BatchMaxBytes = 140
  Groups <- MCGroups
INVARIANTS ReplayReproduces TailReserved BatchEqualsAppends
CHECK_DEADLOCK FALSE
