SPECIFICATION FileSpec
CONSTANTS
  i1 = i1
  small = small
  p = p
  q = q
  NoEffect = NoEffect
  NoGroup = NoGroup
  Procs = {p, q}
  Ids <- MCIds
  Effects <- MCEffects
  Units <- MCUnits
  Malformed = {}
  Total = 2
  U64Max = 9
  EffectBytes <- MCEffectBytes
  HeaderLen = 84
  MaxFrameBytes = 50
  MaxRecords = 3
  MaxTotalBytes = 240
  ReserveRecords = 0
  ReserveBytes = 0
  BatchMaxRecords = 2
  BatchMaxBytes = 110
  Groups <- MCGroups
SYMMETRY Symmetry
INVARIANTS ExposedDurable InterruptedResumable RetainedCovered
PROPERTIES AcknowledgedOnlyGrows BatchExactlyOnce
CHECK_DEADLOCK FALSE
