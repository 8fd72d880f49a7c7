SPECIFICATION Spec
CONSTANTS
  a1 = a1
  a2 = a2
  NoTick = NoTick
  Attempts = {a1, a2}
  Envelopes <- MCEnvelopes
  Queries <- MCQueries
  Ticks = {0, 1, 2}
  Epochs = {0, 1}
  StartVersion = 1
  MaxDeliveries = 2
  MaxMutations = 5
INVARIANTS MemoryIsVisible ReceiptsKept ClockNeverForgotten
CHECK_DEADLOCK FALSE
