SPECIFICATION Spec
CONSTANTS
  i1 = i1
  i2 = i2
  first = first
  later = later
  t1 = t1
  t2 = t2
  NoEffect = NoEffect
  NoCheckpoint = NoCheckpoint
  Ids <- TwoIds
  Effects <- MCEffects
  Units <- MCUnits
  Malformed = {}
  Total = 2
  U64Max = 3
  Targets <- MCTargets
  TargetOf <- MCTargetOf
  EpochOf <- MCEpochOf
  DeadlineOf <- MCDeadlineOf
  Rounds = {r1, r2}
  MaxTick = 1
  MaxAttempts = 2
  MaxDecisions = 2
  Owner = "gate"
  ActorStates = {}
  StartActor = s0
  CheckpointIds = {}
  SuspendAtIncident = 1
  Inputs <- MCInputs
  MaxPending = 1
SYMMETRY Symmetry
INVARIANTS StagesMatchLedger RestrictionsBind
PROPERTIES ReviewsAreFresh
CHECK_DEADLOCK FALSE
