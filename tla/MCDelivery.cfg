SPECIFICATION DeliverySpec
CONSTANTS
  i1 = i1
  i2 = i2
  first = first
  second = second
  third = third
  t1 = t1
  t2 = t2
  NoEffect = NoEffect
  NoCheckpoint = NoCheckpoint
  NoApproval = NoApproval
  NoRecord = NoRecord
  NoAttempt = NoAttempt
  Finish = Finish
  Ids <- TwoIds
  Effects <- ThreeEffects
  Units <- MCUnits
  Malformed = {}
  Total = 2
  U64Max = 3
  Targets <- MCTargets
  TargetOf <- MCTargetOf
  EpochOf <- MCEpochOf
  DeadlineOf <- MCDeadlineOf
  Rounds = {r1, r2}
  MaxTick = 1
  MaxAttempts = 2
  MaxDecisions = 2
  Owner = "policy"
  ActorStates = {}
  StartActor = s0
  CheckpointIds = {}
  SuspendAtIncident = 1
  Inputs <- MCInputs
  MaxPending = 1
  Streaming = TRUE
  VersionOf <- MCVersionOf
  PriorOf <- MCPriorOf
  MessageOf <- MCMessageOf
  StartVersion = 1
  Retention = 2
  MaxDeliveries = 2
  Approvals = {}
  Interventions = {"attempt"}
SYMMETRY Symmetry
INVARIANTS ExecutedStaysCharged RecordsMatchStages PublishedInStep
PROPERTIES FenceHolds
CHECK_DEADLOCK FALSE
