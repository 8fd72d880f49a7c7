SPECIFICATION DeliverySpec
CONSTANTS
  i1 = i1
  i2 = i2
  first = first
  second = second
  third = third
  t1 = t1
  t2 = t2
  NoEffect = NoEffect
  NoCheckpoint = NoCheckpoint
  NoApproval = NoApproval
  NoRecord = NoRecord
  NoAttempt = NoAttempt
  Finish = Finish
  Ids <- OneId
  Effects <- OneEffect
  Units <- MCUnits
  Malformed = {}
  Total = 1
  U64Max = 2
  Targets <- MCTargets
  TargetOf <- MCTargetOf
  EpochOf <- MCEpochOf
  DeadlineOf <- MCDeadlineOf
  Rounds = {r1, r2}
  MaxTick = 1
  MaxAttempts = 1
  MaxDecisions = 2
  Owner = "policy"
  ActorStates = {s1}
  StartActor = s0
  CheckpointIds = {c1}
  SuspendAtIncident = 2
  Inputs <- MCInputs
  MaxPending = 1
  Streaming = FALSE
  VersionOf <- MCVersionOf
  PriorOf <- MCPriorOf
  MessageOf <- MCMessageOf
  StartVersion = 1
  Retention = 1
  MaxDeliveries = 2
  Approvals = {}
  Interventions = {"policy", "fence", "actor", "credibility"}
SYMMETRY Symmetry
INVARIANTS ExecutedStaysCharged
PROPERTIES NeverLoosened RewindNotOverwritten
CHECK_DEADLOCK FALSE
