SPECIFICATION Spec
CONSTANTS
  i1 = i1
  i2 = i2
  act = act
  tgt = tgt
  ann = ann
  bob = bob
  x = x
  y = y
  ev1 = ev1
  salt = salt
  NoEffect = NoEffect
  NoDigest = NoDigest
  NoReview = NoReview
  Ids <- MCIds
  Effects <- MCEffects
  Units <- MCUnits
  Malformed = {}
  Total = 1
  U64Max = 1
  Targets = {tgt}
  TargetOf <- MCTargetOf
  EpochOf <- MCEpochOf
  DeadlineOf <- MCDeadlineOf
  Rounds = {}
  MaxTick = 0
  MaxAttempts = 2
  MaxDecisions = 0
  Members <- MCMembers
  RoundIds <- MCIds
  Roots <- MCRoots
  Salts = {salt}
  MaxMembers = 2
  MaxVotes = 2
  MaxWord = 7
  Policies <- MCPolicies
  Policy <- MCPolicy
  Evidence = {ev1}
  MaxWorld = 1
  OfferedVerdicts = {"Allow", "Hold"}
  CopiedVerdicts = {"Allow"}
SYMMETRY Symmetry
INVARIANTS TranscriptHonest ReservedOnlyWhenReady AcceptedPolicyFair
PROPERTIES DispatchedAsReviewed
CHECK_DEADLOCK FALSE
